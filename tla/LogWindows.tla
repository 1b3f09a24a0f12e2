------------------------------ MODULE LogWindows ------------------------------
(***************************************************************************)
(* How a line of logcat gets to the log windows (yohu-logsrv follow.rs,    *)
(* ring.rs, windows.rs), for one device and one generation of its capture: *)
(* the worker that follows logcat and restarts it, the ring, and the book  *)
(* of the windows with their indexes.                                      *)
(*                                                                         *)
(* The lines of the device are numbered as they are logged; what the code  *)
(* sees of a line is its time and its text (pid, tid, tag and message).    *)
(* Ring and book have a lock each, and a line goes through both of them by *)
(* three sections, between which the calls of the client (bind, release,   *)
(* clear, set_capacity) may come.                                          *)
(***************************************************************************)
EXTENDS Integers, Sequences, SequencesExt, FiniteSetsExt

CONSTANTS
  Windows,                   (* windows of the client                      *)
  Capacity, SmallerCapacity, (* of the ring, before and after set_capacity *)
  MaxLine, MaxCalls,         (* bounds: lines logged, calls of the client  *)
  Repeats                    (* lines with the text of the line before     *)

LogAssumption ==
  /\ MaxLine \in Nat /\ MaxCalls \in Nat
  /\ SmallerCapacity \in 2 .. Capacity

VARIABLES
  logged, device_from,  (* lines of the device; the first logcat -c has left *)
  worker, at, line,     (* run_follow: its step, the line to read, in hand *)
  skip, prepared,       (* ResumeSkip; the windows the line in hand hits   *)
  pushed,               (* Pushed: its number, the oldest number then      *)
  buf, next_seq, capacity, (* the ring                                     *)
  book,                 (* the Window of each id                           *)
  call, calls,          (* the call of the client; how many there were     *)
  raced                 (* windows whose bind or clear a line has raced    *)
                        (* with; "ring": a clear with the device           *)

deviceVars == <<logged, device_from>>
workerVars == <<worker, at, line, skip, prepared, pushed>>
ringVars == <<buf, next_seq, capacity>>
callVars == <<call, calls, raced>>
vars == <<deviceVars, workerVars, ringVars, book, callVars>>

(* Two lines have the same time; every other text is a signal.             *)
Ts(n) == (n + 1) \div 2
Text(n) == IF n \in Repeats THEN n - 1 ELSE n
Signal(n) == Text(n) % 2 = 0
log_filter_matches(filter, n) == filter = "all" \/ Signal(n)

Unbound == [filter |-> "none", from_seq |-> 0, hits |-> <<>>, signals |-> 0]
NoCall == [op |-> "none", window |-> "none", found |-> Unbound, next |-> 0]
NotPushed == [seq |-> 0, oldest |-> 0]
NoSkip == [ts |-> 0, texts |-> {}]

Bound == {w \in Windows : book[w].filter # "none"}
Signals(hits) == Len(SelectSeq(hits, LAMBDA h : h.signal))
Hit(entry) == [seq |-> entry.seq, signal |-> Signal(entry.line)]

Init ==
  /\ logged = 0 /\ device_from = 1
  /\ worker = "Stream" /\ at = 1 /\ line = 0 /\ skip = NoSkip /\ prepared = {}
  /\ pushed = NotPushed
  /\ buf = <<>> /\ next_seq = 0 /\ capacity = Capacity
  /\ book = [w \in Windows |-> Unbound]
  /\ call = NoCall /\ calls = 0 /\ raced = {}
-----------------------------------------------------------------------------
(* The device and its logcat                                               *)

LogLine ==
  /\ logged < MaxLine
  /\ logged' = logged + 1
  /\ UNCHANGED <<device_from, workerVars, ringVars, book, callVars>>

(* resume_skip: the time of the last line of the ring, and the texts of    *)
(* the lines of the ring that share it.                                    *)
resume_skip ==
  IF buf = <<>> THEN NoSkip
  ELSE LET ts == Ts(Last(buf).line) IN
       [ts |-> ts, texts |-> {Text(e.line) : e \in {x \in ToSet(buf) : Ts(x.line) = ts}}]

(* logcat exits or fails, and what it has sent is drained. The next        *)
(* attempt asks for the lines since the last known time (-T), or for all.  *)
Restart ==
  LET since == {n \in device_from .. logged : Ts(n) >= resume_skip.ts} IN
  /\ worker = "Stream"
  /\ skip' = resume_skip
  /\ at' = IF since = {} THEN logged + 1 ELSE Min(since)
  /\ UNCHANGED <<deviceVars, worker, line, prepared, pushed, ringVars, book, callVars>>

(* Mutant: all lines of the last known time count as known.                *)
skip_time(n) == Ts(n) <= skip.ts

skip_resume(n) == Ts(n) < skip.ts \/ (Ts(n) = skip.ts /\ Text(n) \in skip.texts)

(* admit_line: a line that is known is dropped, and the first of another   *)
(* time ends the skipping.                                                 *)
AdmitLine ==
  /\ worker = "Stream" /\ at <= logged
  /\ at' = at + 1
  /\ \/ skip_resume(at) /\ UNCHANGED <<worker, line, skip>>
     \/ /\ ~skip_resume(at)
        /\ skip' = IF Ts(at) # skip.ts THEN NoSkip ELSE skip
        /\ line' = at /\ worker' = "Prepare"
  /\ UNCHANGED <<deviceVars, prepared, pushed, ringVars, book, callVars>>
-----------------------------------------------------------------------------
(* emit: prepare, push, commit                                             *)

Prepare ==
  /\ worker = "Prepare"
  /\ prepared' = {w \in Bound : log_filter_matches(book[w].filter, line)}
  /\ worker' = "Push"
  /\ UNCHANGED <<deviceVars, at, line, skip, pushed, ringVars, book, callVars>>

evict_overflow(lines, cap) ==
  IF Len(lines) > cap THEN SubSeq(lines, Len(lines) - cap + 1, Len(lines)) ELSE lines

Push ==
  /\ worker = "Push"
  /\ buf' = evict_overflow(Append(buf, [seq |-> next_seq, line |-> line]), capacity)
  /\ pushed' = [seq |-> next_seq, oldest |-> Head(buf').seq]
  /\ next_seq' = next_seq + 1
  /\ worker' = "Commit"
  /\ UNCHANGED <<deviceVars, at, line, skip, prepared, capacity, book, callVars>>

(* Mutant: signals are taken off by the length of the index.               *)
evict_uncounted(window, oldest) ==
  LET left == SelectSeq(window.hits, LAMBDA h : h.seq >= oldest) IN
  [window EXCEPT !.hits = left, !.signals = @ - (Len(window.hits) - Len(left))]

(* From the front, as long as a hit is too old; a signal is taken off the  *)
(* count with its hit.                                                     *)
evict_before(window, oldest) ==
  LET left == SelectSeq(window.hits, LAMBDA h : h.seq >= oldest)
      gone == Len(window.hits) - Len(left)
  IN
  [window EXCEPT !.hits = left, !.signals = @ - Signals(SubSeq(window.hits, 1, gone))]

(* What becomes of the note of each hit: HitBatches.                       *)
Commit ==
  LET hit == {w \in prepared \cap Bound : pushed.seq >= book[w].from_seq}
      add(window) ==
        [window EXCEPT !.hits = Append(@, [seq |-> pushed.seq, signal |-> Signal(line)]),
                       !.signals = @ + IF Signal(line) THEN 1 ELSE 0]
  IN
  /\ worker = "Commit"
  /\ book' = [w \in Windows |->
                LET left == evict_before(book[w], pushed.oldest) IN
                IF w \in hit THEN add(left) ELSE left]
  /\ worker' = "Stream" /\ line' = 0 /\ prepared' = {} /\ pushed' = NotPushed
  /\ UNCHANGED <<deviceVars, at, skip, ringVars, callVars>>
-----------------------------------------------------------------------------
(* The calls of the client. A bind reads the ring and then writes the      *)
(* book; a clear goes to the device, the ring and the book.                *)

Begin(op, w, found) ==
  /\ call = NoCall /\ calls < MaxCalls
  /\ calls' = calls + 1
  /\ call' = [op |-> op, window |-> w, found |-> found, next |-> next_seq]

BindScan(w, filter, from_seq) ==
  LET lines == SelectSeq(buf, LAMBDA e : e.seq >= from_seq /\ log_filter_matches(filter, e.line))
      hits == [i \in DOMAIN lines |-> Hit(lines[i])]
  IN
  /\ Begin("bind", w, [filter |-> filter, from_seq |-> from_seq, hits |-> hits,
                       signals |-> Signals(hits)])
  /\ UNCHANGED <<deviceVars, workerVars, ringVars, book, raced>>

(* A line that was matched before and is pushed or indexed after, or that  *)
(* was pushed since the scan, is lost to this window or counted twice.     *)
BindInsert ==
  LET w == call.window IN
  /\ call.op = "bind"
  /\ book' = [book EXCEPT ![w] = call.found]
  /\ raced' = IF worker \in {"Push", "Commit"} \/ next_seq # call.next
              THEN raced \cup {w} ELSE raced \ {w}
  /\ call' = NoCall
  /\ UNCHANGED <<deviceVars, workerVars, ringVars, calls>>

Release(w) ==
  /\ call = NoCall /\ w \in Bound
  /\ book' = [book EXCEPT ![w] = Unbound]
  /\ UNCHANGED <<deviceVars, workerVars, ringVars, callVars>>

(* logcat -c; of the lines that are gone, those that logcat has sent       *)
(* already may still come.                                                 *)
ClearDevice ==
  /\ Begin("clear_ring", "none", Unbound)
  /\ device_from' = logged + 1
  /\ at' \in {at, logged + 1}
  /\ UNCHANGED <<logged, worker, line, skip, prepared, pushed, ringVars, book, raced>>

(* A line the device still has may be in the ring already: a resume will   *)
(* not know it any more.                                                   *)
ClearRing ==
  /\ call.op = "clear_ring"
  /\ buf' = <<>>
  /\ raced' = IF \E e \in ToSet(buf) : e.line >= device_from
              THEN raced \cup {"ring"} ELSE raced \ {"ring"}
  /\ call' = [call EXCEPT !.op = "clear_book"]
  /\ UNCHANGED <<deviceVars, workerVars, next_seq, capacity, book, calls>>

clear_serial(window) == [window EXCEPT !.hits = <<>>, !.signals = 0]

InRing(hit) == buf # <<>> /\ hit.seq >= Head(buf).seq

(* A line that has come since the ring was cleared loses its hits.         *)
ClearBook ==
  /\ call.op = "clear_book"
  /\ book' = [w \in Windows |-> clear_serial(book[w])]
  /\ raced' = raced \cup {w \in Windows : \E hit \in ToSet(book[w].hits) : InRing(hit)}
  /\ call' = NoCall
  /\ UNCHANGED <<deviceVars, workerVars, ringVars, calls>>

(* The ring drops what is too much at once; the indexes with the next line. *)
SetCapacity ==
  /\ capacity # SmallerCapacity
  /\ capacity' = SmallerCapacity
  /\ buf' = evict_overflow(buf, SmallerCapacity)
  /\ UNCHANGED <<deviceVars, workerVars, next_seq, book, callVars>>
-----------------------------------------------------------------------------
Next ==
  \/ LogLine \/ Restart \/ AdmitLine \/ Prepare \/ Push \/ Commit
  \/ \E w \in Windows, filter \in {"all", "signals"}, from_seq \in {0, next_seq} :
       BindScan(w, filter, from_seq)
  \/ \E w \in Windows : Release(w)
  \/ BindInsert \/ ClearDevice \/ ClearRing \/ ClearBook \/ SetCapacity

Spec == Init /\ [][Next]_vars
-----------------------------------------------------------------------------
(* Every variable has its type. A count of signals below zero is one the   *)
(* code would have saturated.                                              *)
Hits == Seq([seq : Nat, signal : BOOLEAN])
Window == [filter : {"none", "all", "signals"}, from_seq : Nat, hits : Hits, signals : Nat]

TypeOK ==
  /\ logged \in 0 .. MaxLine /\ device_from \in 1 .. MaxLine + 1
  /\ worker \in {"Stream", "Prepare", "Push", "Commit"}
  /\ at \in 1 .. MaxLine + 1 /\ line \in 0 .. MaxLine
  /\ skip \in [ts : Nat, texts : SUBSET (1 .. MaxLine)] /\ prepared \subseteq Windows
  /\ pushed \in [seq : Nat, oldest : Nat]
  /\ buf \in Seq([seq : Nat, line : 1 .. MaxLine]) /\ next_seq \in Nat
  /\ capacity \in {Capacity, SmallerCapacity}
  /\ book \in [Windows -> Window]
  /\ call.op \in {"none", "bind", "clear_ring", "clear_book"} /\ call.found \in Window
  /\ calls \in 0 .. MaxCalls /\ raced \subseteq Windows \cup {"ring"}

(* However often logcat exits, the ring holds the lines of the device in   *)
(* their order, none twice, and between two of them none is missing that   *)
(* the device still has, but for one with the time and the text of a line  *)
(* that came before it: the resume with -T cannot tell the two apart       *)
(* (supervise_follow, resume_skip, skip_resume). Except after a clear that *)
(* has thrown away a line the device still has.                            *)
Repeated(n) == \E m \in 1 .. n - 1 : Ts(m) = Ts(n) /\ Text(m) = Text(n)

FollowIsGapless ==
  "ring" \in raced \/
  \A i \in 1 .. Len(buf) - 1 :
    LET a == buf[i].line
        b == buf[i + 1].line
    IN a < b /\ \A n \in a + 1 .. b - 1 : n < device_from \/ (Repeated(n) /\ Ts(n) = Ts(a))

(* Between two lines, a window counts and pages exactly the lines of the   *)
(* ring its filter matches, and its signals are those of its hits, however *)
(* evictions, clears and the binds of other windows fall between prepare,  *)
(* push and commit; except a window whose own bind has raced with a line,  *)
(* or a clear with one that came between ring and book.                    *)
IndexIsOfTheRing ==
  worker \in {"Stream", "Prepare"} /\ call = NoCall =>
    \A w \in Bound \ raced :
      LET inRing == SelectSeq(book[w].hits, InRing)
          lines == SelectSeq(buf, LAMBDA e : /\ e.seq >= book[w].from_seq
                                             /\ log_filter_matches(book[w].filter, e.line))
      IN
      /\ inRing = [i \in DOMAIN lines |-> Hit(lines[i])]
      /\ book[w].signals = Signals(book[w].hits)
=============================================================================
