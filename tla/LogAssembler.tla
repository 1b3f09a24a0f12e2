----------------------------- MODULE LogAssembler -----------------------------
(***************************************************************************)
(* From the lines logcat prints to the records of the ring: the assembler  *)
(* of yohu-logsrv (assembler.rs) with the pump that feeds it (follow.rs)   *)
(* and the expansion of folded stack traces (stack_trace.rs).              *)
(*                                                                         *)
(* A record is a header, its lines and an empty line; it is over with the  *)
(* next header, with the end of the stream, or when nothing has come for   *)
(* 100 ms. A system line may be printed at any time. The first record here *)
(* is a Java exception with its causes, the next one plain text. A line is *)
(* a record with its kind; only frames are told apart by their text.       *)
(***************************************************************************)
EXTENDS Integers, Sequences, SequencesExt

CONSTANTS
  Frames,    (* stack frames                                               *)
  MaxDepth,  (* bounds: frames of a stack,                                 *)
  MaxCauses  (*         causes of an exception                             *)

AssemblerAssumption == {MaxDepth, MaxCauses} \subseteq Nat

VARIABLES
  stacks,       (* what is logged: the stack of each exception, in order   *)
  todo,         (* the lines of the stream that are still to come          *)
  header, body, (* MessageAssembler                                        *)
  out,          (* what it has emitted                                     *)
  cut           (* the record that was taken while it was being printed    *)

vars == <<stacks, todo, header, body, out, cut>>

NoRecord == 0
SystemLine == [kind |-> "system"]
Header(id) == [kind |-> "header", id |-> id]
Text == [kind |-> "text"]
Blank == [kind |-> "blank"]
Cause == [kind |-> "cause"]
Frame(f) == [kind |-> "frame", frame |-> f]
Expanded(f) == [kind |-> "expanded", frame |-> f]
More(n) == [kind |-> "more", count |-> n]
-----------------------------------------------------------------------------
(* What Java prints of an exception: of the stack of a cause, the frames   *)
(* it has in common with the stack above, at the end, are only counted.    *)
(* This is the environment; and Whole is what was meant.                   *)
CommonFrames(outer, inner) ==
  LET ends == {k \in 0 .. MaxDepth :
                 /\ k <= Len(outer) /\ k <= Len(inner)
                 /\ SubSeq(outer, Len(outer) - k + 1, Len(outer))
                      = SubSeq(inner, Len(inner) - k + 1, Len(inner))}
  IN CHOOSE k \in ends : \A j \in ends : j <= k

FrameLines(frames) == [i \in DOMAIN frames |-> Frame(frames[i])]

Printed(trace, i) ==
  IF i = 1 THEN <<Text>> \o FrameLines(trace[1])
  ELSE LET n == CommonFrames(trace[i - 1], trace[i])
           own == SubSeq(trace[i], 1, Len(trace[i]) - n)
       IN <<Cause>> \o FrameLines(own) \o (IF n = 0 THEN <<>> ELSE <<More(n)>>)

Meant(trace, i) ==
  IF i = 1 THEN <<Text>> \o FrameLines(trace[1])
  ELSE LET n == CommonFrames(trace[i - 1], trace[i])
           unique == Len(trace[i]) - n
       IN <<Cause>> \o [k \in DOMAIN trace[i] |->
                          IF k <= unique THEN Frame(trace[i][k]) ELSE Expanded(trace[i][k])]

AllPrinted(trace) == FlattenSeq([i \in DOMAIN trace |-> Printed(trace, i)])
Whole(id) == IF id = 1 THEN FlattenSeq([i \in DOMAIN stacks |-> Meant(stacks, i)]) ELSE <<Text>>

Stacks == UNION {[1 .. n -> Frames] : n \in 1 .. MaxDepth}
Traces == UNION {[1 .. n -> Stacks] : n \in 1 .. MaxCauses + 1}

Init ==
  /\ stacks \in Traces \cup {<<>>}
  /\ todo = <<Header(1)>> \o AllPrinted(stacks) \o <<Blank, Header(2), Text, Blank>>
  /\ header = NoRecord /\ body = <<>> /\ out = <<>> /\ cut = NoRecord
-----------------------------------------------------------------------------
(* The expander: Context keeps the frames of the stack that is printed now *)
(* and of the one before it.                                               *)
NewContext == [in_trace |-> FALSE, current |-> <<>>, previous |-> <<>>, lines |-> <<>>]

(* Mutant: the folded frames are the first ones of the stack before.       *)
elided_from_start(ctx, count) == SubSeq(ctx.previous, 1, count)

elided(ctx, count) ==
  SubSeq(ctx.previous, Len(ctx.previous) - count + 1, Len(ctx.previous))

(* handle_elided: more than there is above stays folded.                   *)
handle_elided(ctx, line) ==
  IF line.count > Len(ctx.previous) THEN [ctx EXCEPT !.lines = Append(@, line)]
  ELSE LET frames == elided(ctx, line.count)
           expanded == [i \in DOMAIN frames |-> Expanded(frames[i])]
       IN [ctx EXCEPT !.current = @ \o frames, !.lines = @ \o expanded]

process_line(ctx, line) ==
  LET kept == [ctx EXCEPT !.lines = Append(@, line)] IN
  CASE line.kind = "frame" -> [kept EXCEPT !.in_trace = TRUE, !.current = Append(@, line.frame)]
    [] line.kind # "frame" /\ ~ctx.in_trace -> kept
    [] line.kind = "cause" /\ ctx.in_trace -> [kept EXCEPT !.previous = ctx.current, !.current = <<>>]
    [] line.kind = "more" /\ ctx.in_trace -> handle_elided(ctx, line)
    [] OTHER -> [kept EXCEPT !.in_trace = FALSE, !.current = <<>>, !.previous = <<>>]

expand_stack_trace_lines(lines) == FoldLeft(process_line, NewContext, lines).lines

(* join_body: empty lines at the end are the separator.                    *)
join_body(lines) ==
  LET full == {i \in DOMAIN lines : lines[i] # Blank} IN
  SubSeq(lines, 1, CHOOSE n \in full \cup {0} : \A i \in full : i <= n)

has_pending == header # NoRecord /\ body # <<>>

(* flush: the header goes with the record.                                 *)
Flushed ==
  IF has_pending THEN Append(out, [id |-> header, msg |-> join_body(expand_stack_trace_lines(body))])
  ELSE out
-----------------------------------------------------------------------------
(* ingest of the next line. Lines before a header belong to no record.     *)
Ingest ==
  /\ todo # <<>>
  /\ todo' = Tail(todo)
  /\ LET line == Head(todo) IN
     IF line.kind = "header"
     THEN /\ out' = Flushed
          /\ header' = line.id
          /\ body' = IF has_pending THEN <<>> ELSE body
     ELSE /\ body' = IF header = NoRecord THEN body ELSE Append(body, line)
          /\ UNCHANGED <<out, header>>
  /\ UNCHANGED <<stacks, cut>>

(* ingest of a system line: it is a record of its own, and goes ahead of   *)
(* the one that is open.                                                   *)
IngestSystem ==
  /\ ~\E i \in DOMAIN out : out[i].id = NoRecord
  /\ out' = Append(out, [id |-> NoRecord, msg |-> <<SystemLine>>])
  /\ UNCHANGED <<stacks, todo, header, body, cut>>

(* take: after LAST_MESSAGE_DELAY, or at the end of the stream. What is    *)
(* still to come of a record that is taken is lost; its separator is not   *)
(* missed.                                                                 *)
Take ==
  /\ has_pending
  /\ out' = Flushed
  /\ header' = NoRecord /\ body' = <<>>
  /\ cut' = IF todo # <<>> /\ Head(todo).kind \notin {"header", "blank"} THEN header ELSE cut
  /\ UNCHANGED <<stacks, todo>>

Next == Ingest \/ IngestSystem \/ Take
-----------------------------------------------------------------------------
Lines ==
  {Text, Blank, Cause, SystemLine} \cup {Header(id) : id \in 1 .. 2}
    \cup UNION {{Frame(f), Expanded(f)} : f \in Frames} \cup {More(n) : n \in 1 .. MaxDepth}

(* Every variable has its type.                                            *)
TypeOK ==
  /\ stacks \in Traces \cup {<<>>}
  /\ todo \in Seq(Lines) /\ body \in Seq(Lines)
  /\ header \in 0 .. 2 /\ cut \in 0 .. 2
  /\ out \in Seq([id : 0 .. 2, msg : Seq(Lines)])

(* Every record but the one that was cut short comes out once and in its   *)
(* order, with the text that was logged, the folded frames of each cause   *)
(* filled in from the right ones of the stack above (assembler.rs ingest,  *)
(* take; stack_trace.rs handle_elided); at the end none is missing, not    *)
(* even one without a text.                                                *)
RecordsAreWhole ==
  LET records == SelectSeq(out, LAMBDA r : r.id # NoRecord) IN
  /\ \A i \in DOMAIN records : records[i].id # cut => records[i].msg = Whole(records[i].id)
  /\ \A i, j \in DOMAIN records : i < j => records[i].id < records[j].id
  /\ todo = <<>> /\ ~has_pending => {records[i].id : i \in DOMAIN records} = {1, 2}
=============================================================================
