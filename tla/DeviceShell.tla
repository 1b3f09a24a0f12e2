----------------------------- MODULE DeviceShell -----------------------------
(***************************************************************************)
(* One adb shell -T of the browse sessions (yohu-adb device_shell.rs): the *)
(* handshake, one exec after the other on the same pair of pipes, and how  *)
(* a failure is told apart once the process's stderr has been drained.     *)
(*                                                                         *)
(* The device runs what is written to its stdin in order and prints lines  *)
(* when it likes. A turn frames its answer with its nonce; whatever fails  *)
(* costs the process, so a late answer has no pipe to arrive in.           *)
(***************************************************************************)
EXTENDS Integers, Sequences

CONSTANTS
  MaxTurn,       (* bound: execs on one shell                              *)
  PipeCap,       (* bound: lines in the stdout pipe                        *)
  HANDSHAKE_LINE_LIMIT,
  DrainTimesOut  (* may STDERR_DRAIN (1 s) run out before stderr is read?  *)

ShellAssumption ==
  /\ MaxTurn \in Nat \ {0} /\ PipeCap \in Nat \ {0}
  /\ HANDSHAKE_LINE_LIMIT \in Nat \ {0}
  /\ DrainTimesOut \in BOOLEAN

VARIABLES
  io,       (* what the host does with the process                         *)
  device,   (* what answers at the other end                               *)
  stdin,    (* scripts the device has not finished: 0 is the handshake     *)
  stdout,   (* lines on their way                                          *)
  began,    (* has the first script of stdin printed its begin line?       *)
  written, tail,  (* what is on stderr, and what the drain has read of it  *)
  nonce,    (* of the turn, 0 while shaking hands                          *)
  seen,     (* lines of handshake read, or: 1 once the begin line was      *)
  body,     (* nonces of the lines taken for the answer                    *)
  origin, outcome (* how it failed, and what the caller is told            *)

deviceVars == <<device, stdin, stdout, began, written>>
hostVars == <<io, nonce, seen, body, origin, outcome>>
vars == <<deviceVars, tail, hostVars>>

Line(kind, n) == [kind |-> kind, nonce |-> n]

Lines == [kind : {"noise", "ready", "begin", "body", "end"}, nonce : 0 .. MaxTurn]

(* A device with a POSIX shell, one whose shell knows no -T, one with      *)
(* another shell, one that is offline.                                     *)
Devices == {"sh", "old", "foreign", "gone", "exited"}

Errors == {"none", "offline", "rejects"}

-----------------------------------------------------------------------------
(* The device                                                               *)

PutLine(line) == Len(stdout) < PipeCap /\ stdout' = Append(stdout, line)

DeviceRuns ==
  LET n == Head(stdin) IN
  /\ device \in {"sh", "foreign"} /\ stdin # <<>>
  /\ \/ ~began /\ PutLine(Line("noise", 0)) /\ UNCHANGED <<stdin, began>>
     \/ device = "sh" /\ n = 0 /\ PutLine(Line("ready", 0)) /\ stdin' = Tail(stdin)
         /\ UNCHANGED began
     \/ n > 0 /\ ~began /\ PutLine(Line("begin", n)) /\ began' = TRUE /\ UNCHANGED stdin
     \/ n > 0 /\ began /\ PutLine(Line("body", n)) /\ UNCHANGED <<stdin, began>>
     \/ n > 0 /\ began /\ PutLine(Line("end", n)) /\ began' = FALSE /\ stdin' = Tail(stdin)
  /\ UNCHANGED <<device, written, tail, hostVars>>

(* adb ends: at once on an old or absent device, any time on another.      *)
DeviceExits ==
  /\ device \notin {"none", "exited"}
  /\ written' = CASE device = "old" -> "rejects"
                  [] device = "gone" -> "offline"
                  [] OTHER -> written
  /\ device' = "exited"
  /\ stdin' = <<>>
  /\ UNCHANGED <<stdout, began, tail, hostVars>>

(* The cable comes out in the middle of a turn.                            *)
Unplugged ==
  /\ device = "sh" /\ written = "none"
  /\ device' = "gone"
  /\ UNCHANGED <<stdin, stdout, began, written, tail, hostVars>>

(* spawn_stderr_drain                                                       *)
Drain ==
  /\ tail # written /\ device # "none"
  /\ tail' = written
  /\ UNCHANGED <<deviceVars, hostVars>>

-----------------------------------------------------------------------------
(* The host                                                                 *)

(* DeviceShell::open: spawn, the drain, and the handshake script.          *)
OpenShell ==
  /\ io = "none"
  /\ device' \in {"sh", "old", "foreign", "gone"}
  /\ stdin' = <<0>> /\ stdout' = <<>> /\ began' = FALSE
  /\ written' = "none" /\ tail' = "none"
  /\ io' = "handshake" /\ nonce' = 0 /\ seen' = 0 /\ body' = {}
  /\ origin' = "none" /\ outcome' = "none"

(* io.take(): the process is lost to later execs, and gets classified.     *)
Fail(how) ==
  /\ io' = IF io = "handshake" THEN "closeHandshake" ELSE "closeExec"
  /\ origin' = how
  /\ UNCHANGED <<nonce, outcome>>

(* read_line is biased: cancelled, halted, out of time, then the pipe.     *)
Interrupted ==
  /\ io \in {"handshake", "turn"}
  /\ \E how \in {"Cancelled", "Timeout"} : Fail(how)
  /\ UNCHANGED <<deviceVars, tail, seen, body>>

ReadsEnd ==
  /\ io \in {"handshake", "turn"}
  /\ stdout = <<>> /\ device = "exited"
  /\ Fail("Failed")
  /\ UNCHANGED <<deviceVars, tail, seen, body>>

ReadHandshake ==
  /\ io = "handshake" /\ stdout # <<>>
  /\ stdout' = Tail(stdout)
  /\ seen' = seen + 1
  /\ \/ Head(stdout).kind = "ready" /\ io' = "ready" /\ UNCHANGED <<nonce, origin, outcome>>
     \/ /\ Head(stdout).kind # "ready"
        /\ IF seen' = HANDSHAKE_LINE_LIMIT THEN Fail("Failed")
           ELSE UNCHANGED <<io, nonce, origin, outcome>>
  /\ UNCHANGED <<device, stdin, began, written, tail, body>>

(* exec: a new nonce, and the script between its begin and end lines.      *)
Exec ==
  /\ io = "ready" /\ nonce < MaxTurn
  /\ nonce' = nonce + 1
  /\ io' = "turn" /\ seen' = 0 /\ body' = {} /\ outcome' = "none"
  /\ stdin' = IF device = "sh" THEN Append(stdin, nonce') ELSE stdin
  /\ UNCHANGED <<device, stdout, began, written, tail, origin>>

(* Mutant: every line counts from the first on.                            *)
session_line_unframed(line) ==
  CASE line = Line("end", nonce) -> "End" [] OTHER -> "Body"

session_line(line) ==
  CASE seen = 0 /\ line = Line("begin", nonce) -> "Begin"
    [] seen = 0 /\ line # Line("begin", nonce) -> "Skip"
    [] seen = 1 /\ line = Line("end", nonce) -> "End"
    [] OTHER -> "Body"

ReadTurn ==
  LET line == Head(stdout)
      is == session_line(line)
  IN
  /\ io = "turn" /\ stdout # <<>>
  /\ stdout' = Tail(stdout)
  /\ seen' = IF is = "Begin" THEN 1 ELSE seen
  /\ \/ is \in {"Skip", "Begin"} /\ UNCHANGED <<io, nonce, body, origin, outcome>>
     \/ is = "Body" /\ body' = body \cup {line.nonce} /\ UNCHANGED <<io, nonce, origin, outcome>>
     \/ is = "Body" /\ Fail("Failed") /\ UNCHANGED body  (* over STDOUT_BUDGET *)
     \/ is = "End" /\ io' = "ready" /\ outcome' = "Ok" /\ UNCHANGED <<nonce, body, origin>>
  /\ UNCHANGED <<device, stdin, began, written, tail>>

Classified ==
  CASE origin \in {"Cancelled", "Timeout"} -> origin
    [] origin = "Failed" /\ tail = "offline" -> "Failed"
    [] origin = "Failed" /\ tail = "rejects" -> "Unsupported"
    [] origin = "Failed" /\ tail = "none" ->
         IF io = "closeHandshake" THEN "Unsupported" ELSE "Failed"

(* classify_close: stdin is closed, stderr drained to its end or for one   *)
(* second, and the process killed.                                         *)
Classify ==
  /\ io \in {"closeHandshake", "closeExec"}
  /\ DrainTimesOut \/ (device = "exited" /\ tail = written)
  /\ outcome' = Classified
  /\ io' = "none"
  /\ device' = "none" /\ stdin' = <<>> /\ stdout' = <<>> /\ began' = FALSE
  /\ UNCHANGED <<written, tail, nonce, seen, body, origin>>

-----------------------------------------------------------------------------
Init ==
  /\ io = "none" /\ device = "none"
  /\ stdin = <<>> /\ stdout = <<>> /\ began = FALSE
  /\ written = "none" /\ tail = "none"
  /\ nonce = 0 /\ seen = 0 /\ body = {}
  /\ origin = "none" /\ outcome = "none"

Next ==
  \/ DeviceRuns \/ DeviceExits \/ Unplugged \/ Drain
  \/ OpenShell \/ Interrupted \/ ReadsEnd \/ ReadHandshake \/ Exec \/ ReadTurn \/ Classify

Spec == Init /\ [][Next]_vars
-----------------------------------------------------------------------------
(* Properties                                                               *)

TypeOK ==
  /\ io \in {"none", "handshake", "ready", "turn", "closeHandshake", "closeExec"}
  /\ device \in Devices \cup {"none"}
  /\ stdin \in Seq(0 .. MaxTurn) /\ Len(stdin) <= 1
  /\ stdout \in Seq(Lines) /\ Len(stdout) <= PipeCap
  /\ began \in BOOLEAN
  /\ written \in Errors /\ tail \in Errors
  /\ nonce \in 0 .. MaxTurn
  /\ seen \in 0 .. HANDSHAKE_LINE_LIMIT
  /\ body \subseteq 0 .. MaxTurn
  /\ origin \in {"none", "Cancelled", "Timeout", "Failed"}
  /\ outcome \in {"none", "Ok", "Cancelled", "Timeout", "Failed", "Unsupported"}

(* What exec returns is what the device printed for this very script, on a *)
(* pipe that also carries echoes, banners and the end of what was run      *)
(* before.                                                                 *)
AnswersAreOwn ==
  outcome = "Ok" => body \subseteq {nonce}

(* A shell that is taken for one without -T makes every later list of the  *)
(* session start an adb of its own. A cancelled or a slow one is never     *)
(* taken for that, and, if its stderr was read in time, only one that      *)
(* rejected the script or that broke off its handshake without a word on   *)
(* stderr (which may be any device): not one that went offline, nor one    *)
(* whose shell had been ready.                                             *)
FallbackIsEarned ==
  outcome = "Unsupported" =>
    /\ origin = "Failed"
    /\ ~DrainTimesOut => written = "rejects" \/ (written = "none" /\ nonce = 0)
=============================================================================
