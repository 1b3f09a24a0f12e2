----------------------- MODULE DeviceSessions_proofs -----------------------
(***************************************************************************)
(* What MCDeviceSessions checks of the shell, the device catalog, the      *)
(* status hub and the browse sessions, for any devices, callers and        *)
(* bounds. Each of the four has an inductive invariant of its own, which   *)
(* its steps keep and the steps of the others do not touch.                *)
(***************************************************************************)
EXTENDS MCDeviceSessions, Sequences, SequenceTheorems, FiniteSetTheorems,
        TLAPS

-----------------------------------------------------------------------------
(* Queues                                                                   *)

LEMMA Appended ==
  ASSUME NEW S, NEW q \in Seq(S), NEW e \in S
  PROVE  /\ Append(q, e) \in Seq(S) /\ Len(Append(q, e)) = Len(q) + 1
         /\ \A i \in 1 .. Len(q) : Append(q, e)[i] = q[i]
         /\ Append(q, e)[Len(q) + 1] = e
  OBVIOUS

LEMMA NoneQueued ==
  ASSUME NEW S, NEW q, q = <<>>
  PROVE  q \in Seq(S) /\ Len(q) = 0
  OBVIOUS

LEMMA OneQueued ==
  ASSUME NEW S, NEW e \in S, NEW q, q = <<e>>
  PROVE  q \in Seq(S) /\ Len(q) = 1 /\ q[1] = e
  OBVIOUS

LEMMA Received ==
  ASSUME NEW S, NEW q \in Seq(S), q # <<>>
  PROVE  /\ Head(q) = q[1] /\ Head(q) \in S /\ Len(q) \in Nat \ {0}
         /\ Tail(q) \in Seq(S) /\ Len(Tail(q)) = Len(q) - 1
         /\ \A i \in 1 .. Len(Tail(q)) : Tail(q)[i] = q[i + 1]
  OBVIOUS

LEMMA OnlyOne ==
  ASSUME NEW S, NEW q \in Seq(S), q # <<>>, Len(q) <= 1
  PROVE  q = <<Head(q)>> /\ Tail(q) = <<>>
<1> DEFINE one == <<Head(q)>>
<1>1. Len(q) = 1
  <2>1. Len(q) \in Nat /\ Len(q) # 0
    BY EmptySeq
  <2>2. \A n \in Nat : n # 0 /\ n <= 1 => n = 1
    OBVIOUS
  <2> QED
    BY <2>1, <2>2
<1>2. /\ Head(q) = q[1] /\ Head(q) \in S
      /\ Tail(q) \in Seq(S) /\ Len(Tail(q)) = 0
  BY <1>1, Received
<1>3. one \in Seq(S) /\ Len(one) = 1 /\ one[1] = Head(q)
  BY <1>2, OneQueued
<1>4. q = one
  <2> HIDE DEF one
  <2> QED
    BY <1>1, <1>2, <1>3, SeqEqual
<1>5. Tail(q) = <<>>
  BY <1>2, EmptySeq
<1> QED
  BY <1>4, <1>5

-----------------------------------------------------------------------------
(* The shell (device_shell.rs). A turn takes what is between its begin and *)
(* its end line for its answer. It is its own answer because the pipe is   *)
(* empty when a turn begins: a handshake and a turn end with the last line *)
(* their script prints, and every other end costs the process.             *)

Handshake ==
  io = "handshake" =>
    /\ nonce = 0 /\ seen < HANDSHAKE_LINE_LIMIT /\ outcome = "none" /\ ~began
    /\ stdin \in {<<>>, <<0>>}
    /\ \A i \in 1 .. Len(stdout) :
         stdout[i].kind = "ready" => i = Len(stdout) /\ stdin = <<>>

Ready == io = "ready" => stdin = <<>> /\ stdout = <<>>

Turn ==
  io = "turn" =>
    /\ nonce > 0 /\ outcome = "none" /\ body \subseteq {nonce} /\ seen \in {0, 1}
    /\ stdin \in {<<>>, <<nonce>>}
    /\ seen = 1 => \A i \in 1 .. Len(stdout) : stdout[i].nonce = nonce
    /\ \A i, j \in 1 .. Len(stdout) :
         i < j /\ stdout[i].kind = "begin" => stdout[j].nonce = nonce
    /\ stdin # <<>> /\ ~began =>
         seen = 0 /\ \A i \in 1 .. Len(stdout) : stdout[i].kind # "begin"
    /\ \A i \in 1 .. Len(stdout) :
         stdout[i].kind = "end" => i = Len(stdout) /\ stdin = <<>>

Told ==
  /\ outcome = "Ok" => io = "ready" /\ body \subseteq {nonce}
  /\ outcome \in {"Cancelled", "Timeout", "Failed", "Unsupported"} => io = "none"
  /\ io = "none" => device = "none" /\ stdin = <<>>
  /\ io \in {"closeHandshake", "closeExec"} => origin # "none"
  /\ io = "closeHandshake" => nonce = 0
  /\ Shell!FallbackIsEarned

ShellInv == Shell!TypeOK /\ Handshake /\ Ready /\ Turn /\ Told

LEMMA ShellTypes ==
  ASSUME Shell!ShellAssumption, ShellInv, Shell!Next
  PROVE  Shell!TypeOK'
<1>1. /\ Shell!TypeOK /\ Handshake /\ Ready /\ Turn /\ Told
      /\ MaxTurn \in Nat \ {0} /\ PipeCap \in Nat \ {0} /\ HANDSHAKE_LINE_LIMIT \in Nat \ {0}
      /\ stdin \in Seq(0 .. MaxTurn) /\ stdout \in Seq(Shell!Lines)
      /\ nonce \in 0 .. MaxTurn /\ body \subseteq 0 .. MaxTurn
  BY DEF ShellInv, Shell!TypeOK, Shell!ShellAssumption
<1>2. ASSUME NEW q, q = <<>>
      PROVE  /\ q \in Seq(0 .. MaxTurn) /\ Len(q) <= 1
             /\ q \in Seq(Shell!Lines) /\ Len(q) <= PipeCap
  BY <1>1, <1>2, NoneQueued
<1>3. ASSUME NEW q, q = << 0 >>
      PROVE  q \in Seq(0 .. MaxTurn) /\ Len(q) <= 1
  <2>1. 0 \in 0 .. MaxTurn
    BY <1>1
  <2> QED
    BY <1>3, <2>1, OneQueued
<1>4. CASE Shell!DeviceRuns
  <2>1. stdin # <<>> /\ Head(stdin) \in 0 .. MaxTurn
    BY <1>1, <1>4, Received DEF Shell!DeviceRuns
  <2>2. stdin' \in Seq(0 .. MaxTurn) /\ Len(stdin') <= 1
    BY <1>1, <1>4, <2>1, Received DEF Shell!DeviceRuns, Shell!TypeOK
  <2>3. \A kind \in {"noise", "ready", "begin", "body", "end"}, n \in 0 .. MaxTurn :
          Shell!Line(kind, n) \in Shell!Lines
    BY DEF Shell!Line, Shell!Lines
  <2>4. PICK line \in Shell!Lines : Shell!PutLine(line)
    BY <1>1, <1>4, <2>1, <2>3 DEF Shell!DeviceRuns
  <2>5. stdout' \in Seq(Shell!Lines) /\ Len(stdout') <= PipeCap
    BY <1>1, <2>4, Appended DEF Shell!PutLine
  <2> QED
    BY <1>1, <1>4, <2>2, <2>5 DEF Shell!DeviceRuns, Shell!TypeOK, Shell!hostVars
<1>5. CASE Shell!DeviceExits \/ Shell!Unplugged \/ Shell!Drain
  <2>1. /\ device' \in Shell!Devices \cup {"none"}
        /\ written' \in Shell!Errors /\ tail' \in Shell!Errors
    BY <1>1, <1>5 DEF Shell!DeviceExits, Shell!Unplugged, Shell!Drain, Shell!TypeOK, Shell!Devices,
                      Shell!Errors, Shell!deviceVars
  <2>2. stdin' \in {<<>>, stdin} /\ UNCHANGED <<stdout, began, Shell!hostVars>>
    BY <1>5 DEF Shell!DeviceExits, Shell!Unplugged, Shell!Drain, Shell!hostVars, Shell!deviceVars
  <2>3. stdin' \in Seq(0 .. MaxTurn) /\ Len(stdin') <= 1
    BY <1>1, <1>2, <2>2 DEF Shell!TypeOK
  <2> QED
    BY <1>1, <2>1, <2>2, <2>3 DEF Shell!TypeOK, Shell!hostVars
<1>6. CASE Shell!OpenShell
  <2>1. /\ io' = "handshake" /\ device' \in {"sh", "old", "foreign", "gone"}
        /\ stdin' = <<0>> /\ stdout' = <<>> /\ began' = FALSE
        /\ written' = "none" /\ tail' = "none"
        /\ nonce' = 0 /\ seen' = 0 /\ body' = {} /\ origin' = "none" /\ outcome' = "none"
    BY <1>6 DEF Shell!OpenShell
  <2>2. /\ stdin' \in Seq(0 .. MaxTurn) /\ Len(stdin') <= 1
        /\ stdout' \in Seq(Shell!Lines) /\ Len(stdout') <= PipeCap
    BY <1>2, <1>3, <2>1
  <2>3. nonce' \in 0 .. MaxTurn /\ seen' \in 0 .. HANDSHAKE_LINE_LIMIT /\ body' \subseteq 0 .. MaxTurn
    BY <1>1, <2>1
  <2> QED
    BY <2>1, <2>2, <2>3 DEF Shell!TypeOK, Shell!Devices, Shell!Errors
<1>7. CASE Shell!Interrupted \/ Shell!ReadsEnd
  BY <1>1, <1>7 DEF Shell!Interrupted, Shell!ReadsEnd, Shell!Fail, Shell!TypeOK, Shell!deviceVars
<1>8. CASE Shell!ReadHandshake
  <2>1. stdout' \in Seq(Shell!Lines) /\ Len(stdout') <= PipeCap
    BY <1>1, <1>8, Received DEF Shell!ReadHandshake, Shell!TypeOK
  <2>2. seen' \in 0 .. HANDSHAKE_LINE_LIMIT
    BY <1>1, <1>8 DEF Shell!ReadHandshake, Handshake, Shell!TypeOK
  <2> QED
    BY <1>1, <1>8, <2>1, <2>2 DEF Shell!ReadHandshake, Shell!Fail, Shell!TypeOK
<1>9. CASE Shell!Exec
  <2>1. nonce' \in 0 .. MaxTurn /\ stdin = <<>>
    BY <1>1, <1>9 DEF Shell!Exec, Ready
  <2>2. stdin' = Append(stdin, nonce') \/ stdin' = stdin
    BY <1>9 DEF Shell!Exec
  <2>3. /\ Append(stdin, nonce') \in Seq(0 .. MaxTurn)
        /\ Len(Append(stdin, nonce')) = Len(stdin) + 1
    BY <1>1, <2>1, Appended
  <2>4. stdin' \in Seq(0 .. MaxTurn) /\ Len(stdin') <= 1
    BY <1>1, <2>1, <2>2, <2>3, NoneQueued
  <2> QED
    BY <1>1, <1>9, <2>1, <2>4 DEF Shell!Exec, Shell!TypeOK
<1>10. CASE Shell!ReadTurn
  <2>1. stdout' \in Seq(Shell!Lines) /\ Len(stdout') <= PipeCap /\ Head(stdout) \in Shell!Lines
    BY <1>1, <1>10, Received DEF Shell!ReadTurn, Shell!TypeOK
  <2>2. Head(stdout).nonce \in 0 .. MaxTurn
    BY <2>1 DEF Shell!Lines
  <2>3. body' \subseteq 0 .. MaxTurn
    BY <1>1, <1>10, <2>2 DEF Shell!ReadTurn
  <2> QED
    BY <1>1, <1>10, <2>1, <2>3 DEF Shell!ReadTurn, Shell!Fail, Shell!TypeOK
<1>11. CASE Shell!Classify
  <2>1. outcome' \in {"none", "Ok", "Cancelled", "Timeout", "Failed", "Unsupported"}
    BY <1>1, <1>11 DEF Shell!Classify, Shell!Classified, Shell!TypeOK, Shell!Errors, Told
  <2>2. /\ io' = "none" /\ device' = "none" /\ stdin' = <<>> /\ stdout' = <<>> /\ began' = FALSE
        /\ UNCHANGED <<written, tail, nonce, seen, body, origin>>
    BY <1>11 DEF Shell!Classify
  <2>3. /\ stdin' \in Seq(0 .. MaxTurn) /\ Len(stdin') <= 1
        /\ stdout' \in Seq(Shell!Lines) /\ Len(stdout') <= PipeCap
    BY <1>2, <2>2
  <2> QED
    BY <1>1, <2>1, <2>2, <2>3 DEF Shell!TypeOK
<1> QED
  BY <1>4, <1>5, <1>6, <1>7, <1>8, <1>9, <1>10, <1>11 DEF Shell!Next

LEMMA DeviceKeepsFrames ==
  ASSUME Shell!ShellAssumption, ShellInv, Shell!DeviceRuns
  PROVE  Handshake' /\ Ready' /\ Turn' /\ Told'
<1> DEFINE n == Head(stdin)
<1>1. /\ Handshake /\ Ready /\ Turn /\ Told /\ MaxTurn \in Nat
      /\ stdin \in Seq(0 .. MaxTurn) /\ Len(stdin) <= 1 /\ stdout \in Seq(Shell!Lines)
      /\ began \in BOOLEAN /\ nonce \in 0 .. MaxTurn
  BY DEF ShellInv, Shell!TypeOK, Shell!ShellAssumption
<1>2. /\ stdin # <<>> /\ io # "none" /\ io # "ready" /\ device # "none"
      /\ UNCHANGED <<device, written, tail, io, nonce, seen, body, origin, outcome>>
  BY <1>1 DEF Shell!DeviceRuns, Shell!hostVars, Ready, Told
<1>3. Ready' /\ Told'
  BY <1>1, <1>2 DEF Ready, Told, Shell!FallbackIsEarned
<1>. n \in 0 .. MaxTurn
  BY <1>1, <1>2, Received
<1>4. PICK kind \in {"noise", "ready", "begin", "body", "end"}, m \in {0, n} :
        /\ stdout' = Append(stdout, Shell!Line(kind, m))
        /\ kind \in {"noise", "begin"} => ~began
        /\ kind \in {"noise", "ready"} <=> m = 0
        /\ kind \in {"noise", "begin", "body"} => stdin' = stdin
        /\ kind \in {"ready", "end"} => stdin' = Tail(stdin)
        /\ kind = "ready" => n = 0
        /\ kind \in {"begin", "body"} => began'
        /\ kind \in {"noise", "ready"} => began' = began
  <2>1. CASE ~began /\ Shell!PutLine(Shell!Line("noise", 0)) /\ UNCHANGED <<stdin, began>>
    BY <2>1 DEF Shell!PutLine
  <2>2. CASE /\ n = 0 /\ Shell!PutLine(Shell!Line("ready", 0))
             /\ stdin' = Tail(stdin) /\ UNCHANGED began
    <3> WITNESS "ready" \in {"noise", "ready", "begin", "body", "end"}, 0 \in {0, n}
    <3> QED
      BY <2>2 DEF Shell!PutLine
  <2>3. CASE /\ n > 0 /\ ~began /\ Shell!PutLine(Shell!Line("begin", n))
             /\ began' = TRUE /\ UNCHANGED stdin
    <3> WITNESS "begin" \in {"noise", "ready", "begin", "body", "end"}, n \in {0, n}
    <3> QED
      BY <2>3 DEF Shell!PutLine
  <2>4. CASE n > 0 /\ began /\ Shell!PutLine(Shell!Line("body", n)) /\ UNCHANGED <<stdin, began>>
    <3> WITNESS "body" \in {"noise", "ready", "begin", "body", "end"}, n \in {0, n}
    <3> QED
      BY <2>4 DEF Shell!PutLine
  <2>5. CASE /\ n > 0 /\ began /\ Shell!PutLine(Shell!Line("end", n))
             /\ began' = FALSE /\ stdin' = Tail(stdin)
    <3> WITNESS "end" \in {"noise", "ready", "begin", "body", "end"}, n \in {0, n}
    <3> QED
      BY <2>5 DEF Shell!PutLine
  <2> QED
    BY <2>1, <2>2, <2>3, <2>4, <2>5 DEF Shell!DeviceRuns
<1> DEFINE line == Shell!Line(kind, m)
<1>5. line \in Shell!Lines /\ line.kind = kind /\ line.nonce = m
  BY <1>1, <1>2, <1>4, Received DEF Shell!Line, Shell!Lines
<1>6. /\ Len(stdout') = Len(stdout) + 1 /\ Len(stdout) \in Nat
      /\ \A i \in 1 .. Len(stdout) : stdout'[i] = stdout[i]
      /\ stdout'[Len(stdout) + 1].kind = kind /\ stdout'[Len(stdout) + 1].nonce = m
  BY <1>1, <1>4, <1>5, Appended
<1>7. \A k : stdin = <<k>> => k = n
  OBVIOUS
<1>8. stdin = <<n>> /\ Tail(stdin) = <<>>
  BY <1>1, <1>2, OnlyOne
<1>9. Handshake'
  <2> SUFFICES ASSUME io = "handshake"
               PROVE  Handshake'
    BY <1>2 DEF Handshake
  <2>1. n = 0 /\ ~began
    BY <1>1, <1>2 DEF Handshake
  <2>2. kind \in {"noise", "ready"} /\ ~began'
    BY <1>4, <2>1
  <2>3. stdin' \in {<<>>, <<0>>} /\ (kind = "ready" => stdin' = <<>>)
    BY <1>4, <1>8, <2>1, <2>2
  <2>4. \A i \in 1 .. Len(stdout) : stdout[i].kind # "ready"
    BY <1>1, <1>2 DEF Handshake
  <2> QED
    BY <1>1, <1>2, <1>6, <2>2, <2>3, <2>4 DEF Handshake
<1>10. Turn'
  <2> SUFFICES ASSUME io = "turn"
               PROVE  Turn'
    BY <1>2 DEF Turn
  <2>1. n = nonce /\ n > 0
    BY <1>1, <1>2, <1>7 DEF Turn
  <2>2. stdin' \in {<<>>, <<nonce>>} /\ (kind = "end" => stdin' = <<>>)
    BY <1>4, <1>8, <2>1
  <2>3. kind # "ready" /\ (kind # "noise" => m = nonce) /\ (kind = "noise" => ~began)
    BY <1>4, <2>1
  <2>4. \A i \in 1 .. Len(stdout) : stdout[i].kind # "end"
    BY <1>1, <1>2 DEF Turn
  <2>5. ~began => seen = 0 /\ \A i \in 1 .. Len(stdout) : stdout[i].kind # "begin"
    BY <1>1, <1>2 DEF Turn
  <2>6. seen = 1 => \A i \in 1 .. Len(stdout') : stdout'[i].nonce = nonce
    BY <1>1, <1>6, <2>3, <2>5 DEF Turn
  <2>7. \A i, j \in 1 .. Len(stdout') :
          i < j /\ stdout'[i].kind = "begin" => stdout'[j].nonce = nonce
    <3>1. ASSUME NEW i \in 1 .. Len(stdout), NEW j \in 1 .. Len(stdout), i < j,
                 stdout[i].kind = "begin"
          PROVE  stdout[j].nonce = nonce
      BY <1>1, <3>1 DEF Turn
    <3>2. ASSUME NEW i \in 1 .. Len(stdout), stdout[i].kind = "begin"
          PROVE  m = nonce
      BY <2>3, <2>5, <3>2
    <3> QED
      BY <1>6, <3>1, <3>2, SMTT(30)
  <2>8. stdin' # <<>> /\ ~began' =>
          seen = 0 /\ \A i \in 1 .. Len(stdout') : stdout'[i].kind # "begin"
    <3> SUFFICES ASSUME stdin' # <<>>, ~began'
                 PROVE  seen = 0 /\ \A i \in 1 .. Len(stdout') : stdout'[i].kind # "begin"
      OBVIOUS
    <3>1. kind = "noise"
      BY <1>4, <1>8, <2>3
    <3> QED
      BY <1>6, <2>3, <2>5, <3>1
  <2>9. \A i \in 1 .. Len(stdout') :
          stdout'[i].kind = "end" => i = Len(stdout') /\ stdin' = <<>>
    BY <1>6, <2>2, <2>4
  <2> QED
    BY <1>1, <1>2, <2>2, <2>6, <2>7, <2>8, <2>9 DEF Turn
<1> QED
  BY <1>3, <1>9, <1>10

(* What the host reads leaves the pipe from its head.                      *)
LEMMA ReadKeepsFrames ==
  ASSUME Shell!ShellAssumption, ShellInv, Shell!ReadHandshake \/ Shell!ReadTurn
  PROVE  Handshake' /\ Ready' /\ Turn' /\ Told'
<1> DEFINE line == Head(stdout)
<1>1. /\ Handshake /\ Ready /\ Turn /\ Told
      /\ stdout \in Seq(Shell!Lines) /\ stdout # <<>> /\ stdout' = Tail(stdout)
      /\ nonce \in 0 .. MaxTurn /\ seen \in 0 .. HANDSHAKE_LINE_LIMIT
      /\ HANDSHAKE_LINE_LIMIT \in Nat
      /\ UNCHANGED <<device, stdin, began, written, tail>>
  BY DEF ShellInv, Shell!TypeOK, Shell!ShellAssumption, Shell!ReadHandshake, Shell!ReadTurn
<1>a. /\ line = stdout[1] /\ line \in Shell!Lines /\ Len(stdout) \in Nat /\ Len(stdout) # 0
      /\ Len(stdout') = Len(stdout) - 1
      /\ \A i \in 1 .. Len(stdout') : stdout'[i] = stdout[i + 1]
  BY <1>1, Received
<1>2. /\ line = stdout[1] /\ 1 \in 1 .. Len(stdout) /\ Len(stdout) \in Nat
      /\ Len(stdout') = Len(stdout) - 1 /\ Len(stdout') \in Nat
      /\ \A i \in 1 .. Len(stdout') : stdout'[i] = stdout[i + 1] /\ i + 1 \in 1 .. Len(stdout)
  BY <1>a
<1>3. stdout' \in Seq(Shell!Lines) /\ (Len(stdout) = 1 => stdout' = <<>>)
  BY <1>1, <1>2, Received, EmptySeq
<1>4. CASE Shell!ReadHandshake
  <2>1. /\ io = "handshake" /\ body' = body /\ outcome' = outcome /\ nonce' = nonce
        /\ seen' = seen + 1
        /\ \/ line.kind = "ready" /\ io' = "ready"
           \/ seen' = HANDSHAKE_LINE_LIMIT /\ io' = "closeHandshake" /\ origin' = "Failed"
           \/ seen' # HANDSHAKE_LINE_LIMIT /\ io' = "handshake"
    BY <1>1, <1>4 DEF Shell!ReadHandshake, Shell!Fail
  <2>2. Handshake'
    <3> SUFFICES ASSUME io' = "handshake"
                 PROVE  Handshake'
      BY DEF Handshake
    <3>1. /\ nonce = 0 /\ outcome = "none" /\ ~began /\ stdin \in {<<>>, <<0>>}
          /\ seen < HANDSHAKE_LINE_LIMIT
      BY <1>1, <2>1 DEF Handshake
    <3>2. seen' < HANDSHAKE_LINE_LIMIT
      BY <1>1, <2>1, <3>1
    <3>3. \A i \in 1 .. Len(stdout') :
            stdout'[i].kind = "ready" => i = Len(stdout') /\ stdin' = <<>>
      <4>1. \A i \in 1 .. Len(stdout) :
              stdout[i].kind = "ready" => i = Len(stdout) /\ stdin = <<>>
        BY <1>1, <2>1 DEF Handshake
      <4>2. stdin' = stdin
        BY <1>1
      <4>3. \A i \in 1 .. Len(stdout') : stdout[i + 1].kind = "ready" => i + 1 = Len(stdout)
        BY <1>2, <4>1
      <4> QED
        BY <1>2, <4>1, <4>2, <4>3
    <3>4. stdin' \in {<<>>, <<0>>} /\ ~began' /\ outcome' = "none" /\ nonce' = 0
      BY <1>1, <2>1, <3>1
    <3> QED
      BY <3>2, <3>3, <3>4 DEF Handshake
  <2>3. Ready'
    BY <1>1, <1>2, <1>3, <2>1 DEF Handshake, Ready
  <2>4. Turn' /\ Told'
    BY <1>1, <2>1 DEF Handshake, Turn, Told, Shell!FallbackIsEarned
  <2> QED
    BY <2>2, <2>3, <2>4
<1>5. CASE Shell!ReadTurn
  <2>1. /\ io = "turn" /\ nonce' = nonce
        /\ \/ /\ Shell!session_line(line) \in {"Skip", "Begin"} /\ io' = io /\ body' = body
              /\ outcome' = outcome
              /\ seen' = IF Shell!session_line(line) = "Begin" THEN 1 ELSE seen
           \/ /\ Shell!session_line(line) = "Body" /\ io' = io /\ body' = body \cup {line.nonce}
              /\ outcome' = outcome /\ seen' = seen
           \/ io' = "closeExec" /\ origin' = "Failed" /\ outcome' = outcome
           \/ /\ Shell!session_line(line) = "End" /\ io' = "ready" /\ outcome' = "Ok"
              /\ body' = body
    BY <1>1, <1>5 DEF Shell!ReadTurn, Shell!Fail
  <2>2. /\ Shell!session_line(line) = "Begin" =>
             seen = 0 /\ line.kind = "begin" /\ line.nonce = nonce
        /\ Shell!session_line(line) = "Body" => seen = 1
        /\ Shell!session_line(line) = "End" => line.kind = "end"
    BY <1>1, <2>1 DEF Shell!session_line, Shell!Line, Turn
  <2>3. Ready'
    BY <1>1, <1>2, <1>3, <2>1, <2>2 DEF Turn, Ready
  <2>4. Handshake' /\ Told'
    BY <1>1, <2>1 DEF Handshake, Turn, Told, Shell!FallbackIsEarned
  <2>5. Turn'
    <3> SUFFICES ASSUME io' = "turn"
                 PROVE  Turn'
      BY DEF Turn
    <3>1. /\ nonce > 0 /\ outcome = "none" /\ body \subseteq {nonce}
          /\ stdin \in {<<>>, <<nonce>>} /\ seen \in {0, 1}
      BY <1>1, <2>1 DEF Turn
    <3>2. outcome' = "none" /\ seen' \in {0, 1} /\ (seen = 1 => seen' = 1)
      BY <2>1, <2>2, <3>1
    <3>3. body' \subseteq {nonce}
      BY <1>1, <1>2, <2>1, <2>2, <3>1 DEF Turn
    <3>4. seen' = 1 => \A i \in 1 .. Len(stdout') : stdout'[i].nonce = nonce
      <4>1. CASE seen = 1
        BY <1>1, <1>2, <2>1, <4>1 DEF Turn
      <4>2. CASE seen = 0 /\ seen' = 1
        <5>1. stdout[1].kind = "begin"
          BY <1>2, <2>1, <2>2, <4>2
        <5>2. \A j \in 1 .. Len(stdout) : 1 < j => stdout[j].nonce = nonce
          BY <1>1, <1>2, <2>1, <5>1 DEF Turn
        <5> QED
          BY <1>2, <5>2, SMTT(30)
      <4> QED
        BY <3>1, <3>2, <4>1, <4>2
    <3>5. \A i, j \in 1 .. Len(stdout') :
            i < j /\ stdout'[i].kind = "begin" => stdout'[j].nonce = nonce
      <4>1. \A i, j \in 1 .. Len(stdout) :
              i < j /\ stdout[i].kind = "begin" => stdout[j].nonce = nonce
        BY <1>1, <2>1 DEF Turn
      <4>2. ASSUME NEW i \in 1 .. Len(stdout'), NEW j \in 1 .. Len(stdout'),
                   i < j, stdout'[i].kind = "begin"
            PROVE  stdout'[j].nonce = nonce
        <5>1. i + 1 \in 1 .. Len(stdout) /\ j + 1 \in 1 .. Len(stdout) /\ i + 1 < j + 1
          BY <1>2, <4>2
        <5> QED
          BY <1>2, <4>1, <4>2, <5>1
      <4> QED
        BY <4>2
    <3>6. stdin # <<>> /\ ~began =>
            seen' = 0 /\ \A i \in 1 .. Len(stdout') : stdout'[i].kind # "begin"
      <4>1. stdin # <<>> /\ ~began =>
              seen = 0 /\ \A i \in 1 .. Len(stdout) : stdout[i].kind # "begin"
        BY <1>1, <2>1 DEF Turn
      <4>2. stdin # <<>> /\ ~began => line.kind # "begin"
        BY <1>2, <4>1
      <4> QED
        BY <1>2, <2>1, <2>2, <4>1, <4>2
    <3>7. \A i \in 1 .. Len(stdout') :
            stdout'[i].kind = "end" => i = Len(stdout') /\ stdin = <<>>
      <4>1. \A i \in 1 .. Len(stdout) :
              stdout[i].kind = "end" => i = Len(stdout) /\ stdin = <<>>
        BY <1>1, <2>1 DEF Turn
      <4> QED
        BY <1>2, <4>1, SMTT(30)
    <3> QED
      BY <1>1, <2>1, <3>1, <3>2, <3>3, <3>4, <3>5, <3>6, <3>7 DEF Turn
  <2> QED
    BY <2>3, <2>4, <2>5
<1> QED
  BY <1>4, <1>5

LEMMA ShellFrames ==
  ASSUME Shell!ShellAssumption, ShellInv, Shell!Next
  PROVE  Handshake' /\ Ready' /\ Turn' /\ Told'
<1>1. /\ Handshake /\ Ready /\ Turn /\ Told /\ stdin \in Seq(0 .. MaxTurn)
      /\ nonce \in 0 .. MaxTurn /\ HANDSHAKE_LINE_LIMIT \in Nat \ {0}
  BY DEF ShellInv, Shell!TypeOK, Shell!ShellAssumption
<1>2. CASE Shell!DeviceExits \/ Shell!Unplugged \/ Shell!Drain
  <2>1. /\ stdin' \in {<<>>, stdin} /\ device # "none"
        /\ UNCHANGED <<stdout, began, io, nonce, seen, body, origin, outcome>>
    BY <1>1, <1>2
    DEF Shell!DeviceExits, Shell!Unplugged, Shell!Drain, Shell!hostVars, Shell!deviceVars
  <2>2. Handshake'
    BY <1>1, <2>1 DEF Handshake
  <2>3. Ready' /\ Told'
    BY <1>1, <2>1 DEF Ready, Told, Shell!FallbackIsEarned
  <2>4. Turn'
    BY <1>1, <2>1 DEF Turn
  <2> QED
    BY <2>2, <2>3, <2>4
<1>3. CASE Shell!OpenShell
  <2>1. /\ io' = "handshake" /\ nonce' = 0 /\ seen' = 0 /\ outcome' = "none" /\ began' = FALSE
        /\ stdin' = <<0>> /\ stdout' = <<>>
    BY <1>3 DEF Shell!OpenShell
  <2>2. Handshake'
    BY <1>1, <2>1, EmptySeq DEF Handshake
  <2> QED
    BY <2>1, <2>2 DEF Ready, Turn, Told, Shell!FallbackIsEarned
<1>4. CASE Shell!Interrupted \/ Shell!ReadsEnd
  <2>1. /\ io \in {"handshake", "turn"} /\ io' \in {"closeHandshake", "closeExec"}
        /\ io' = "closeHandshake" => io = "handshake"
        /\ origin' \in {"Cancelled", "Timeout", "Failed"} /\ outcome' = outcome /\ nonce' = nonce
    BY <1>4 DEF Shell!Interrupted, Shell!ReadsEnd, Shell!Fail
  <2> QED
    BY <1>1, <2>1 DEF Handshake, Ready, Turn, Told, Shell!FallbackIsEarned
<1>5. CASE Shell!Exec
  <2>1. /\ io' = "turn" /\ nonce' = nonce + 1 /\ seen' = 0 /\ body' = {} /\ outcome' = "none"
        /\ stdout' = <<>> /\ stdin' \in {<<>>, <<nonce + 1>>}
    BY <1>1, <1>5 DEF Shell!Exec, Ready
  <2>2. Turn'
    BY <1>1, <2>1, EmptySeq DEF Turn
  <2> QED
    BY <2>1, <2>2 DEF Handshake, Ready, Told, Shell!FallbackIsEarned
<1>6. CASE Shell!Classify
  <2>1. /\ io' = "none" /\ device' = "none" /\ stdin' = <<>>
        /\ origin' = origin /\ written' = written /\ outcome' = Shell!Classified
        /\ origin # "none" /\ (~DrainTimesOut => tail = written)
        /\ nonce' = nonce /\ (io = "closeHandshake" => nonce = 0)
    BY <1>1, <1>6 DEF Shell!Classify, Told
  <2>2. /\ outcome' \in {"Cancelled", "Timeout", "Failed", "Unsupported"}
        /\ outcome' = "Unsupported" =>
             origin = "Failed" /\ (tail = "rejects" \/ (tail = "none" /\ io = "closeHandshake"))
    BY <2>1 DEF Shell!Classified, ShellInv, Shell!TypeOK, Shell!Errors
  <2> QED
    BY <2>1, <2>2 DEF Handshake, Ready, Turn, Told, Shell!FallbackIsEarned
<1> QED
  BY <1>2, <1>3, <1>4, <1>5, <1>6, DeviceKeepsFrames, ReadKeepsFrames DEF Shell!Next

LEMMA ShellInitially ==
  ASSUME Shell!ShellAssumption, Shell!Init
  PROVE  ShellInv
<1>1. /\ stdin \in Seq(0 .. MaxTurn) /\ Len(stdin) <= 1
      /\ stdout \in Seq(Shell!Lines) /\ Len(stdout) <= PipeCap
  BY EmptySeq DEF Shell!Init, Shell!ShellAssumption
<1>2. Shell!TypeOK
  <2>1. nonce \in 0 .. MaxTurn /\ seen \in 0 .. HANDSHAKE_LINE_LIMIT /\ body \subseteq 0 .. MaxTurn
    BY DEF Shell!Init, Shell!ShellAssumption
  <2> QED
    BY <1>1, <2>1 DEF Shell!Init, Shell!TypeOK, Shell!Devices, Shell!Errors
<1> QED
  BY <1>2 DEF Shell!Init, ShellInv, Handshake, Ready, Turn, Told, Shell!FallbackIsEarned

LEMMA ShellKept ==
  ASSUME Shell!ShellAssumption, ShellInv, Shell!Next
  PROVE  ShellInv'
  BY ShellTypes, ShellFrames DEF ShellInv

-----------------------------------------------------------------------------
(* The status hub (status.rs). Slots are numbered in the order they are    *)
(* opened; a poller ends only by the token of its slot.                    *)

SlotsOK ==
  /\ hubCancelled \subseteq 1 .. opened
  /\ \A s \in Serials : hubSlots[s] # 0 =>
       hubSlots[s] \in 1 .. opened /\ hubSlots[s] \notin hubCancelled
  /\ \A s, t \in Serials : hubSlots[s] # 0 /\ hubSlots[s] = hubSlots[t] => s = t

PollersOK ==
  \A k \in Hub!Slot :
    /\ poller[k] = Hub!NoPoller <=> k > opened
    /\ k <= opened /\ k \notin hubCancelled =>
         poller[k].at # "Ended" /\ hubSlots[poller[k].serial] = k

HubInv == Hub!TypeOK /\ SlotsOK /\ PollersOK

PollerPcs == {"Props", "Upsert", "Full", "UpsertFull", "Tick", "Ended"}

LEMMA PollerFields ==
  ASSUME NEW p \in Hub!Poller
  PROVE  p # Hub!NoPoller <=> p.at \in PollerPcs /\ p.serial \in Serials /\ p.sample \in Hub!Fields
  BY DEF Hub!Poller, Hub!NoPoller, PollerPcs

(* A step of the poller of slot k.                                         *)
LEMMA PollerMoves ==
  ASSUME HubInv, NEW k \in Hub!Slot, poller[k] # Hub!NoPoller,
         NEW at \in PollerPcs, NEW sample \in Hub!Fields,
         poller' = [poller EXCEPT ![k].at = at, ![k].sample = sample],
         at = "Ended" => k \in hubCancelled,
         UNCHANGED <<hubSlots, opened, hubCancelled>>
  PROVE  poller' \in [Hub!Slot -> Hub!Poller] /\ SlotsOK' /\ PollersOK'
<1>1. /\ poller \in [Hub!Slot -> Hub!Poller] /\ SlotsOK /\ PollersOK
      /\ poller[k] \in [at : PollerPcs, serial : Serials, sample : Hub!Fields]
  BY DEF HubInv, Hub!TypeOK, Hub!Poller, PollerPcs
<1>2. /\ poller'[k] = [at |-> at, serial |-> poller[k].serial, sample |-> sample]
      /\ \A j \in Hub!Slot : j # k => poller'[j] = poller[j]
  BY <1>1
<1>3. poller'[k] \in Hub!Poller /\ poller'[k] # Hub!NoPoller
  BY <1>1, <1>2 DEF Hub!Poller, PollerPcs, Hub!NoPoller
<1>4. poller' \in [Hub!Slot -> Hub!Poller]
  BY <1>1, <1>2, <1>3
<1>5. PollersOK'
  BY <1>1, <1>2, <1>3 DEF PollersOK, Hub!NoPoller
<1> QED
  BY <1>1, <1>4, <1>5 DEF SlotsOK

(* sync_online: who left loses the slot, who is new gets one of its own.   *)
LEMMA SyncKeepsPollers ==
  ASSUME Hub!HubAssumption, HubInv, NEW online \in SUBSET Serials, Hub!SyncOnline(online)
  PROVE  HubInv'
<1> DEFINE gone == {s \in Serials \ online : hubSlots[s] # 0}
           new == {s \in online : hubSlots[s] = 0}
<1>1. /\ Hub!TypeOK /\ SlotsOK /\ PollersOK /\ MaxSlot \in Nat /\ opened \in 0 .. MaxSlot
      /\ hubSlots \in [Serials -> 0 .. MaxSlot] /\ hubCancelled \subseteq Hub!Slot
      /\ poller \in [Hub!Slot -> Hub!Poller] /\ status \in [Serials -> Hub!Fields]
  BY DEF HubInv, Hub!TypeOK, Hub!HubAssumption
<1> DEFINE Opens(last, number) ==
             /\ hubCancelled' = hubCancelled \cup {hubSlots[s] : s \in gone}
             /\ status' = [s \in Serials |-> IF s \in gone \cup new THEN "None" ELSE status[s]]
             /\ opened' = last
             /\ hubSlots' = [s \in Serials |-> CASE s \in new -> number[s]
                                                 [] s \in gone -> 0
                                                 [] OTHER -> hubSlots[s]]
             /\ poller' = [k \in Hub!Slot |->
                  IF k \in opened + 1 .. last
                  THEN [at |-> "Props", sample |-> "None",
                        serial |-> CHOOSE s \in new : number[s] = k]
                  ELSE poller[k]]
             /\ UNCHANGED <<night, writes, caller, sink, hubShown>>
<1>p. PICK last \in opened .. MaxSlot :
        \E number \in Hub!Bijection(new, opened + 1 .. last) : Opens(last, number)
  BY DEF Hub!SyncOnline, Hub!Newcomers, Hub!deviceVars, Hub!clientVars
<1>q. PICK number \in Hub!Bijection(new, opened + 1 .. last) : Opens(last, number)
  BY <1>p
<1>2. Opens(last, number)
  BY <1>q
<1>3. /\ \A s \in new : number[s] \in opened + 1 .. last
      /\ \A s, t \in new : number[s] = number[t] => s = t
      /\ \A k \in opened + 1 .. last : \E s \in new : number[s] = k
  <2> HIDE DEF new, Opens
  <2> QED
    BY DEF Hub!Bijection, Hub!Injection, Hub!Surjection, Hub!IsInjective
<1>4. /\ \A s \in new : hubSlots'[s] = number[s]
      /\ \A s \in gone : hubSlots'[s] = 0
      /\ \A s \in Serials : s \notin new /\ s \notin gone => hubSlots'[s] = hubSlots[s]
  BY <1>2
<1>5. \A k \in opened + 1 .. last : \E s \in new :
        /\ hubSlots'[s] = k
        /\ poller'[k] = [at |-> "Props", serial |-> s, sample |-> "None"]
  <2> SUFFICES ASSUME NEW k \in opened + 1 .. last
               PROVE  \E s \in new :
                        /\ hubSlots'[s] = k
                        /\ poller'[k] = [at |-> "Props", serial |-> s, sample |-> "None"]
    OBVIOUS
  <2> DEFINE owner == CHOOSE s \in new : number[s] = k
  <2>1. owner \in new /\ number[owner] = k
    BY <1>3
  <2>2. k \in Hub!Slot
    BY <1>1, <1>2 DEF Hub!Slot
  <2>3. poller'[k] = [at |-> "Props", serial |-> owner, sample |-> "None"]
    BY <1>2, <2>2
  <2>4. hubSlots'[owner] = k
    BY <1>4, <2>1
  <2> HIDE DEF owner, new
  <2> QED
    BY <2>1, <2>3, <2>4
<1>6. \A k \in Hub!Slot : k \notin opened + 1 .. last => poller'[k] = poller[k]
  BY <1>2
<1>7. SlotsOK'
  <2>1. \A s \in gone : hubSlots[s] \in 1 .. opened
    BY <1>1 DEF SlotsOK
  <2>2. hubCancelled' \subseteq 1 .. opened'
    BY <1>1, <1>2, <2>1 DEF SlotsOK
  <2>3. \A s \in Serials : hubSlots'[s] # 0 =>
          hubSlots'[s] \in 1 .. opened' /\ hubSlots'[s] \notin hubCancelled'
    BY <1>1, <1>2, <1>3, <1>4 DEF SlotsOK
  <2>4. \A s, t \in Serials : hubSlots'[s] # 0 /\ hubSlots'[s] = hubSlots'[t] => s = t
    BY <1>1, <1>2, <1>3, <1>4 DEF SlotsOK
  <2> QED
    BY <2>2, <2>3, <2>4 DEF SlotsOK
<1>8. PollersOK'
  <2> SUFFICES ASSUME NEW k \in Hub!Slot
               PROVE  /\ poller'[k] = Hub!NoPoller <=> k > opened'
                      /\ k <= opened' /\ k \notin hubCancelled' =>
                           poller'[k].at # "Ended" /\ hubSlots'[poller'[k].serial] = k
    BY DEF PollersOK
  <2>1. CASE k \in opened + 1 .. last
    <3>1. PICK s \in new :
            /\ hubSlots'[s] = k
            /\ poller'[k] = [at |-> "Props", serial |-> s, sample |-> "None"]
      BY <1>5, <2>1
    <3>2. poller'[k] # Hub!NoPoller /\ poller'[k].at # "Ended" /\ poller'[k].serial = s
      BY <3>1 DEF Hub!NoPoller
    <3> QED
      BY <1>1, <1>2, <2>1, <3>1, <3>2
  <2>2. CASE k \notin opened + 1 .. last
    <3>1. poller'[k] = poller[k] /\ (k > opened <=> k > opened') /\ (k <= opened <=> k <= opened')
      BY <1>1, <1>2, <1>6, <2>2 DEF Hub!Slot
    <3>2. CASE k <= opened /\ k \notin hubCancelled'
      <4>1. /\ k \notin hubCancelled /\ poller[k].at # "Ended" /\ hubSlots[poller[k].serial] = k
            /\ poller[k].serial \in Serials
        BY <1>1, <1>2, <3>2, PollerFields DEF PollersOK, Hub!Slot
      <4>2. poller[k].serial \notin gone /\ poller[k].serial \notin new
        BY <1>2, <3>2, <4>1 DEF Hub!Slot
      <4> QED
        BY <1>1, <1>4, <3>1, <3>2, <4>1, <4>2 DEF PollersOK
    <3> QED
      BY <1>1, <3>1, <3>2 DEF PollersOK
  <2> QED
    BY <2>1, <2>2
<1>9. Hub!TypeOK'
  <2>1. hubSlots' \in [Serials -> 0 .. MaxSlot] /\ opened' \in 0 .. MaxSlot
    BY <1>1, <1>2, <1>3, <1>4
  <2>2. hubCancelled' \subseteq Hub!Slot
    BY <1>7, <2>1, <1>1 DEF SlotsOK, Hub!Slot
  <2>3. status' \in [Serials -> Hub!Fields]
    BY <1>1, <1>2 DEF Hub!Fields
  <2>4. \A k \in Hub!Slot : poller'[k] \in Hub!Poller
    <3>1. \A s \in new : [at |-> "Props", serial |-> s, sample |-> "None"] \in Hub!Poller
      BY DEF Hub!Poller, Hub!Fields
    <3> QED
      BY <1>1, <1>5, <1>6, <3>1, ZenonT(40)
  <2>5. poller' \in [Hub!Slot -> Hub!Poller]
    BY <1>2, <2>4
  <2> QED
    BY <1>1, <1>2, <2>1, <2>2, <2>3, <2>5 DEF Hub!TypeOK
<1> QED
  BY <1>7, <1>8, <1>9 DEF HubInv

(* What upsert leaves in the cache.                                        *)
LEMMA UpsertKeepsTypes ==
  ASSUME Hub!TypeOK, NEW s \in Serials, NEW sample \in Hub!Fields, Hub!upsert(s, sample)
  PROVE  status' \in [Serials -> Hub!Fields]
<1>1. status \in [Serials -> Hub!Fields] /\ Hub!Overlaid(s, sample) \in Hub!Fields
  BY DEF Hub!TypeOK, Hub!Overlaid
<1> QED
  BY <1>1 DEF Hub!upsert

LEMMA PollKeepsPollers ==
  ASSUME Hub!HubAssumption, HubInv, NEW k \in Hub!Slot, Hub!PollStep(k)
  PROVE  HubInv'
<1>1. /\ Hub!TypeOK /\ SlotsOK /\ PollersOK /\ MaxSlot \in Nat /\ EventCap \in Nat
      /\ night \in [Serials -> {"light", "dark"}] /\ status \in [Serials -> Hub!Fields]
      /\ sink \in Seq(Hub!Event) /\ Len(sink) <= EventCap
      /\ poller \in [Hub!Slot -> Hub!Poller] /\ poller[k] \in Hub!Poller
  BY DEF HubInv, Hub!TypeOK, Hub!HubAssumption
<1>2. poller[k].at \in PollerPcs
  BY DEF Hub!PollStep, Hub!SampleOk, Hub!SampleErr, Hub!PushSample, Hub!Tick, PollerPcs
<1>3. /\ poller[k] # Hub!NoPoller
      /\ poller[k].serial \in Serials /\ poller[k].sample \in Hub!Fields
  BY <1>1, <1>2, PollerFields DEF Hub!NoPoller, PollerPcs
<1>4. \A at \in PollerPcs : /\ Hub!AfterSample(k, at) \in PollerPcs
                            /\ Hub!AfterSample(k, at) = "Ended" => k \in hubCancelled
  BY DEF Hub!AfterSample, PollerPcs
<1>5. CASE Hub!SampleOk(k)
  <2> DEFINE at == IF poller[k].at = "Props" THEN "Upsert" ELSE "UpsertFull"
             sample == IF poller[k].at = "Props" THEN "None" ELSE night[poller[k].serial]
  <2>1. /\ poller' = [poller EXCEPT ![k].at = at, ![k].sample = sample]
        /\ UNCHANGED <<night, writes, hubSlots, opened, hubCancelled, status, caller, sink,
                       hubShown>>
    BY <1>1, <1>5 DEF Hub!SampleOk, Hub!deviceVars, Hub!slotVars, Hub!clientVars
  <2>2. at \in PollerPcs /\ at # "Ended" /\ sample \in Hub!Fields
    BY <1>1, <1>3 DEF PollerPcs, Hub!Fields
  <2> HIDE DEF at, sample
  <2>3. poller' \in [Hub!Slot -> Hub!Poller] /\ SlotsOK' /\ PollersOK'
    BY <1>3, <2>1, <2>2, PollerMoves
  <2> QED
    BY <1>1, <2>1, <2>3 DEF HubInv, Hub!TypeOK
<1>6. CASE Hub!SampleErr(k)
  <2> DEFINE at == Hub!AfterSample(k, poller[k].at)
  <2>1. /\ poller' = [poller EXCEPT ![k].at = at, ![k].sample = "None"]
        /\ UNCHANGED <<night, writes, hubSlots, opened, hubCancelled, status, caller, sink,
                       hubShown>>
    BY <1>1, <1>6 DEF Hub!SampleErr, Hub!deviceVars, Hub!slotVars, Hub!clientVars
  <2>2. at \in PollerPcs /\ (at = "Ended" => k \in hubCancelled) /\ "None" \in Hub!Fields
    BY <1>2, <1>4 DEF Hub!Fields
  <2> HIDE DEF at
  <2>3. poller' \in [Hub!Slot -> Hub!Poller] /\ SlotsOK' /\ PollersOK'
    BY <1>3, <2>1, <2>2, PollerMoves
  <2> QED
    BY <1>1, <2>1, <2>3 DEF HubInv, Hub!TypeOK
<1>7. CASE Hub!PushSample(k)
  <2> DEFINE at == Hub!AfterSample(k, poller[k].at)
             s == poller[k].serial
  <2>1. /\ poller' = [poller EXCEPT ![k].at = at, ![k].sample = "None"]
        /\ Hub!upsert(s, poller[k].sample)
        /\ sink' = IF status'[s] # status[s] /\ Len(sink) < EventCap
                   THEN Append(sink, [serial |-> s, night |-> status'[s]]) ELSE sink
        /\ UNCHANGED <<night, writes, hubSlots, opened, hubCancelled, caller, hubShown>>
    BY <1>1, <1>7 DEF Hub!PushSample, Hub!deviceVars, Hub!slotVars, Hub!Room
  <2>2. at \in PollerPcs /\ (at = "Ended" => k \in hubCancelled) /\ "None" \in Hub!Fields
    BY <1>2, <1>4 DEF Hub!Fields
  <2>3. status' \in [Serials -> Hub!Fields]
    BY <1>1, <1>3, <2>1, UpsertKeepsTypes
  <2>4. sink' \in Seq(Hub!Event) /\ Len(sink') <= EventCap
    <3>1. [serial |-> s, night |-> status'[s]] \in Hub!Event
      BY <1>3, <2>3 DEF Hub!Event
    <3> QED
      BY <1>1, <2>1, <3>1
  <2> HIDE DEF at
  <2>5. poller' \in [Hub!Slot -> Hub!Poller] /\ SlotsOK' /\ PollersOK'
    BY <1>3, <2>1, <2>2, PollerMoves
  <2> QED
    BY <1>1, <2>1, <2>3, <2>4, <2>5 DEF HubInv, Hub!TypeOK
<1>8. CASE Hub!Tick(k)
  <2> DEFINE at == IF k \in hubCancelled THEN "Ended" ELSE "Full"
  <2>1. /\ poller' = [poller EXCEPT ![k].at = at, ![k].sample = poller[k].sample]
        /\ UNCHANGED <<night, writes, hubSlots, opened, hubCancelled, status, caller, sink,
                       hubShown>>
    BY <1>1, <1>3, <1>8 DEF Hub!Tick, Hub!deviceVars, Hub!slotVars, Hub!clientVars, Hub!Poller,
                            Hub!NoPoller
  <2>2. at \in PollerPcs /\ (at = "Ended" => k \in hubCancelled)
    BY DEF PollerPcs
  <2> HIDE DEF at
  <2>3. poller' \in [Hub!Slot -> Hub!Poller] /\ SlotsOK' /\ PollersOK'
    BY <1>3, <2>1, <2>2, PollerMoves
  <2> QED
    BY <1>1, <2>1, <2>3 DEF HubInv, Hub!TypeOK
<1> QED
  BY <1>5, <1>6, <1>7, <1>8 DEF Hub!PollStep

LEMMA CallsKeepPollers ==
  ASSUME Hub!HubAssumption, HubInv,
         \/ \E c \in NightCallers : Hub!CallStep(c)
         \/ \E c \in NightCallers, s \in Serials, value \in {"light", "dark"} :
              Hub!CallSetNight(c, s, value)
         \/ Hub!Deliver
  PROVE  HubInv'
<1>1. /\ Hub!TypeOK /\ SlotsOK /\ PollersOK /\ MaxSlot \in Nat /\ EventCap \in Nat
      /\ MaxWrites \in Nat /\ writes \in 0 .. MaxWrites
      /\ night \in [Serials -> {"light", "dark"}] /\ status \in [Serials -> Hub!Fields]
      /\ sink \in Seq(Hub!Event) /\ Len(sink) <= EventCap
      /\ hubSlots \in [Serials -> 0 .. MaxSlot] /\ hubShown \in [Serials -> Hub!Fields]
      /\ caller \in [NightCallers -> Hub!Call]
  BY DEF HubInv, Hub!TypeOK, Hub!HubAssumption
<1>2. UNCHANGED <<hubSlots, opened, hubCancelled, poller>>
  BY DEF Hub!CallStep, Hub!WriteNight, Hub!SampleNight, Hub!UpsertNight, Hub!SendNight,
         Hub!CallSetNight, Hub!Deliver, Hub!slotVars
<1>3. SlotsOK' /\ PollersOK'
  BY <1>1, <1>2 DEF SlotsOK, PollersOK
<1>4. \A c \in NightCallers : caller[c].at # "Idle" =>
        caller[c] \in [at : {"Write", "Sample", "Upsert", "Send"}, serial : Serials,
                       slot : Hub!Slot, night : {"light", "dark"}, sample : Hub!Fields]
  BY <1>1 DEF Hub!Call, Hub!Idle
<1>5. Hub!Idle \in Hub!Call
  BY DEF Hub!Call
<1>6. ASSUME NEW c \in NightCallers, Hub!WriteNight(c)
      PROVE  Hub!TypeOK'
  <2>1. caller[c] \in [at : {"Write", "Sample", "Upsert", "Send"}, serial : Serials,
                       slot : Hub!Slot, night : {"light", "dark"}, sample : Hub!Fields]
    BY <1>4, <1>6 DEF Hub!WriteNight
  <2>2. [caller[c] EXCEPT !.at = "Sample"] \in Hub!Call
    BY <2>1 DEF Hub!Call
  <2>3. caller' \in [NightCallers -> Hub!Call]
    BY <1>1, <1>5, <1>6, <2>2 DEF Hub!WriteNight
  <2>4. night' \in [Serials -> {"light", "dark"}]
    BY <1>1, <1>6, <2>1 DEF Hub!WriteNight
  <2> QED
    BY <1>1, <1>2, <1>6, <2>3, <2>4 DEF Hub!WriteNight, Hub!TypeOK, Hub!clientVars
<1>7. ASSUME NEW c \in NightCallers, Hub!SampleNight(c)
      PROVE  Hub!TypeOK'
  <2>1. caller[c] \in [at : {"Write", "Sample", "Upsert", "Send"}, serial : Serials,
                       slot : Hub!Slot, night : {"light", "dark"}, sample : Hub!Fields]
    BY <1>4, <1>7 DEF Hub!SampleNight
  <2>2. \A sample \in Hub!Fields :
          [caller[c] EXCEPT !.at = "Upsert", !.sample = sample] \in Hub!Call
    BY <2>1 DEF Hub!Call
  <2>3. night[caller[c].serial] \in Hub!Fields /\ caller[c].night \in Hub!Fields
    BY <1>1, <2>1 DEF Hub!Fields
  <2>4. \E sample \in Hub!Fields :
          caller' = [caller EXCEPT ![c] = [caller[c] EXCEPT !.at = "Upsert", !.sample = sample]]
    BY <1>7, <2>3 DEF Hub!SampleNight
  <2>5. caller' \in [NightCallers -> Hub!Call]
    BY <1>1, <2>2, <2>4
  <2> QED
    BY <1>1, <1>2, <1>7, <2>5 DEF Hub!SampleNight, Hub!TypeOK, Hub!clientVars, Hub!deviceVars
<1>8. ASSUME NEW c \in NightCallers, Hub!UpsertNight(c)
      PROVE  Hub!TypeOK'
  <2>1. status' \in [Serials -> Hub!Fields]
    BY <1>1, <1>4, <1>8, UpsertKeepsTypes DEF Hub!UpsertNight
  <2>2. caller' \in [NightCallers -> Hub!Call]
    BY <1>1, <1>4, <1>5, <1>8, ZenonT(40) DEF Hub!UpsertNight, Hub!Call
  <2> QED
    BY <1>1, <1>2, <1>8, <2>1, <2>2 DEF Hub!UpsertNight, Hub!TypeOK, Hub!clientVars,
                                        Hub!deviceVars
<1>9. ASSUME NEW c \in NightCallers, Hub!SendNight(c)
      PROVE  Hub!TypeOK'
  <2>1. [serial |-> caller[c].serial, night |-> caller[c].sample] \in Hub!Event
    BY <1>4, <1>9 DEF Hub!SendNight, Hub!Event
  <2>2. sink' \in Seq(Hub!Event) /\ Len(sink') <= EventCap
    BY <1>1, <1>9, <2>1 DEF Hub!SendNight, Hub!Room
  <2>3. caller' \in [NightCallers -> Hub!Call]
    BY <1>1, <1>5, <1>9 DEF Hub!SendNight
  <2> QED
    BY <1>1, <1>2, <1>9, <2>2, <2>3 DEF Hub!SendNight, Hub!TypeOK, Hub!deviceVars
<1>10. ASSUME NEW c \in NightCallers, NEW s \in Serials, NEW value \in {"light", "dark"},
              Hub!CallSetNight(c, s, value)
       PROVE  Hub!TypeOK'
  <2>1. [at |-> "Write", serial |-> s, slot |-> hubSlots[s], night |-> value,
         sample |-> "None"] \in Hub!Call
    BY <1>1, <1>10 DEF Hub!CallSetNight, Hub!Call, Hub!Slot, Hub!Fields
  <2>2. caller' \in [NightCallers -> Hub!Call] /\ writes' \in 0 .. MaxWrites
    BY <1>1, <1>10, <2>1 DEF Hub!CallSetNight
  <2> QED
    BY <1>1, <1>2, <1>10, <2>2 DEF Hub!CallSetNight, Hub!TypeOK, Hub!clientVars
<1>11. ASSUME Hub!Deliver
       PROVE  Hub!TypeOK'
  <2>1. /\ Head(sink) \in Hub!Event /\ Tail(sink) \in Seq(Hub!Event)
        /\ Len(Tail(sink)) <= EventCap
    BY <1>1, <1>11, Received DEF Hub!Deliver
  <2>2. hubShown' \in [Serials -> Hub!Fields]
    BY <1>1, <1>11, <2>1 DEF Hub!Deliver, Hub!Event
  <2> QED
    BY <1>1, <1>2, <1>11, <2>1, <2>2 DEF Hub!Deliver, Hub!TypeOK, Hub!deviceVars
<1>12. Hub!TypeOK'
  BY <1>6, <1>7, <1>8, <1>9, <1>10, <1>11 DEF Hub!CallStep
<1> QED
  BY <1>3, <1>12 DEF HubInv

LEMMA HubInitially ==
  ASSUME Hub!HubAssumption, Hub!Init
  PROVE  HubInv
<1>1. Hub!NoPoller \in Hub!Poller /\ Hub!Idle \in Hub!Call /\ "None" \in Hub!Fields
  BY DEF Hub!Poller, Hub!Call, Hub!Fields
<1>2. sink \in Seq(Hub!Event) /\ Len(sink) = 0
  BY NoneQueued DEF Hub!Init
<1>3. Hub!TypeOK
  BY <1>1, <1>2 DEF Hub!TypeOK, Hub!Init, Hub!HubAssumption
<1> QED
  BY <1>3 DEF HubInv, SlotsOK, PollersOK, Hub!Init, Hub!Slot

LEMMA HubKept ==
  ASSUME Hub!HubAssumption, HubInv, Hub!Next
  PROVE  HubInv'
  BY SyncKeepsPollers, PollKeepsPollers, CallsKeepPollers DEF Hub!Next

(* A slot in use is one of the opened ones, and its poller is its own.     *)
LEMMA HubPolls ==
  ASSUME HubInv
  PROVE  OnePoller
<1>1. /\ SlotsOK /\ PollersOK /\ opened \in 0 .. MaxSlot
      /\ \A k \in Hub!Slot : poller[k] # Hub!NoPoller => poller[k].serial \in Serials
  BY PollerFields DEF HubInv, Hub!TypeOK
<1> SUFFICES ASSUME NEW k \in Hub!Slot
             PROVE  poller[k] # Hub!NoPoller /\ k \notin hubCancelled
                      <=> \E s \in Serials : /\ hubSlots[s] = k /\ poller[k].serial = s
                                             /\ poller[k].at # "Ended"
  BY DEF OnePoller, Hub!OnePoller
<1> QED
  BY <1>1 DEF SlotsOK, PollersOK, Hub!Slot

-----------------------------------------------------------------------------
(* The device catalog                                                       *)

(* One refresh at a time stands between the gate's "scanning" and "free".  *)
Leading == {"Scan", "Reconcile", "SyncOnline", "SendChanged", "SendOffline", "CloseBrowse",
            "SpawnStops", "Answer", "Clear"}

Gate ==
  /\ refresherPc \in [Refreshers -> Leading \cup {"Idle", "Gate", "Waiting"}]
  /\ \A c, d \in Refreshers :
       refresherPc[c] \in Leading /\ refresherPc[d] \in Leading => c = d
  /\ gate = "free" <=> \A c \in Refreshers : refresherPc[c] \notin Leading

Unsent(c) == refresherPc[c] \in {"SyncOnline", "SendChanged"}

NoneSent(q) == \A i \in 1 .. Len(q) : q[i].kind # "changed"

LastSent(q, table) ==
  \E i \in 1 .. Len(q) : /\ q[i] = Catalog!Changed(table)
                         /\ \A j \in i + 1 .. Len(q) : q[j].kind # "changed"

(* The table is with the leader that has yet to send it, in the channel    *)
(* with no other behind it, or shown.                                      *)
LastTable ==
  IF \E c \in Refreshers : Unsent(c)
  THEN \A c \in Refreshers : Unsent(c) => refresher[c].scanned = devices
  ELSE \/ shown = devices /\ NoneSent(events)
       \/ LastSent(events, devices)

CatalogInv == Catalog!TypeOK /\ Gate /\ LastTable

CatalogEvent ==
  {Catalog!Changed(t) : t \in Catalog!Table} \cup {Catalog!Offline(s) : s \in Serials}

InHand == [scanned : Catalog!Table, seen : [Serials -> 0 .. MaxAppear],
           offline : SUBSET Serials, untold : SUBSET Serials]

Joins == [left : SUBSET Serials, serial : Serials, step : 1 .. 2,
          seen : [Serials -> 0 .. MaxAppear]]

(* Sending appends an event of the right kind.                             *)
LEMMA SendTypes ==
  ASSUME Catalog!CatalogAssumption, Catalog!TypeOK, NEW event \in CatalogEvent,
         Catalog!Send(event)
  PROVE  /\ events' \in Seq(CatalogEvent) /\ Len(events') <= EventCap
         /\ Len(events') = Len(events) + 1 /\ events'[Len(events) + 1] = event
         /\ \A i \in 1 .. Len(events) : events'[i] = events[i]
  BY Appended DEF Catalog!CatalogAssumption, Catalog!TypeOK, Catalog!Send, CatalogEvent

LEMMA CatalogTypes ==
  ASSUME Catalog!CatalogAssumption, CatalogInv, Catalog!Next
  PROVE  Catalog!TypeOK'
<1> USE DEF Catalog!deviceVars, Catalog!sessionVars, Catalog!Table
<1>1. /\ MaxAppear \in Nat /\ EventCap \in Nat
      /\ attached \in Catalog!Table /\ appeared \in [Serials -> 0 .. MaxAppear]
      /\ devices \in Catalog!Table /\ shown \in Catalog!Table
      /\ session \in [Catalog!Kinds -> [Serials -> 0 .. MaxAppear]]
      /\ opening \subseteq Catalog!Kinds \X Serials /\ late \subseteq Catalog!Kinds \X Serials
      /\ opens \in 0 .. MaxOpens /\ MaxOpens \in Nat
      /\ stopping \subseteq Joins
      /\ events \in Seq(CatalogEvent) /\ Len(events) <= EventCap
      /\ refresher \in [Refreshers -> InHand]
      /\ Catalog!TypeOK
  BY DEF CatalogInv, Catalog!TypeOK, Catalog!CatalogAssumption, Joins, CatalogEvent, InHand
<1>2. ASSUME NEW s \in Serials, Catalog!Attach(s) \/ Catalog!Detach(s)
      PROVE  Catalog!TypeOK'
  <2>1. attached' \in Catalog!Table
    BY <1>1, <1>2 DEF Catalog!Attach, Catalog!Detach
  <2>2. appeared[s] < MaxAppear => appeared[s] + 1 \in 0 .. MaxAppear
    BY <1>1
  <2>3. appeared' \in [Serials -> 0 .. MaxAppear]
    BY <1>1, <1>2, <2>2 DEF Catalog!Attach, Catalog!Detach
  <2> QED
    BY <1>1, <1>2, <2>1, <2>3 DEF Catalog!Attach, Catalog!Detach, Catalog!TypeOK
<1>3. ASSUME NEW k \in Catalog!Kinds, NEW s \in Serials,
             \/ Catalog!CheckOnline(k, s) \/ Catalog!OpenSession(k, s)
             \/ Catalog!FailSession(k, s)
      PROVE  Catalog!TypeOK'
  <2>1. session' \in [Catalog!Kinds -> [Serials -> 0 .. MaxAppear]]
    <3>1. appeared[s] \in 0 .. MaxAppear /\ 0 \in 0 .. MaxAppear
      BY <1>1
    <3>2. \/ UNCHANGED session
          \/ \E n \in 0 .. MaxAppear : session' = [session EXCEPT ![k][s] = n]
      BY <1>3, <3>1 DEF Catalog!CheckOnline, Catalog!OpenSession, Catalog!FailSession
    <3>3. ASSUME NEW n \in 0 .. MaxAppear, session' = [session EXCEPT ![k][s] = n]
          PROVE  session' \in [Catalog!Kinds -> [Serials -> 0 .. MaxAppear]]
      <4>1. session[k] \in [Serials -> 0 .. MaxAppear]
        BY <1>1
      <4>2. [session[k] EXCEPT ![s] = n] \in [Serials -> 0 .. MaxAppear]
        BY <3>3, <4>1
      <4> QED
        BY <1>1, <3>3, <4>2
    <3> QED
      BY <1>1, <3>2, <3>3
  <2>2. <<k, s>> \in Catalog!Kinds \X Serials
    BY <1>3
  <2>3. /\ opening' \subseteq Catalog!Kinds \X Serials /\ late' \subseteq Catalog!Kinds \X Serials
        /\ opens' \in 0 .. MaxOpens
    BY <1>1, <1>3, <2>2 DEF Catalog!CheckOnline, Catalog!OpenSession, Catalog!FailSession
  <2> QED
    BY <1>1, <1>3, <2>1, <2>3
    DEF Catalog!CheckOnline, Catalog!OpenSession, Catalog!FailSession, Catalog!TypeOK
<1>4. ASSUME NEW c \in Refreshers, \/ Catalog!CallRefresh(c) \/ Catalog!JoinScan(c)
                                   \/ Catalog!Lead(c) \/ Catalog!Clear(c)
                                   \/ Catalog!SyncOnline(c)
      PROVE  Catalog!TypeOK'
  <2>1. refresher[c].scanned \in Catalog!Table
    BY <1>1 DEF InHand
  <2> QED
    BY <1>1, <1>4, <2>1
    DEF Catalog!CallRefresh, Catalog!JoinScan, Catalog!Lead, Catalog!Clear, Catalog!SyncOnline,
        Catalog!TypeOK
<1>5. ASSUME NEW c \in Refreshers, Catalog!Scan(c) \/ Catalog!Reconcile(c) \/ Catalog!Answer(c)
      PROVE  Catalog!TypeOK'
  <2>1. refresher[c] \in InHand /\ Catalog!Nothing \in InHand
    BY <1>1 DEF InHand, Catalog!Nothing, Catalog!NeverSeen
  <2>2. refresher' \in [Refreshers -> InHand]
    <3>1. CASE Catalog!Scan(c)
      <4>1. [refresher[c] EXCEPT !.scanned = attached, !.seen = appeared] \in InHand
        BY <1>1, <2>1 DEF InHand
      <4>2. \/ UNCHANGED refresher
            \/ refresher' = [refresher EXCEPT
                 ![c] = [refresher[c] EXCEPT !.scanned = attached, !.seen = appeared]]
        BY <3>1 DEF Catalog!Scan
      <4> QED
        BY <1>1, <4>1, <4>2
    <3>2. CASE Catalog!Reconcile(c)
      BY <1>1, <2>1, <3>2 DEF Catalog!Reconcile, Catalog!went_offline, InHand
    <3>3. CASE Catalog!Answer(c)
      BY <1>1, <2>1, <3>3 DEF Catalog!Answer
    <3> QED
      BY <1>5, <3>1, <3>2, <3>3
  <2>3. refresher[c].scanned \in Catalog!Table
    BY <2>1 DEF InHand
  <2>4. late' \subseteq Catalog!Kinds \X Serials
    BY <1>1, <1>5 DEF Catalog!Scan, Catalog!Reconcile, Catalog!Answer
  <2> QED
    BY <1>1, <1>5, <2>2, <2>3, <2>4
    DEF Catalog!Scan, Catalog!Reconcile, Catalog!Answer, Catalog!TypeOK, InHand
<1>6. ASSUME NEW c \in Refreshers, Catalog!SendChanged(c)
      PROVE  Catalog!TypeOK'
  <2>1. Catalog!Changed(refresher[c].scanned) \in CatalogEvent
    BY <1>1 DEF CatalogEvent, InHand
  <2>2. events' \in Seq(CatalogEvent) /\ Len(events') <= EventCap
    BY <1>1, <1>6, <2>1, SendTypes DEF Catalog!SendChanged
  <2> QED
    BY <1>1, <1>6, <2>2 DEF Catalog!SendChanged, Catalog!TypeOK, CatalogEvent
<1>7. ASSUME NEW c \in Refreshers, Catalog!SendOffline(c)
      PROVE  Catalog!TypeOK'
  <2>1. ASSUME NEW s \in refresher[c].untold, Catalog!Send(Catalog!Offline(s)),
               refresher' = [refresher EXCEPT ![c].untold = @ \ {s}]
        PROVE  /\ events' \in Seq(CatalogEvent) /\ Len(events') <= EventCap
               /\ refresher' \in [Refreshers -> InHand]
    <3>1. refresher[c] \in InHand /\ Catalog!Offline(s) \in CatalogEvent
      BY <1>1 DEF InHand, CatalogEvent
    <3>2. refresher' \in [Refreshers -> InHand]
      BY <1>1, <2>1, <3>1 DEF InHand
    <3> QED
      BY <1>1, <2>1, <3>1, <3>2, SendTypes
  <2>2. events' \in Seq(CatalogEvent) /\ Len(events') <= EventCap
    BY <1>1, <1>7, <2>1 DEF Catalog!SendOffline
  <2>3. refresher' \in [Refreshers -> InHand]
    BY <1>1, <1>7, <2>1 DEF Catalog!SendOffline
  <2> QED
    BY <1>1, <1>7, <2>2, <2>3 DEF Catalog!SendOffline, Catalog!TypeOK, CatalogEvent, InHand
<1>8. ASSUME NEW c \in Refreshers, Catalog!CloseBrowse(c)
      PROVE  Catalog!TypeOK'
  <2>1. session' \in [Catalog!Kinds -> [Serials -> 0 .. MaxAppear]]
    BY <1>1, <1>8 DEF Catalog!CloseBrowse, Catalog!Kinds
  <2> QED
    BY <1>1, <1>8, <2>1 DEF Catalog!CloseBrowse, Catalog!TypeOK
<1>9. ASSUME NEW c \in Refreshers, Catalog!SpawnStops(c)
      PROVE  Catalog!TypeOK'
  <2>1. stopping' \subseteq Joins
    BY <1>1, <1>9 DEF Catalog!SpawnStops, Catalog!Join, Joins, InHand
  <2> QED
    BY <1>1, <1>9, <2>1 DEF Catalog!SpawnStops, Catalog!TypeOK, Joins
<1>10. ASSUME NEW d \in stopping, Catalog!StopSession(d)
       PROVE  Catalog!TypeOK'
  <2>1. /\ d \in Joins /\ (d.step < 2 => d.step + 1 \in 1 .. 2)
        /\ Catalog!BackgroundKinds[d.step] \in Catalog!Kinds
        /\ Len(Catalog!BackgroundKinds) = 2
    BY <1>1 DEF Joins, Catalog!BackgroundKinds, Catalog!Kinds
  <2>2. session' \in [Catalog!Kinds -> [Serials -> 0 .. MaxAppear]]
    BY <1>1, <1>10, <2>1 DEF Catalog!StopSession, Joins
  <2>3. Catalog!NextStop(d) \subseteq Joins
    BY <2>1 DEF Catalog!NextStop, Catalog!Join, Joins
  <2>4. stopping' \subseteq Joins
    BY <1>1, <1>10, <2>3 DEF Catalog!StopSession
  <2> QED
    BY <1>1, <1>10, <2>2, <2>4 DEF Catalog!StopSession, Catalog!TypeOK, Joins
<1>11. ASSUME Catalog!Deliver
       PROVE  Catalog!TypeOK'
  <2>1. /\ Head(events) \in CatalogEvent /\ Tail(events) \in Seq(CatalogEvent)
        /\ Len(Tail(events)) <= EventCap
    BY <1>1, <1>11, Received DEF Catalog!Deliver
  <2>2. shown' \in Catalog!Table
    BY <1>1, <1>11, <2>1 DEF Catalog!Deliver, CatalogEvent, Catalog!Changed, Catalog!Offline
  <2> QED
    BY <1>1, <1>11, <2>1, <2>2 DEF Catalog!Deliver, Catalog!TypeOK, CatalogEvent
<1> QED
  BY <1>2, <1>3, <1>4, <1>5, <1>6, <1>7, <1>8, <1>9, <1>10, <1>11
  DEF Catalog!Next, Catalog!RefreshStep

(* A leader moves on among the leading places, and the others stay.        *)
LEMMA GateKept ==
  ASSUME CatalogInv, Catalog!Next
  PROVE  Gate'
<1>1. Gate
  BY DEF CatalogInv
<1>2. CASE UNCHANGED <<gate, refresherPc>>
  BY <1>1, <1>2 DEF Gate
<1>3. ASSUME NEW c \in Refreshers, NEW from, NEW to, Catalog!At(c, from, to), UNCHANGED gate,
             from \in Leading, to \in Leading
      PROVE  Gate'
  BY <1>1, <1>3 DEF Gate, Catalog!At
<1>4. ASSUME NEW c \in Refreshers, NEW from, NEW to, Catalog!At(c, from, to), UNCHANGED gate,
             from \in {"Idle", "Gate"}, to \in {"Idle", "Gate", "Waiting"}
      PROVE  Gate'
  BY <1>1, <1>4 DEF Gate, Catalog!At, Leading
<1>5. ASSUME NEW c \in Refreshers, Catalog!Lead(c)
      PROVE  Gate'
  BY <1>1, <1>5 DEF Gate, Leading, Catalog!Lead, Catalog!At
<1>6. ASSUME NEW c \in Refreshers, Catalog!Answer(c)
      PROVE  Gate'
  BY <1>1, <1>6 DEF Gate, Leading, Catalog!Answer
<1>7. ASSUME NEW c \in Refreshers, Catalog!Clear(c)
      PROVE  Gate'
  BY <1>1, <1>7 DEF Gate, Leading, Catalog!Clear, Catalog!At
<1>8. ASSUME NEW c \in Refreshers, Catalog!CallRefresh(c) \/ Catalog!JoinScan(c)
      PROVE  Gate'
  <2>1. CASE Catalog!CallRefresh(c)
    BY <1>4, <2>1 DEF Catalog!CallRefresh
  <2>2. CASE Catalog!JoinScan(c)
    BY <1>4, <2>2 DEF Catalog!JoinScan
  <2> QED
    BY <1>8, <2>1, <2>2
<1>9. ASSUME NEW c \in Refreshers,
             \/ Catalog!Scan(c) \/ Catalog!Reconcile(c) \/ Catalog!SyncOnline(c)
             \/ Catalog!SendChanged(c) \/ Catalog!CloseBrowse(c) \/ Catalog!SpawnStops(c)
      PROVE  Gate'
  <2>1. \E from, to \in Leading : Catalog!At(c, from, to)
    BY <1>9
    DEF Catalog!Scan, Catalog!Reconcile, Catalog!SyncOnline, Catalog!SendChanged,
        Catalog!CloseBrowse, Catalog!SpawnStops, Leading
  <2>2. UNCHANGED gate
    BY <1>9
    DEF Catalog!Scan, Catalog!Reconcile, Catalog!SyncOnline, Catalog!SendChanged,
        Catalog!CloseBrowse, Catalog!SpawnStops
  <2> QED
    BY <1>3, <2>1, <2>2
<1>10. ASSUME NEW c \in Refreshers, Catalog!SendOffline(c)
       PROVE  Gate'
  <2>1. /\ UNCHANGED gate
        /\ \/ UNCHANGED refresherPc
           \/ \E to \in Leading : Catalog!At(c, "SendOffline", to)
    BY <1>10 DEF Catalog!SendOffline, Leading
  <2>2. "SendOffline" \in Leading
    BY DEF Leading
  <2> QED
    BY <1>2, <1>3, <2>1, <2>2
<1>11. ASSUME \/ \E s \in Serials : Catalog!Attach(s) \/ Catalog!Detach(s)
              \/ \E k \in Catalog!Kinds, s \in Serials :
                   \/ Catalog!CheckOnline(k, s) \/ Catalog!OpenSession(k, s)
                   \/ Catalog!FailSession(k, s)
              \/ \E d \in stopping : Catalog!StopSession(d)
              \/ Catalog!Deliver
       PROVE  Gate'
  BY <1>2, <1>11
  DEF Catalog!Attach, Catalog!Detach, Catalog!CheckOnline, Catalog!OpenSession,
      Catalog!FailSession, Catalog!StopSession, Catalog!Deliver
<1> QED
  BY <1>5, <1>6, <1>7, <1>8, <1>9, <1>10, <1>11 DEF Catalog!Next, Catalog!RefreshStep

LEMMA LastTableKept ==
  ASSUME Catalog!CatalogAssumption, CatalogInv, Catalog!Next
  PROVE  LastTable'
<1>1. /\ Catalog!TypeOK /\ Gate /\ LastTable
      /\ events \in Seq(CatalogEvent)
      /\ refresher \in [Refreshers -> InHand]
      /\ refresherPc \in [Refreshers -> Leading \cup {"Idle", "Gate", "Waiting"}]
      /\ devices \in Catalog!Table
  BY DEF CatalogInv, Catalog!TypeOK, CatalogEvent, InHand, Gate
(* Steps that leave the table, the events and who has it in hand alone.    *)
<1>2. ASSUME UNCHANGED <<devices, events, shown>>,
             \A c \in Refreshers : Unsent(c)' <=> Unsent(c),
             \A c \in Refreshers : Unsent(c) => refresher'[c].scanned = refresher[c].scanned
      PROVE  LastTable'
  BY <1>1, <1>2 DEF LastTable, NoneSent, LastSent
<1>3. ASSUME \/ \E s \in Serials : Catalog!Attach(s) \/ Catalog!Detach(s)
             \/ \E k \in Catalog!Kinds, s \in Serials :
                  \/ Catalog!CheckOnline(k, s) \/ Catalog!OpenSession(k, s)
                  \/ Catalog!FailSession(k, s)
      PROVE  LastTable'
  BY <1>2, <1>3
  DEF Catalog!Attach, Catalog!Detach, Catalog!CheckOnline, Catalog!OpenSession,
      Catalog!FailSession, Unsent
<1>4. ASSUME NEW d \in stopping, Catalog!StopSession(d)
      PROVE  LastTable'
  BY <1>2, <1>4 DEF Catalog!StopSession, Unsent
<1>5. ASSUME NEW c \in Refreshers,
             \/ Catalog!CallRefresh(c) \/ Catalog!JoinScan(c) \/ Catalog!Lead(c)
             \/ Catalog!Clear(c) \/ Catalog!CloseBrowse(c) \/ Catalog!SpawnStops(c)
             \/ Catalog!SyncOnline(c)
      PROVE  LastTable'
  <2>1. /\ UNCHANGED <<devices, events, shown, refresher>>
        /\ \E from, to : /\ Catalog!At(c, from, to)
                         /\ \/ from = "SyncOnline" /\ to = "SendChanged"
                            \/ /\ from \notin {"SyncOnline", "SendChanged"}
                               /\ to \notin {"SyncOnline", "SendChanged"}
    BY <1>5
    DEF Catalog!CallRefresh, Catalog!JoinScan, Catalog!Lead, Catalog!Clear,
        Catalog!CloseBrowse, Catalog!SpawnStops, Catalog!SyncOnline, Catalog!deviceVars
  <2>2. \A d \in Refreshers : Unsent(d)' <=> Unsent(d)
    BY <1>1, <2>1 DEF Catalog!At, Unsent
  <2> QED
    BY <1>2, <2>1, <2>2
<1>6. ASSUME NEW c \in Refreshers, Catalog!Scan(c)
      PROVE  LastTable'
  <2>1. /\ UNCHANGED <<devices, events, shown>>
        /\ refresherPc[c] = "Scan"
        /\ \E to \in {"Reconcile", "Answer"} : refresherPc' = [refresherPc EXCEPT ![c] = to]
        /\ \A d \in Refreshers : d # c => refresher'[d] = refresher[d]
    BY <1>1, <1>6 DEF Catalog!Scan, Catalog!At
  <2>2. \A d \in Refreshers : Unsent(d)' <=> Unsent(d)
    BY <1>1, <2>1 DEF Unsent
  <2> QED
    BY <1>2, <2>1, <2>2 DEF Unsent
<1>7. ASSUME NEW c \in Refreshers, Catalog!Answer(c)
      PROVE  LastTable'
  <2>1. /\ UNCHANGED <<devices, events, shown>>
        /\ refresherPc[c] = "Answer"
        /\ \A d \in Refreshers : d # c => refresher'[d] = refresher[d]
    BY <1>1, <1>7 DEF Catalog!Answer
  <2>2. \A d \in Refreshers : Unsent(d)' <=> Unsent(d)
    BY <1>1, <1>7, <2>1 DEF Unsent, Catalog!Answer
  <2> QED
    BY <1>2, <2>1, <2>2 DEF Unsent
<1>8. ASSUME NEW c \in Refreshers, Catalog!Reconcile(c)
      PROVE  LastTable'
  <2>1. refresherPc[c] = "Reconcile" /\ refresherPc' = [refresherPc EXCEPT ![c] = "SyncOnline"]
    BY <1>8 DEF Catalog!Reconcile, Catalog!At
  <2>2. \A d \in Refreshers : Unsent(d)' <=> d = c
    BY <1>1, <2>1 DEF Gate, Leading, Unsent
  <2>3. devices' = refresher'[c].scanned
    BY <1>1, <1>8 DEF Catalog!Reconcile, InHand
  <2> QED
    BY <2>2, <2>3 DEF LastTable
<1>9. ASSUME NEW c \in Refreshers, Catalog!SendChanged(c)
      PROVE  LastTable'
  <2>1. /\ refresherPc[c] = "SendChanged"
        /\ refresherPc' = [refresherPc EXCEPT ![c] = "SendOffline"]
        /\ UNCHANGED <<devices, refresher, shown>>
        /\ Catalog!Send(Catalog!Changed(refresher[c].scanned))
    BY <1>9 DEF Catalog!SendChanged, Catalog!At
  <2>2. refresher[c].scanned = devices
    BY <1>1, <2>1 DEF LastTable, Unsent
  <2>3. \A d \in Refreshers : ~ Unsent(d)'
    BY <1>1, <2>1 DEF Gate, Leading, Unsent
  <2>4. Catalog!Changed(devices) \in CatalogEvent
    BY <1>1 DEF CatalogEvent
  <2>5. LastSent(events', devices)
    <3>1. /\ events' \in Seq(CatalogEvent) /\ Len(events') = Len(events) + 1
          /\ events'[Len(events) + 1] = Catalog!Changed(devices)
      BY <1>1, <2>1, <2>2, <2>4, SendTypes
    <3> QED
      BY <1>1, <3>1 DEF LastSent
  <2> QED
    BY <2>1, <2>3, <2>5 DEF LastTable
<1>10. ASSUME NEW c \in Refreshers, Catalog!SendOffline(c)
       PROVE  LastTable'
  <2>1. /\ UNCHANGED <<devices, shown>>
        /\ refresherPc[c] = "SendOffline"
        /\ \A d \in Refreshers : d # c => UNCHANGED <<refresher[d], refresherPc[d]>>
        /\ refresherPc'[c] \in {"SendOffline", "Answer", "CloseBrowse"}
    BY <1>1, <1>10 DEF Catalog!SendOffline, Catalog!At
  <2>2. \A d \in Refreshers : ~ Unsent(d) /\ ~ Unsent(d)'
    BY <1>1, <2>1 DEF Gate, Leading, Unsent
  <2>3. CASE UNCHANGED events
    BY <1>1, <2>1, <2>2, <2>3 DEF LastTable, NoneSent, LastSent
  <2>4. ASSUME NEW s \in refresher[c].untold, Catalog!Send(Catalog!Offline(s))
        PROVE  LastTable'
    <3>1. Catalog!Offline(s) \in CatalogEvent /\ Catalog!Offline(s).kind # "changed"
      BY <1>1 DEF CatalogEvent, InHand, Catalog!Offline
    <3>2. /\ Len(events') = Len(events) + 1 /\ events' \in Seq(CatalogEvent)
          /\ events'[Len(events) + 1].kind # "changed"
          /\ \A i \in 1 .. Len(events) : events'[i] = events[i]
      BY <1>1, <2>4, <3>1, SendTypes
    <3>3. NoneSent(events) => NoneSent(events')
      BY <1>1, <3>2 DEF NoneSent
    <3>4. LastSent(events, devices) => LastSent(events', devices)
      <4> SUFFICES ASSUME NEW i \in 1 .. Len(events), events[i] = Catalog!Changed(devices),
                          \A j \in i + 1 .. Len(events) : events[j].kind # "changed"
                   PROVE  LastSent(events', devices)
        BY DEF LastSent
      <4>1. i \in 1 .. Len(events') /\ events'[i] = Catalog!Changed(devices)
        BY <1>1, <3>2
      <4>2. \A j \in i + 1 .. Len(events') : events'[j].kind # "changed"
        <5>1. \A m \in Nat : \A j \in i + 1 .. m + 1 : j \in i + 1 .. m \/ j = m + 1
          OBVIOUS
        <5>2. \A j \in i + 1 .. Len(events) : events'[j] = events[j]
          BY <1>1, <3>2
        <5> QED
          BY <1>1, <3>2, <5>1, <5>2
      <4> QED
        BY <4>1, <4>2 DEF LastSent
    <3> QED
      BY <1>1, <2>1, <2>2, <3>3, <3>4 DEF LastTable
  <2> QED
    BY <1>10, <2>3, <2>4 DEF Catalog!SendOffline
<1>11. ASSUME Catalog!Deliver
       PROVE  LastTable'
  <2>1. /\ UNCHANGED <<devices, refresher, refresherPc>>
        /\ Head(events) = events[1] /\ Head(events) \in CatalogEvent /\ Len(events) \in Nat
        /\ Len(events) # 0 /\ Len(events') = Len(events) - 1
        /\ \A i \in 1 .. Len(events') : events'[i] = events[i + 1]
        /\ shown' = IF Head(events).kind = "changed" THEN Head(events).table ELSE shown
    BY <1>1, <1>11, Received DEF Catalog!Deliver
  <2>2. CASE \E c \in Refreshers : Unsent(c)
    BY <1>1, <2>1, <2>2 DEF LastTable, Unsent
  <2>3. CASE (\A c \in Refreshers : ~ Unsent(c)) /\ shown = devices /\ NoneSent(events)
    <3>1. shown' = devices /\ NoneSent(events')
      BY <2>1, <2>3 DEF NoneSent
    <3> QED
      BY <2>1, <2>3, <3>1 DEF LastTable, Unsent
  <2>4. CASE (\A c \in Refreshers : ~ Unsent(c)) /\ LastSent(events, devices)
    <3>1. PICK i \in 1 .. Len(events) :
            /\ events[i] = Catalog!Changed(devices)
            /\ \A j \in i + 1 .. Len(events) : events[j].kind # "changed"
      BY <2>4 DEF LastSent
    <3>2. CASE i = 1
      <4>1. shown' = devices
        BY <2>1, <3>1, <3>2 DEF Catalog!Changed
      <4>2. NoneSent(events')
        BY <2>1, <3>1, <3>2 DEF NoneSent
      <4> QED
        BY <2>1, <2>4, <4>1, <4>2 DEF LastTable, Unsent
    <3>3. CASE i # 1
      <4>1. i - 1 \in 1 .. Len(events') /\ events'[i - 1] = Catalog!Changed(devices)
        BY <2>1, <3>1, <3>3
      <4>2. \A j \in (i - 1) + 1 .. Len(events') : events'[j].kind # "changed"
        BY <2>1, <3>1, <3>3
      <4>3. LastSent(events', devices)
        BY <4>1, <4>2 DEF LastSent
      <4> QED
        BY <2>1, <2>4, <4>3 DEF LastTable, Unsent
    <3> QED
      BY <3>2, <3>3
  <2> QED
    BY <1>1, <2>2, <2>3, <2>4 DEF LastTable
<1> QED
  BY <1>3, <1>4, <1>5, <1>6, <1>7, <1>8, <1>9, <1>10, <1>11
  DEF Catalog!Next, Catalog!RefreshStep

LEMMA CatalogInitially ==
  ASSUME Catalog!CatalogAssumption, Catalog!Init
  PROVE  CatalogInv
<1>1. events \in Seq(CatalogEvent) /\ Len(events) = 0
  BY NoneQueued DEF Catalog!Init
<1>2. Catalog!TypeOK
  BY <1>1
  DEF Catalog!TypeOK, Catalog!Init, Catalog!CatalogAssumption, Catalog!Table, Catalog!Nothing,
      Catalog!NeverSeen, CatalogEvent
<1>3. Gate /\ LastTable
  BY <1>1 DEF Gate, LastTable, NoneSent, Unsent, Leading, Catalog!Init
<1> QED
  BY <1>2, <1>3 DEF CatalogInv

LEMMA CatalogKept ==
  ASSUME Catalog!CatalogAssumption, CatalogInv, Catalog!Next
  PROVE  CatalogInv'
  BY CatalogTypes, GateKept, LastTableKept DEF CatalogInv

(* With an empty channel and nobody about to send, the table is shown.     *)
LEMMA CatalogShows ==
  ASSUME CatalogInv
  PROVE  CatalogIsShown
<1>1. events = <<>> => Len(events) = 0
  OBVIOUS
<1> QED
  BY <1>1 DEF CatalogInv, LastTable, LastSent, Unsent, CatalogIsShown, Catalog!CatalogIsShown

-----------------------------------------------------------------------------
(* The browse sessions                                                      *)

Opening == {"Open", "Publish", "CloseAbandoned"}
AttachPcs == Opening \cup {"PeekAttach", "RecheckAttach", "WaitAttach", "Begin",
                           "RemoveAbandoned"}
WaitingPcs == {"PeekList", "RecheckList", "WaitList"}
ListPcs == WaitingPcs \cup {"Oneshot", "RecheckLive", "TakeWorker", "OpenWorker", "Exec",
                            "Restore", "LookUp", "Finish"}
Busy == Opening \cup {"CloseSlot"}

CallRecords == [op : Browse!Ops \cup {"none"}, serial : Serials \cup {"none"},
                generation : 0 .. MaxGen, arc : 0 .. MaxGen,
                shell : -1 .. MaxTool, attempt : 0 .. Browse!EXEC_ATTEMPTS]

(* What a call holds where it stands.                                      *)
Fits(p, r) ==
  /\ p \in AttachPcs => r.op = "attach" /\ r.serial \in Serials
  /\ p \in Opening => r.generation # 0
  /\ p \in ListPcs => r.op = "list" /\ r.serial \in Serials
  /\ p \in WaitingPcs => r.attempt = 0
  /\ p = "TakeWorker" => r.attempt < Browse!EXEC_ATTEMPTS
  /\ p \in {"RemoveSlot", "CloseSlot"} => r.op \in {"release", "detach"} /\ r.serial \in Serials
  /\ p = "CloseSlot" /\ r.op = "release" => r.arc = r.generation

CallsFit == \A c \in Browse!Callers : Fits(pc[c], call[c])

(* Generations are handed out in order, and the one an attach is opening   *)
(* is in no other device's slot.                                           *)
MapOK ==
  /\ \A s \in Serials : sessions[s] <= generation
  /\ \A g \in Browse!Gen : g > generation => slots[g] = Browse!Unborn
  /\ \A c \in Browse!Callers : pc[c] \in Opening =>
       /\ call[c].generation <= generation
       /\ \A s \in Serials : sessions[s] = call[c].generation => s = call[c].serial
  /\ \A c \in Browse!Callers : pc[c] = "CloseSlot" => call[c].arc <= generation

Owned == \A g \in Browse!Gen : Browse!HasOwner(g)

BrowseInv == Browse!TypeOK /\ CallsFit /\ MapOK /\ Owned

(* What SessionsKeepOwners and ListIsCurrent say of one step.              *)
Lawful ==
  /\ \A g \in Browse!Gen :
       /\ Browse!IsLive(g) /\ slots'[g] = Browse!Closed =>
            \E c \in Browse!Callers : Browse!EndedBy(c, g)
       /\ slots[g] = Browse!Closed => slots'[g] = Browse!Closed
  /\ \A c \in Browse!Callers :
       call[c].op = "list" /\ result[c] = 0 /\ result'[c] # 0 => Browse!IsLive(result'[c])

(* Another call stays where it is or is woken.                             *)
Moved(c) ==
  \A d \in Browse!Callers : d # c =>
    /\ call'[d] = call[d]
    /\ \/ pc'[d] = pc[d]
       \/ pc[d] = "WaitAttach" /\ pc'[d] = "PeekAttach"
       \/ pc[d] = "WaitList" /\ pc'[d] = "PeekList"

LEMMA BrowseFields ==
  ASSUME Browse!TypeOK
  PROVE  /\ slots \in [Browse!Gen -> Browse!Slots]
         /\ sessions \in [Serials -> 0 .. MaxGen]
         /\ generation \in 0 .. MaxGen
         /\ cancelled \subseteq Browse!Callers
         /\ tool \in 1 .. MaxTool
         /\ call \in [Browse!Callers -> CallRecords]
         /\ pc \in [Browse!Callers -> Browse!Pcs]
         /\ result \in [Browse!Callers -> 0 .. MaxGen]
  BY DEF Browse!TypeOK, CallRecords

(* Going somewhere, with or without a notify, is this and no more.         *)
LEMMA CallMoves ==
  ASSUME BrowseInv, NEW c \in Browse!Callers, NEW p \in Browse!Pcs, NEW r \in CallRecords,
         Fits(p, r), Browse!Goto(c, p) \/ Browse!GotoAndNotify(c, p),
         call' = [call EXCEPT ![c] = r]
  PROVE  /\ pc' \in [Browse!Callers -> Browse!Pcs] /\ call' \in [Browse!Callers -> CallRecords]
         /\ pc'[c] = p /\ call'[c] = r /\ Moved(c) /\ CallsFit'
<1>1. /\ call \in [Browse!Callers -> CallRecords] /\ pc \in [Browse!Callers -> Browse!Pcs]
      /\ CallsFit
  BY BrowseFields DEF BrowseInv
<1>2. "PeekAttach" \in Browse!Pcs /\ "PeekList" \in Browse!Pcs
  BY DEF Browse!Pcs, Browse!UndecidedPcs
<1>3. pc' \in [Browse!Callers -> Browse!Pcs] /\ call' \in [Browse!Callers -> CallRecords]
  BY <1>1, <1>2 DEF Browse!Goto, Browse!GotoAndNotify
<1>4. pc'[c] = p /\ call'[c] = r /\ Moved(c)
  BY <1>1 DEF Browse!Goto, Browse!GotoAndNotify, Moved
<1>5. ASSUME NEW d \in Browse!Callers, d # c
      PROVE  Fits(pc'[d], call'[d])
  BY <1>1, <1>4, <1>5 DEF Moved, CallsFit, Fits, AttachPcs, WaitingPcs, ListPcs, Opening
<1>6. CallsFit'
  BY <1>4, <1>5 DEF CallsFit
<1> QED
  BY <1>3, <1>4, <1>6

(* Most steps leave the map alone, and a slot as Live as it was.           *)
Calm(c) ==
  /\ pc[c] \notin Busy
  /\ UNCHANGED <<sessions, generation>>
  /\ cancelled' \subseteq Browse!Callers /\ tool' \in 1 .. MaxTool
  /\ slots' \in [Browse!Gen -> Browse!Slots]
  /\ \A g \in Browse!Gen : \/ slots'[g] = slots[g]
                           \/ slots[g].state = "Live" /\ slots'[g].state = "Live"

Goes(c, p, r, value) ==
  /\ p \in Browse!Pcs \ Busy /\ r \in CallRecords /\ Fits(p, r)
  /\ Browse!Goto(c, p) \/ Browse!GotoAndNotify(c, p)
  /\ call' = [call EXCEPT ![c] = r]
  /\ value \in 0 .. MaxGen /\ result' = [result EXCEPT ![c] = value]
  /\ call[c].op = "list" /\ result[c] = 0 /\ value # 0 => Browse!IsLive(value)

LEMMA CalmKeeps ==
  ASSUME BrowseInv, NEW c \in Browse!Callers, NEW p, NEW r, NEW value, Calm(c), Goes(c, p, r, value)
  PROVE  BrowseInv' /\ Lawful
<1>1. /\ Browse!TypeOK /\ MapOK /\ Owned
      /\ sessions \in [Serials -> 0 .. MaxGen] /\ generation \in 0 .. MaxGen
      /\ result \in [Browse!Callers -> 0 .. MaxGen]
  BY BrowseFields DEF BrowseInv
<1>2. /\ pc' \in [Browse!Callers -> Browse!Pcs] /\ call' \in [Browse!Callers -> CallRecords]
      /\ pc'[c] = p /\ call'[c] = r /\ Moved(c) /\ CallsFit'
  BY CallMoves DEF Goes
<1>3. UNCHANGED <<sessions, generation>>
  BY DEF Calm
<1>4. \A d \in Browse!Callers : (pc[d] \in Busy \/ pc'[d] \in Busy) =>
        pc'[d] = pc[d] /\ call'[d] = call[d]
  BY <1>2 DEF Calm, Goes, Moved, Busy, Opening
<1>5. \A g \in Browse!Gen : \/ slots'[g] = slots[g]
                            \/ slots[g].state = "Live" /\ slots'[g].state = "Live"
  BY DEF Calm
<1>6. Browse!TypeOK'
  BY <1>1, <1>2, <1>3 DEF Calm, Goes, Browse!TypeOK, CallRecords
<1>7. MapOK'
  <2>1. \A g \in Browse!Gen : slots[g] = Browse!Unborn => slots'[g] = Browse!Unborn
    BY <1>5 DEF Browse!Unborn
  <2> QED
    BY <1>1, <1>3, <1>4, <2>1 DEF MapOK, Busy
<1>8. Owned'
  BY <1>1, <1>3, <1>4, <1>5
  DEF Owned, Browse!HasOwner, Browse!InHand, Browse!IsStarting, Browse!IsLive, Busy, Opening
<1>9. Lawful
  <2>1. \A g \in Browse!Gen : /\ slots[g] = Browse!Closed => slots'[g] = Browse!Closed
                              /\ ~ (Browse!IsLive(g) /\ slots'[g] = Browse!Closed)
    BY <1>5 DEF Browse!Closed, Browse!IsLive
  <2>2. \A d \in Browse!Callers :
          call[d].op = "list" /\ result[d] = 0 /\ result'[d] # 0 => Browse!IsLive(result'[d])
    BY <1>1 DEF Goes
  <2> QED
    BY <2>1, <2>2 DEF Lawful
<1> QED
  BY <1>2, <1>6, <1>7, <1>8, <1>9 DEF BrowseInv

(* The three ways a calm step leaves the call: over, as it was, changed.   *)
LEMMA CalmEnds ==
  ASSUME BrowseInv, NEW c \in Browse!Callers, NEW value \in 0 .. MaxGen, Calm(c),
         Browse!Goto(c, "Idle") \/ Browse!GotoAndNotify(c, "Idle"), Browse!Done(c, value),
         call[c].op = "list" /\ value # 0 => Browse!IsLive(value)
  PROVE  BrowseInv' /\ Lawful
<1>1. Browse!NoCall \in CallRecords /\ "Idle" \in Browse!Pcs \ Busy
  <2>1. MaxTool \in Nat /\ MaxGen \in Nat
    BY DeviceAssumptions DEF Browse!BrowseAssumption
  <2> QED
    BY <2>1
    DEF Browse!NoCall, Browse!NewCall, CallRecords, Browse!NoShell, Browse!EXEC_ATTEMPTS,
        Browse!Pcs, Busy, Opening
<1>2. Fits("Idle", Browse!NoCall)
  BY DEF Fits, AttachPcs, Opening, ListPcs, WaitingPcs
<1>3. Goes(c, "Idle", Browse!NoCall, value)
  BY <1>1, <1>2 DEF Goes, Browse!Done
<1> QED
  BY <1>3, CalmKeeps

LEMMA CalmGoes ==
  ASSUME BrowseInv, NEW c \in Browse!Callers, NEW p \in Browse!Pcs \ Busy,
         NEW r \in CallRecords, Calm(c), Fits(p, r),
         Browse!Goto(c, p) \/ Browse!GotoAndNotify(c, p),
         call' = [call EXCEPT ![c] = r], UNCHANGED result
  PROVE  BrowseInv' /\ Lawful
<1>1. result \in [Browse!Callers -> 0 .. MaxGen]
  BY BrowseFields DEF BrowseInv
<1>2. Goes(c, p, r, result[c])
  BY <1>1 DEF Goes
<1> QED
  BY <1>2, CalmKeeps

LEMMA CalmStays ==
  ASSUME BrowseInv, NEW c \in Browse!Callers, NEW p \in Browse!Pcs \ Busy, Calm(c),
         Fits(p, call[c]), Browse!Goto(c, p) \/ Browse!GotoAndNotify(c, p),
         UNCHANGED <<call, result>>
  PROVE  BrowseInv' /\ Lawful
<1>1. call \in [Browse!Callers -> CallRecords]
  BY BrowseFields DEF BrowseInv
<1>2. call[c] \in CallRecords /\ call' = [call EXCEPT ![c] = call[c]]
  BY <1>1
<1> QED
  BY <1>2, CalmGoes

(* A step that changes no slot at all is a calm one.                       *)
LEMMA Quiet ==
  ASSUME BrowseInv, NEW c \in Browse!Callers, pc[c] \notin Busy,
         UNCHANGED <<slots, sessions, generation>>,
         UNCHANGED cancelled \/ Browse!replace, UNCHANGED tool
  PROVE  Calm(c)
  BY BrowseFields DEF BrowseInv, Calm, Browse!replace

LEMMA CallsStart ==
  ASSUME BrowseInv, NEW c \in Browse!Callers, Browse!Call(c)
  PROVE  BrowseInv' /\ Lawful
<1> USE DEF Browse!At, Browse!slotVars
<1>1. /\ MaxTool \in Nat /\ MaxGen \in Nat
      /\ generation \in 0 .. MaxGen /\ tool \in 1 .. MaxTool /\ cancelled \subseteq Browse!Callers
      /\ slots \in [Browse!Gen -> Browse!Slots]
      /\ result \in [Browse!Callers -> 0 .. MaxGen]
  BY DeviceAssumptions, BrowseFields DEF Browse!BrowseAssumption, BrowseInv
<1>2. pc[c] = "Idle" /\ pc[c] \notin Busy
  BY DEF Browse!Call, Browse!CallAttach, Browse!CallList, Browse!CallRelease, Browse!WentOffline,
         Browse!CallReset, Busy, Opening
<1>3. {"PeekAttach", "PeekList", "RemoveSlot", "Replace"} \subseteq Browse!Pcs \ Busy
  BY DEF Browse!Pcs, Browse!UndecidedPcs, Busy, Opening
<1>4. \A op \in Browse!Ops, s \in Serials \cup {"none"}, g \in 0 .. MaxGen :
        Browse!NewCall(op, s, g) \in CallRecords
  BY <1>1 DEF CallRecords, Browse!EXEC_ATTEMPTS, Browse!NewCall, Browse!NoShell
<1>5. ASSUME NEW s \in Serials, Browse!CallAttach(c, s)
      PROVE  BrowseInv' /\ Lawful
  <2> DEFINE r == Browse!NewCall("attach", s, 0)
  <2>1. /\ call' = [call EXCEPT ![c] = r] /\ result' = [result EXCEPT ![c] = 0]
        /\ Browse!Goto(c, "PeekAttach")
        /\ UNCHANGED <<slots, sessions, generation, cancelled, tool>>
    BY <1>5 DEF Browse!CallAttach
  <2>2. r \in CallRecords /\ Fits("PeekAttach", r)
    BY <1>1, <1>4 DEF Fits, AttachPcs, Opening, ListPcs, WaitingPcs, Browse!Ops, Browse!NewCall
  <2>3. Goes(c, "PeekAttach", r, 0)
    BY <1>1, <1>3, <2>1, <2>2 DEF Goes
  <2> HIDE DEF r
  <2> QED
    BY <1>2, <2>1, <2>3, Quiet, CalmKeeps
<1>6. ASSUME NEW s \in Serials, NEW g \in Browse!Gen, Browse!CallList(c, s, g)
      PROVE  BrowseInv' /\ Lawful
  <2> DEFINE r == Browse!NewCall("list", s, g)
  <2>1. /\ call' = [call EXCEPT ![c] = r] /\ result' = [result EXCEPT ![c] = 0]
        /\ Browse!Goto(c, "PeekList")
        /\ UNCHANGED <<slots, sessions, generation, tool>> /\ cancelled' \subseteq Browse!Callers
    BY <1>6 DEF Browse!CallList
  <2>2. r \in CallRecords /\ Fits("PeekList", r)
    BY <1>1, <1>4
    DEF Fits, AttachPcs, Opening, ListPcs, WaitingPcs, Browse!Ops, Browse!NewCall, Browse!Gen
  <2>3. Goes(c, "PeekList", r, 0)
    BY <1>1, <1>3, <2>1, <2>2 DEF Goes
  <2>4. Calm(c)
    BY <1>1, <1>2, <2>1 DEF Calm
  <2> HIDE DEF r
  <2> QED
    BY <2>3, <2>4, CalmKeeps
<1>7. ASSUME NEW s \in Serials, NEW g \in Browse!Gen,
             Browse!CallRelease(c, s, g) \/ Browse!WentOffline(c, s)
      PROVE  BrowseInv' /\ Lawful
  <2> DEFINE R(op, n) == Browse!NewCall(op, s, n)
  <2>1. /\ \/ call' = [call EXCEPT ![c] = R("release", g)]
           \/ call' = [call EXCEPT ![c] = R("detach", 0)]
        /\ Browse!Goto(c, "RemoveSlot")
        /\ UNCHANGED <<slots, sessions, generation, tool, result>>
        /\ UNCHANGED cancelled \/ Browse!replace
    BY <1>7 DEF Browse!CallRelease, Browse!WentOffline
  <2>2. /\ R("release", g) \in CallRecords /\ Fits("RemoveSlot", R("release", g))
        /\ R("detach", 0) \in CallRecords /\ Fits("RemoveSlot", R("detach", 0))
    BY <1>1, <1>4
    DEF Fits, AttachPcs, Opening, ListPcs, WaitingPcs, Browse!Ops, Browse!NewCall, Browse!Gen
  <2> HIDE DEF R
  <2> QED
    BY <1>2, <1>3, <2>1, <2>2, Quiet, CalmGoes
<1>8. ASSUME Browse!CallReset(c)
      PROVE  BrowseInv' /\ Lawful
  <2> DEFINE r == Browse!NewCall("reset", "none", 0)
  <2>1. /\ call' = [call EXCEPT ![c] = r] /\ UNCHANGED result
        /\ Browse!Goto(c, "Replace")
        /\ UNCHANGED <<slots, sessions, generation, cancelled>> /\ tool' \in 1 .. MaxTool
    BY <1>1, <1>8 DEF Browse!CallReset
  <2>2. r \in CallRecords /\ Fits("Replace", r)
    BY <1>1, <1>4 DEF Fits, AttachPcs, Opening, ListPcs, WaitingPcs, Browse!Ops, Browse!NewCall
  <2>3. Calm(c)
    BY <1>1, <1>2, <2>1 DEF Calm
  <2> HIDE DEF r
  <2> QED
    BY <1>3, <2>1, <2>2, <2>3, CalmGoes
<1>9. 1 \in Browse!Gen
  BY DeviceAssumptions DEF Browse!BrowseAssumption, Browse!Gen
<1> QED
  BY <1>5, <1>6, <1>7, <1>8, <1>9 DEF Browse!Call

(* attach before it has a generation of its own.                           *)
LEMMA AttachWaits ==
  ASSUME BrowseInv, NEW c \in Browse!Callers,
         \/ Browse!PeekAttach(c) \/ Browse!RecheckAttach(c)
         \/ Browse!Begin(c) /\ UNCHANGED <<slots, sessions, generation>>
  PROVE  BrowseInv' /\ Lawful
<1> USE DEF Browse!At, Browse!slotVars
<1>1. /\ MaxGen \in Nat /\ sessions \in [Serials -> 0 .. MaxGen]
      /\ generation \in 0 .. MaxGen
      /\ slots \in [Browse!Gen -> Browse!Slots] /\ call[c] \in CallRecords /\ Fits(pc[c], call[c])
      /\ \A g \in Browse!Gen : g > generation => slots[g] = Browse!Unborn
  BY DeviceAssumptions, BrowseFields DEF Browse!BrowseAssumption, BrowseInv, CallsFit, MapOK
<1>2. /\ pc[c] \in {"PeekAttach", "RecheckAttach", "Begin"} /\ pc[c] \notin Busy
      /\ UNCHANGED <<slots, sessions, generation, cancelled, tool>>
  BY DEF Browse!PeekAttach, Browse!RecheckAttach, Browse!Begin, Busy, Opening
<1>3. call[c].op = "attach" /\ call[c].serial \in Serials
  BY <1>1, <1>2 DEF Fits, AttachPcs
<1>4. Calm(c)
  BY <1>2, Quiet
<1>5. {"PeekAttach", "RecheckAttach", "WaitAttach", "Begin"} \subseteq Browse!Pcs \ Busy
  BY DEF Browse!Pcs, Browse!UndecidedPcs, Busy, Opening
<1>6. \A p \in {"PeekAttach", "RecheckAttach", "WaitAttach", "Begin"}, r \in CallRecords :
        r.op = "attach" /\ r.serial \in Serials => Fits(p, r)
  BY DEF Fits, AttachPcs, Opening, ListPcs, WaitingPcs
<1>7. CASE \E value \in 0 .. MaxGen : Browse!Return(c, value)
  BY <1>3, <1>4, <1>7, CalmEnds DEF Browse!Return
<1>8. CASE \E p \in {"PeekAttach", "WaitAttach", "Begin"} :
             Browse!Goto(c, p) /\ UNCHANGED <<call, result>>
  BY <1>1, <1>3, <1>4, <1>5, <1>6, <1>8, CalmStays
<1>9. CASE /\ Browse!Goto(c, "RecheckAttach")
           /\ call' = [call EXCEPT ![c].attempt = 1] /\ UNCHANGED result
  <2> DEFINE r == [call[c] EXCEPT !.attempt = 1]
  <2>1. r \in CallRecords /\ r.op = "attach" /\ r.serial \in Serials
    BY <1>1, <1>3 DEF CallRecords, Browse!EXEC_ATTEMPTS
  <2>2. call' = [call EXCEPT ![c] = r]
    BY <1>9
  <2> HIDE DEF r
  <2> QED
    BY <1>4, <1>5, <1>6, <1>9, <2>1, <2>2, CalmGoes
<1>10. ASSUME Browse!PeekAttach(c)
       PROVE  BrowseInv' /\ Lawful
  BY <1>1, <1>3, <1>7, <1>8, <1>9, <1>10 DEF Browse!PeekAttach, Browse!Stay
<1>11. ASSUME Browse!RecheckAttach(c)
       PROVE  BrowseInv' /\ Lawful
  BY <1>8, <1>11 DEF Browse!RecheckAttach
<1>12. ASSUME Browse!Begin(c), UNCHANGED <<slots, sessions, generation>>
       PROVE  BrowseInv' /\ Lawful
  <2>1. ~ (generation' = generation + 1)
    BY <1>1, <1>2
  <2> QED
    BY <1>1, <1>3, <1>7, <1>8, <1>12, <2>1 DEF Browse!Begin, Browse!Stay
<1> QED
  BY <1>10, <1>11, <1>12

(* A Live slot gets another worker.                                        *)
LEMMA WorkerChanges ==
  ASSUME BrowseInv, NEW c \in Browse!Callers, pc[c] \notin Busy,
         NEW g \in 0 .. MaxGen, NEW worker \in -1 .. MaxTool,
         \/ UNCHANGED slots
         \/ Browse!IsLive(g) /\ slots' = [slots EXCEPT ![g] = Browse!Live(worker)],
         UNCHANGED <<sessions, generation, cancelled, tool>>
  PROVE  Calm(c)
<1>1. /\ slots \in [Browse!Gen -> Browse!Slots] /\ cancelled \subseteq Browse!Callers
      /\ tool \in 1 .. MaxTool /\ MaxGen \in Nat
  BY DeviceAssumptions, BrowseFields DEF Browse!BrowseAssumption, BrowseInv
<1>2. Browse!Live(worker) \in Browse!Slots /\ Browse!Live(worker).state = "Live"
  BY DEF Browse!Slots, Browse!Live
<1>3. CASE UNCHANGED slots
  BY <1>1, <1>3 DEF Calm
<1>4. CASE Browse!IsLive(g) /\ slots' = [slots EXCEPT ![g] = Browse!Live(worker)]
  <2>1. g \in Browse!Gen /\ slots[g].state = "Live"
    BY <1>1, <1>4 DEF Browse!IsLive, Browse!Gen
  <2>2. \A h \in Browse!Gen : slots'[h] = IF h = g THEN Browse!Live(worker) ELSE slots[h]
    BY <1>1, <1>4
  <2>3. slots' \in [Browse!Gen -> Browse!Slots]
    BY <1>1, <1>2, <1>4
  <2> QED
    BY <1>1, <1>2, <2>1, <2>2, <2>3 DEF Calm
<1> QED
  BY <1>3, <1>4

(* list, from its first look at the slot to its last.                      *)
LEMMA Lists ==
  ASSUME BrowseInv, NEW c \in Browse!Callers,
         \/ Browse!PeekList(c) \/ Browse!RecheckList(c) \/ Browse!RunOneshot(c)
         \/ Browse!RecheckLive(c) \/ Browse!TakeWorker(c) \/ Browse!OpenWorker(c)
         \/ Browse!Exec(c) \/ Browse!Restore(c) \/ Browse!LookUp(c) \/ Browse!Finish(c)
  PROVE  BrowseInv' /\ Lawful
<1> USE DEF Browse!At, Browse!slotVars
<1>1. /\ MaxGen \in Nat /\ MaxTool \in Nat /\ sessions \in [Serials -> 0 .. MaxGen]
      /\ generation \in 0 .. MaxGen /\ tool \in 1 .. MaxTool
      /\ slots \in [Browse!Gen -> Browse!Slots]
      /\ call \in [Browse!Callers -> CallRecords]
      /\ call[c] \in CallRecords /\ Fits(pc[c], call[c])
  BY DeviceAssumptions, BrowseFields DEF Browse!BrowseAssumption, BrowseInv, CallsFit
<1>2. /\ pc[c] \in ListPcs /\ pc[c] \notin Busy
      /\ UNCHANGED <<sessions, generation, cancelled, tool>>
  BY DEF Browse!PeekList, Browse!RecheckList, Browse!RunOneshot, Browse!RecheckLive,
         Browse!TakeWorker, Browse!OpenWorker, Browse!Exec, Browse!Restore, Browse!LookUp,
         Browse!Finish, ListPcs, WaitingPcs, Busy, Opening
<1>3. call[c].op = "list" /\ call[c].serial \in Serials
  BY <1>1, <1>2 DEF Fits
<1>4. /\ call[c].generation \in 0 .. MaxGen /\ call[c].arc \in 0 .. MaxGen
      /\ call[c].shell \in -1 .. MaxTool /\ call[c].attempt \in 0 .. 2
  BY <1>1 DEF CallRecords, Browse!EXEC_ATTEMPTS
<1>5. ListPcs \subseteq Browse!Pcs \ Busy
  BY DEF ListPcs, WaitingPcs, Browse!Pcs, Busy, Opening
<1>6. \A p \in ListPcs, r \in CallRecords :
        /\ r.op = "list" /\ r.serial \in Serials
        /\ p \in WaitingPcs => r.attempt = 0
        /\ p = "TakeWorker" => r.attempt < 2
        => Fits(p, r)
  BY DEF Fits, AttachPcs, Opening, ListPcs, WaitingPcs, Browse!EXEC_ATTEMPTS
(* The slots, then where the call goes.                                    *)
<1>7. ASSUME UNCHANGED slots
      PROVE  Calm(c)
  BY <1>2, <1>7, Quiet
<1>8. ASSUME NEW g \in 0 .. MaxGen, NEW worker \in -1 .. MaxTool, Browse!IsLive(g),
             slots' = [slots EXCEPT ![g] = Browse!Live(worker)]
      PROVE  Calm(c)
  BY <1>2, <1>8, WorkerChanges
<1>9. ASSUME Browse!mark_oneshot(call[c].arc)
      PROVE  Calm(c)
  <2>1. -1 \in -1 .. MaxTool
    BY <1>1
  <2> QED
    BY <1>4, <1>7, <1>8, <1>9, <2>1 DEF Browse!mark_oneshot, Browse!Oneshot
<1>10. ASSUME Calm(c), NEW value \in 0 .. MaxGen, Browse!Return(c, value),
              value # 0 => Browse!IsLive(value)
       PROVE  BrowseInv' /\ Lawful
  BY <1>10, CalmEnds DEF Browse!Return
<1>11. ASSUME Calm(c), Browse!Return(c, 0)
       PROVE  BrowseInv' /\ Lawful
  BY <1>1, <1>10, <1>11
<1>12. ASSUME Calm(c), NEW p \in ListPcs \ {"TakeWorker"}, Browse!Goto(c, p), Browse!Stay,
              p \in WaitingPcs => call[c].attempt = 0
       PROVE  BrowseInv' /\ Lawful
  BY <1>1, <1>3, <1>5, <1>6, <1>12, CalmStays DEF Browse!Stay
<1>13. ASSUME Calm(c), NEW p \in ListPcs \ WaitingPcs, Browse!Goto(c, p), UNCHANGED result,
              call' = [call EXCEPT ![c].shell = 0],
              p = "TakeWorker" => call[c].attempt < 2
       PROVE  BrowseInv' /\ Lawful
  <2> DEFINE r == [call[c] EXCEPT !.shell = 0]
  <2>1. /\ r \in CallRecords /\ r.op = "list" /\ r.serial \in Serials
        /\ r.attempt = call[c].attempt
    BY <1>1, <1>3 DEF CallRecords
  <2>2. call' = [call EXCEPT ![c] = r]
    BY <1>13
  <2>3. Fits(p, r)
    BY <1>6, <1>13, <2>1
  <2> HIDE DEF r
  <2> QED
    BY <1>5, <1>13, <2>1, <2>2, <2>3, CalmGoes
<1>14. ASSUME Browse!PeekList(c)
       PROVE  BrowseInv' /\ Lawful
  <2>1. Calm(c)
    BY <1>7, <1>14 DEF Browse!PeekList
  <2>2. CASE Browse!Return(c, 0)
    BY <1>11, <2>1, <2>2
  <2>3. CASE \E g \in 0 .. MaxGen, p \in {"RecheckList", "Oneshot", "TakeWorker"} :
               /\ call' = [call EXCEPT ![c].arc = g] /\ Browse!Goto(c, p) /\ UNCHANGED result
    <3>1. PICK g \in 0 .. MaxGen, p \in {"RecheckList", "Oneshot", "TakeWorker"} :
                 call' = [call EXCEPT ![c].arc = g] /\ Browse!Goto(c, p) /\ UNCHANGED result
      BY <2>3
    <3> DEFINE r == [call[c] EXCEPT !.arc = g]
    <3>2. call[c].attempt = 0
      BY <1>1, <1>14 DEF Browse!PeekList, Fits, WaitingPcs
    <3>3. /\ r \in CallRecords /\ r.op = "list" /\ r.serial \in Serials /\ r.attempt = 0
          /\ p \in ListPcs
      BY <1>1, <1>3, <3>2 DEF CallRecords, ListPcs, WaitingPcs
    <3>4. call' = [call EXCEPT ![c] = r]
      BY <3>1
    <3> HIDE DEF r
    <3>5. Fits(p, r)
      BY <1>6, <3>3
    <3> QED
      BY <1>5, <2>1, <3>1, <3>3, <3>4, <3>5, CalmGoes
  <2>4. sessions[call[c].serial] \in 0 .. MaxGen
    BY <1>1, <1>3
  <2> QED
    BY <1>14, <2>2, <2>3, <2>4 DEF Browse!PeekList
<1>15. ASSUME Browse!RecheckList(c)
       PROVE  BrowseInv' /\ Lawful
  <2>1. Calm(c) /\ call[c].attempt = 0
    BY <1>1, <1>7, <1>15 DEF Browse!RecheckList, Fits, WaitingPcs
  <2>2. \E p \in {"WaitList", "PeekList"} : Browse!Goto(c, p) /\ Browse!Stay
    BY <1>15 DEF Browse!RecheckList, Browse!Stay
  <2>3. {"WaitList", "PeekList"} \subseteq ListPcs \ {"TakeWorker"}
    BY DEF ListPcs, WaitingPcs
  <2> QED
    BY <1>12, <2>1, <2>2, <2>3
<1>16. ASSUME Browse!RunOneshot(c) \/ Browse!RecheckLive(c) \/ Browse!LookUp(c)
       PROVE  BrowseInv' /\ Lawful
  <2>1. Calm(c)
    BY <1>7, <1>16 DEF Browse!RunOneshot, Browse!RecheckLive, Browse!LookUp
  <2>2. \/ Browse!Return(c, 0)
        \/ \E p \in {"RecheckLive", "LookUp", "Finish"} : Browse!Goto(c, p) /\ Browse!Stay
    BY <1>16 DEF Browse!RunOneshot, Browse!RecheckLive, Browse!LookUp
  <2>3. \A p \in {"RecheckLive", "LookUp", "Finish"} :
          p \in ListPcs \ {"TakeWorker"} /\ p \notin WaitingPcs
    BY DEF ListPcs, WaitingPcs
  <2> QED
    BY <1>11, <1>12, <2>1, <2>2, <2>3
<1>17. ASSUME Browse!Finish(c)
       PROVE  BrowseInv' /\ Lawful
  <2>1. Calm(c)
    BY <1>7, <1>17 DEF Browse!Finish
  <2> QED
    BY <1>1, <1>4, <1>10, <1>17, <2>1 DEF Browse!Finish
<1>18. ASSUME Browse!TakeWorker(c)
       PROVE  BrowseInv' /\ Lawful
  <2> DEFINE w == slots[call[c].arc].worker
  <2>1. CASE Browse!Return(c, 0) /\ UNCHANGED slots
    BY <1>7, <1>11, <2>1
  <2>2. CASE Browse!Goto(c, "Oneshot") /\ Browse!Stay /\ UNCHANGED slots
    <3>1. "Oneshot" \in ListPcs \ {"TakeWorker"} /\ "Oneshot" \notin WaitingPcs
      BY DEF ListPcs, WaitingPcs
    <3> QED
      BY <1>7, <1>12, <2>2, <3>1
  <2>3. CASE /\ Browse!IsLive(call[c].arc)
             /\ slots' = [slots EXCEPT ![call[c].arc] = Browse!Live(Browse!NoShell)]
             /\ call' = [call EXCEPT ![c].shell = IF w = Browse!NoShell THEN tool ELSE w,
                                     ![c].attempt = @ + 1]
             /\ Browse!Goto(c, IF w = Browse!NoShell THEN "OpenWorker" ELSE "Exec")
             /\ UNCHANGED result
    <3> DEFINE shell == IF w = Browse!NoShell THEN tool ELSE w
               p == IF w = Browse!NoShell THEN "OpenWorker" ELSE "Exec"
               r == [call[c] EXCEPT !.shell = shell, !.attempt = call[c].attempt + 1]
    <3>1. call[c].arc \in Browse!Gen /\ slots[call[c].arc] \in Browse!Slots
      BY <1>1, <1>4, <2>3 DEF Browse!IsLive, Browse!Gen
    <3>2. shell \in -1 .. MaxTool
      BY <1>1, <3>1
      DEF Browse!Slots, Browse!Unborn, Browse!Closed, Browse!Starting, Browse!Live, Browse!NoShell
    <3>3. call[c].attempt + 1 \in 0 .. 2
      <4>1. call[c].attempt < 2
        BY <1>1, <1>18 DEF Browse!TakeWorker, Fits, Browse!EXEC_ATTEMPTS
      <4> QED
        BY <1>4, <4>1
    <3>4. call' = [call EXCEPT ![c] = r]
      BY <2>3
    <3>5. /\ p \in ListPcs /\ p \notin WaitingPcs /\ p # "TakeWorker"
          /\ Browse!Goto(c, p)
      BY <2>3 DEF ListPcs, WaitingPcs
    <3> HIDE DEF shell, p
    <3>6. r \in CallRecords /\ r.op = "list" /\ r.serial \in Serials
      BY <1>1, <1>3, <3>2, <3>3 DEF CallRecords, Browse!EXEC_ATTEMPTS
    <3>7. Calm(c)
      <4>1. Browse!NoShell \in -1 .. MaxTool
        BY <1>1 DEF Browse!NoShell
      <4> QED
        BY <1>4, <1>8, <2>3, <4>1
    <3> HIDE DEF r
    <3>8. Fits(p, r)
      BY <1>6, <3>5, <3>6
    <3> QED
      BY <1>5, <2>3, <3>4, <3>5, <3>6, <3>7, <3>8, CalmGoes
  <2> QED
    BY <1>18, <2>1, <2>2, <2>3 DEF Browse!TakeWorker
<1>19. ASSUME Browse!OpenWorker(c) \/ Browse!Exec(c)
       PROVE  BrowseInv' /\ Lawful
  <2>1. CASE Browse!Return(c, 0) /\ UNCHANGED slots
    BY <1>7, <1>11, <2>1
  <2>2. CASE /\ Browse!Goto(c, "Exec") \/ Browse!Goto(c, "Restore")
             /\ Browse!Stay /\ UNCHANGED slots
    <3>1. \A p \in {"Exec", "Restore"} : p \in ListPcs \ {"TakeWorker"} /\ p \notin WaitingPcs
      BY DEF ListPcs, WaitingPcs
    <3> QED
      BY <1>7, <1>12, <2>2, <3>1
  <2>3. CASE /\ Browse!mark_oneshot(call[c].arc)
             /\ call' = [call EXCEPT ![c].shell = 0]
             /\ Browse!Goto(c, "Oneshot") /\ UNCHANGED result
    <3>1. "Oneshot" \in ListPcs \ WaitingPcs
      BY DEF ListPcs, WaitingPcs
    <3> QED
      BY <1>9, <1>13, <2>3, <3>1
  <2>4. CASE /\ call[c].attempt < 2
             /\ call' = [call EXCEPT ![c].shell = 0]
             /\ Browse!Goto(c, "TakeWorker") /\ UNCHANGED <<result, slots>>
    <3>1. "TakeWorker" \in ListPcs \ WaitingPcs
      BY DEF ListPcs, WaitingPcs
    <3> QED
      BY <1>7, <1>13, <2>4, <3>1
  <2> QED
    BY <1>19, <2>1, <2>2, <2>3, <2>4
    DEF Browse!OpenWorker, Browse!Exec, Browse!NoShell, Browse!EXEC_ATTEMPTS
<1>20. ASSUME Browse!Restore(c)
       PROVE  BrowseInv' /\ Lawful
  <2>1. Calm(c)
    BY <1>4, <1>7, <1>8, <1>20 DEF Browse!Restore
  <2>2. "RecheckLive" \in ListPcs \ WaitingPcs
    BY DEF ListPcs, WaitingPcs
  <2> QED
    BY <1>13, <1>20, <2>1, <2>2 DEF Browse!Restore, Browse!NoShell
<1> QED
  BY <1>14, <1>15, <1>16, <1>17, <1>18, <1>19, <1>20

(* reset_transport, the end of a release, and one that finds nothing.      *)
LEMMA EndersWait ==
  ASSUME BrowseInv, NEW c \in Browse!Callers,
         \/ Browse!Replace(c) \/ Browse!DropWorkers(c)
         \/ Browse!RemoveSlot(c) /\ ~ Browse!Matches(c, sessions[call[c].serial])
  PROVE  BrowseInv' /\ Lawful
<1> USE DEF Browse!At, Browse!slotVars
<1>1. /\ MaxGen \in Nat /\ MaxTool \in Nat /\ tool \in 1 .. MaxTool
      /\ cancelled \subseteq Browse!Callers
      /\ slots \in [Browse!Gen -> Browse!Slots]
      /\ call \in [Browse!Callers -> CallRecords]
      /\ Fits(pc[c], call[c])
  BY DeviceAssumptions, BrowseFields DEF Browse!BrowseAssumption, BrowseInv, CallsFit
<1>2. /\ pc[c] \in {"Replace", "DropWorkers", "RemoveSlot"} /\ pc[c] \notin Busy
      /\ UNCHANGED <<sessions, generation, tool>>
  BY DEF Browse!Replace, Browse!DropWorkers, Browse!RemoveSlot, Busy, Opening
<1>3. ASSUME Browse!Replace(c)
      PROVE  BrowseInv' /\ Lawful
  <2>1. Calm(c)
    BY <1>2, <1>3, Quiet DEF Browse!Replace
  <2>2. CASE Browse!Return(c, 0)
    BY <1>1, <2>1, <2>2, CalmEnds DEF Browse!Return
  <2>3. CASE Browse!Goto(c, "DropWorkers") /\ Browse!Stay
    <3>1. "DropWorkers" \in Browse!Pcs \ Busy /\ Fits("DropWorkers", call[c])
      BY DEF Browse!Pcs, Busy, Opening, Fits, AttachPcs, ListPcs, WaitingPcs
    <3> QED
      BY <2>1, <2>3, <3>1, CalmStays DEF Browse!Stay
  <2> QED
    BY <1>3, <2>2, <2>3 DEF Browse!Replace
<1>4. ASSUME Browse!DropWorkers(c)
      PROVE  BrowseInv' /\ Lawful
  <2>1. Browse!Live(Browse!NoShell) \in Browse!Slots /\ Browse!Live(Browse!NoShell).state = "Live"
    BY <1>1 DEF Browse!Slots, Browse!Live, Browse!NoShell
  <2>2. Calm(c)
    BY <1>1, <1>2, <1>4, <2>1 DEF Browse!DropWorkers, Browse!IsLive, Calm
  <2> QED
    BY <1>1, <1>4, <2>2, CalmEnds DEF Browse!DropWorkers, Browse!Return
<1>5. ASSUME Browse!RemoveSlot(c), ~ Browse!Matches(c, sessions[call[c].serial])
      PROVE  BrowseInv' /\ Lawful
  <2>1. /\ Browse!Goto(c, "Idle") \/ Browse!GotoAndNotify(c, "Idle")
        /\ Browse!Done(c, 0) /\ UNCHANGED <<slots, sessions, cancelled>>
    BY <1>5 DEF Browse!RemoveSlot
  <2>2. Calm(c)
    BY <1>2, <2>1, Quiet
  <2> QED
    BY <1>1, <2>1, <2>2, CalmEnds
<1> QED
  BY <1>3, <1>4, <1>5

(* What a step of c that opens, publishes or ends a session keeps: the     *)
(* types, and what the other calls that are at it hold.                    *)
LEMMA BusyStep ==
  ASSUME BrowseInv, NEW c \in Browse!Callers, NEW p \in Browse!Pcs, NEW r \in CallRecords,
         Fits(p, r), Browse!Goto(c, p) \/ Browse!GotoAndNotify(c, p),
         call' = [call EXCEPT ![c] = r],
         UNCHANGED result \/ result' = [result EXCEPT ![c] = 0]
                          \/ \E g \in 0 .. MaxGen : /\ result' = [result EXCEPT ![c] = g]
                                                    /\ call[c].op # "list",
         slots' \in [Browse!Gen -> Browse!Slots], sessions' \in [Serials -> 0 .. MaxGen],
         generation' \in 0 .. MaxGen, UNCHANGED <<cancelled, tool>>
  PROVE  /\ Browse!TypeOK' /\ CallsFit'
         /\ pc'[c] = p /\ call'[c] = r
         /\ \A d \in Browse!Callers : d # c /\ (pc[d] \in Busy \/ pc'[d] \in Busy) =>
              pc'[d] = pc[d] /\ call'[d] = call[d]
         /\ \A d \in Browse!Callers :
              ~ (call[d].op = "list" /\ result[d] = 0 /\ result'[d] # 0)
<1>1. /\ cancelled \subseteq Browse!Callers /\ tool \in 1 .. MaxTool
      /\ result \in [Browse!Callers -> 0 .. MaxGen] /\ MaxGen \in Nat
  BY DeviceAssumptions, BrowseFields DEF Browse!BrowseAssumption, BrowseInv
<1>2. /\ pc' \in [Browse!Callers -> Browse!Pcs] /\ call' \in [Browse!Callers -> CallRecords]
      /\ pc'[c] = p /\ call'[c] = r /\ Moved(c) /\ CallsFit'
  BY CallMoves
<1>3. result' \in [Browse!Callers -> 0 .. MaxGen]
  BY <1>1
<1>4. Browse!TypeOK'
  BY <1>1, <1>2, <1>3 DEF Browse!TypeOK, CallRecords
<1>5. \A d \in Browse!Callers : d # c /\ (pc[d] \in Busy \/ pc'[d] \in Busy) =>
        pc'[d] = pc[d] /\ call'[d] = call[d]
  BY <1>2 DEF Moved, Busy, Opening
<1>6. \A d \in Browse!Callers : ~ (call[d].op = "list" /\ result[d] = 0 /\ result'[d] # 0)
  BY <1>1
<1> QED
  BY <1>2, <1>4, <1>5, <1>6

(* begin_attach hands out a generation.                                    *)
LEMMA BeginOpens ==
  ASSUME BrowseInv, NEW c \in Browse!Callers, Browse!Begin(c), generation' = generation + 1
  PROVE  BrowseInv' /\ Lawful
<1> USE DEF Browse!At, Browse!slotVars
<1> DEFINE s == call[c].serial
           g == generation + 1
           r == [call[c] EXCEPT !.generation = g, !.shell = tool]
<1>1. /\ MaxGen \in Nat /\ generation \in 0 .. MaxGen /\ sessions \in [Serials -> 0 .. MaxGen]
      /\ slots \in [Browse!Gen -> Browse!Slots] /\ tool \in 1 .. MaxTool
      /\ call \in [Browse!Callers -> CallRecords] /\ call[c] \in CallRecords
      /\ Fits(pc[c], call[c]) /\ MapOK /\ Owned
  BY DeviceAssumptions, BrowseFields DEF Browse!BrowseAssumption, BrowseInv, CallsFit
<1>2. /\ pc[c] = "Begin" /\ g \in Browse!Gen
      /\ ~ Browse!IsLive(sessions[s]) /\ ~ Browse!IsStarting(sessions[s])
      /\ slots' = [slots EXCEPT ![g] = Browse!Starting]
      /\ sessions' = [sessions EXCEPT ![s] = g]
      /\ Browse!GotoAndNotify(c, "Open")
      /\ UNCHANGED <<result, cancelled, tool>>
  BY <1>1 DEF Browse!Begin
<1>3. call' = [call EXCEPT ![c].generation = g, ![c].shell = tool]
  BY <1>1 DEF Browse!Begin
<1>4. call[c].op = "attach" /\ s \in Serials
  BY <1>1, <1>2 DEF Fits, AttachPcs
<1>5. /\ r \in CallRecords /\ r.generation = g /\ r.op = "attach" /\ r.serial = s
      /\ call' = [call EXCEPT ![c] = r]
  <2>1. g \in 0 .. MaxGen /\ tool \in -1 .. MaxTool
    BY <1>1, <1>2 DEF Browse!Gen
  <2>2. call' = [call EXCEPT ![c] = r]
    BY <1>3
  <2>3. r \in CallRecords
    BY <1>1, <2>1 DEF CallRecords
  <2>4. r.generation = g /\ r.op = "attach" /\ r.serial = s
    BY <1>1, <1>4 DEF CallRecords
  <2> QED
    BY <2>2, <2>3, <2>4
<1>6. "Open" \in Browse!Pcs /\ Fits("Open", r)
  <2>1. g # 0
    BY <1>1
  <2> HIDE DEF r, g, s
  <2> QED
    BY <1>4, <1>5, <2>1
    DEF Browse!Pcs, Fits, AttachPcs, Opening, ListPcs, WaitingPcs
<1>7. /\ slots' \in [Browse!Gen -> Browse!Slots] /\ sessions' \in [Serials -> 0 .. MaxGen]
      /\ generation' \in 0 .. MaxGen
  BY <1>1, <1>2, <1>4 DEF Browse!Slots, Browse!Gen
<1> HIDE DEF r
<1>8. /\ Browse!TypeOK' /\ CallsFit'
      /\ pc'[c] = "Open" /\ call'[c] = r
      /\ \A d \in Browse!Callers : d # c /\ (pc[d] \in Busy \/ pc'[d] \in Busy) =>
           pc'[d] = pc[d] /\ call'[d] = call[d]
      /\ \A d \in Browse!Callers : ~ (call[d].op = "list" /\ result[d] = 0 /\ result'[d] # 0)
  BY <1>2, <1>5, <1>6, <1>7, BusyStep
<1>9. /\ slots'[g] = Browse!Starting
      /\ \A h \in Browse!Gen : h # g => slots'[h] = slots[h]
      /\ sessions'[s] = g
      /\ \A t \in Serials : t # s => sessions'[t] = sessions[t]
      /\ slots[g] = Browse!Unborn
  BY <1>1, <1>2, <1>4 DEF MapOK
<1>10. MapOK'
  <2>1. \A t \in Serials : sessions'[t] <= generation'
    BY <1>1, <1>9 DEF MapOK
  <2>2. \A h \in Browse!Gen : h > generation' => slots'[h] = Browse!Unborn
    BY <1>1, <1>9 DEF MapOK, Browse!Gen
  <2>3. ASSUME NEW d \in Browse!Callers, pc'[d] \in Opening
        PROVE  /\ call'[d].generation <= generation'
               /\ \A t \in Serials : sessions'[t] = call'[d].generation => t = call'[d].serial
    <3>1. CASE d = c
      BY <1>1, <1>5, <1>8, <1>9, <3>1 DEF MapOK
    <3>2. CASE d # c
      <4>1. pc[d] \in Opening /\ call'[d] = call[d] /\ call[d].generation \in 0 .. MaxGen
        BY <1>1, <1>8, <2>3, <3>2 DEF Busy, CallRecords
      <4> QED
        BY <1>1, <1>9, <4>1 DEF MapOK
    <3> QED
      BY <3>1, <3>2
  <2>4. ASSUME NEW d \in Browse!Callers, pc'[d] = "CloseSlot"
        PROVE  call'[d].arc <= generation'
    <3>1. /\ pc[d] = "CloseSlot" /\ call'[d] = call[d]
          /\ call[d].arc \in 0 .. MaxGen /\ call[d].arc <= generation
      BY <1>1, <1>8, <2>4 DEF Busy, CallRecords, MapOK
    <3> QED
      BY <1>1, <3>1
  <2> QED
    BY <2>1, <2>2, <2>3, <2>4 DEF MapOK
<1>11. ASSUME NEW h \in Browse!Gen
       PROVE  Browse!HasOwner(h)'
  <2>1. CASE h = g
    BY <1>4, <1>5, <1>8, <1>9, <2>1
    DEF Browse!HasOwner, Browse!IsStarting, Browse!IsLive, Browse!InHand, Opening
  <2>2. CASE h # g
    <3>1. /\ Browse!HasOwner(h) /\ slots'[h] = slots[h]
          /\ (Browse!InHand(h))' <=> Browse!InHand(h)
      BY <1>1, <1>2, <1>8, <1>9, <2>2 DEF Owned, Browse!InHand, Busy, Opening
    <3>2. ASSUME Browse!IsStarting(h) \/ Browse!IsLive(h), NEW t \in Serials, sessions[t] = h
          PROVE  sessions'[t] = h
      BY <1>2, <1>9, <3>2
    <3>3. ASSUME NEW d \in Browse!Callers, pc[d] \in Opening
          PROVE  pc'[d] = pc[d] /\ call'[d] = call[d]
      BY <1>2, <1>8, <3>3 DEF Busy, Opening
    <3> QED
      BY <3>1, <3>2, <3>3 DEF Browse!HasOwner, Browse!IsStarting, Browse!IsLive, Opening
  <2> QED
    BY <2>1, <2>2
<1>12. Lawful
  <2>1. Browse!Unborn # Browse!Closed /\ Browse!Starting # Browse!Closed
    BY DEF Browse!Unborn, Browse!Closed, Browse!Starting
  <2> QED
    BY <1>8, <1>9, <2>1 DEF Lawful, Browse!IsLive, Browse!Closed
<1> QED
  BY <1>8, <1>10, <1>11, <1>12 DEF BrowseInv, Owned

(* Open ends, one way or the other, with the slot still the attach's.      *)
LEMMA OpenEnds ==
  ASSUME BrowseInv, NEW c \in Browse!Callers, Browse!Open(c)
  PROVE  BrowseInv' /\ Lawful
<1> USE DEF Browse!At, Browse!slotVars
<1>1. /\ MaxGen \in Nat /\ MaxTool \in Nat /\ call \in [Browse!Callers -> CallRecords]
      /\ call[c] \in CallRecords /\ Fits(pc[c], call[c]) /\ MapOK /\ Owned
      /\ slots \in [Browse!Gen -> Browse!Slots] /\ sessions \in [Serials -> 0 .. MaxGen]
      /\ generation \in 0 .. MaxGen
  BY DeviceAssumptions, BrowseFields DEF Browse!BrowseAssumption, BrowseInv, CallsFit
<1>2. /\ pc[c] = "Open" /\ UNCHANGED <<slots, sessions, generation, cancelled, tool, result>>
  BY DEF Browse!Open
<1>3. \E p \in {"Publish", "CloseAbandoned"}, shell \in -1 .. MaxTool :
        Browse!Goto(c, p) /\ call' = [call EXCEPT ![c].shell = shell]
  <2>1. call[c].shell \in -1 .. MaxTool /\ -1 \in -1 .. MaxTool /\ 0 \in -1 .. MaxTool
    BY <1>1 DEF CallRecords
  <2>2. call = [call EXCEPT ![c].shell = call[c].shell]
    BY <1>1 DEF CallRecords
  <2> QED
    BY <2>1, <2>2 DEF Browse!Open, Browse!Oneshot, Browse!NoShell
<1>4. PICK p \in {"Publish", "CloseAbandoned"}, shell \in -1 .. MaxTool :
        Browse!Goto(c, p) /\ call' = [call EXCEPT ![c].shell = shell]
  BY <1>3
<1> DEFINE r == [call[c] EXCEPT !.shell = shell]
<1>5. /\ r \in CallRecords /\ r.op = call[c].op /\ r.serial = call[c].serial
      /\ r.generation = call[c].generation /\ call' = [call EXCEPT ![c] = r]
  BY <1>1, <1>4 DEF CallRecords
<1> HIDE DEF r
<1>6. p \in Browse!Pcs /\ p \in Opening /\ Fits(p, r)
  BY <1>1, <1>2, <1>5
  DEF Browse!Pcs, Fits, AttachPcs, Opening, ListPcs, WaitingPcs
<1>7. /\ Browse!TypeOK' /\ CallsFit'
      /\ pc'[c] = p /\ call'[c] = r
      /\ \A d \in Browse!Callers : d # c /\ (pc[d] \in Busy \/ pc'[d] \in Busy) =>
           pc'[d] = pc[d] /\ call'[d] = call[d]
      /\ \A d \in Browse!Callers : ~ (call[d].op = "list" /\ result[d] = 0 /\ result'[d] # 0)
  BY <1>1, <1>2, <1>4, <1>5, <1>6, BusyStep
<1>8. MapOK'
  BY <1>1, <1>2, <1>5, <1>7 DEF MapOK, Busy, Opening
<1>9. Owned'
  <2>1. \A d \in Browse!Callers : /\ pc[d] = "CloseSlot" <=> pc'[d] = "CloseSlot"
                                  /\ pc[d] = "CloseSlot" => call'[d].arc = call[d].arc
    BY <1>2, <1>4, <1>7 DEF Busy
  <2>2. \A d \in Browse!Callers : pc[d] \in Opening =>
          /\ pc'[d] \in Opening
          /\ call'[d].op = call[d].op /\ call'[d].generation = call[d].generation
    BY <1>5, <1>6, <1>7 DEF Busy
  <2> QED
    BY <1>1, <1>2, <2>1, <2>2
    DEF Owned, Browse!HasOwner, Browse!InHand, Browse!IsStarting, Browse!IsLive, Opening
<1>10. Lawful
  BY <1>2, <1>7 DEF Lawful, Browse!IsLive, Browse!Closed
<1> QED
  BY <1>7, <1>8, <1>9, <1>10 DEF BrowseInv

(* The Starting slot an attach leaves behind is its own device's, or       *)
(* already in the hands of whoever closes it.                              *)
LEMMA LeftBehind ==
  ASSUME BrowseInv, NEW c \in Browse!Callers, pc[c] \in Opening,
         Browse!IsStarting(call[c].generation),
         sessions[call[c].serial] # call[c].generation
  PROVE  Browse!InHand(call[c].generation)
<1>1. call[c] \in CallRecords /\ Fits(pc[c], call[c]) /\ MapOK /\ Owned /\ MaxGen \in Nat
  BY DeviceAssumptions, BrowseFields DEF Browse!BrowseAssumption, BrowseInv, CallsFit
<1>2. call[c].generation \in Browse!Gen
  BY <1>1 DEF CallRecords, Fits, Browse!Gen
<1> QED
  BY <1>1, <1>2 DEF MapOK, Owned, Browse!HasOwner

(* publish_live and abandon_starting: of this very generation, or nothing. *)
LEMMA AttachEnds ==
  ASSUME BrowseInv, NEW c \in Browse!Callers, Browse!Publish(c) \/ Browse!CloseAbandoned(c)
  PROVE  BrowseInv' /\ Lawful
<1> USE DEF Browse!At, Browse!slotVars
<1> DEFINE s == call[c].serial
           g == call[c].generation
<1>1. /\ MaxGen \in Nat /\ MaxTool \in Nat /\ call \in [Browse!Callers -> CallRecords]
      /\ call[c] \in CallRecords /\ Fits(pc[c], call[c]) /\ MapOK /\ Owned
      /\ slots \in [Browse!Gen -> Browse!Slots] /\ sessions \in [Serials -> 0 .. MaxGen]
      /\ generation \in 0 .. MaxGen
  BY DeviceAssumptions, BrowseFields DEF Browse!BrowseAssumption, BrowseInv, CallsFit
<1>2. /\ pc[c] \in Opening /\ pc[c] # "CloseSlot"
      /\ UNCHANGED <<sessions, generation, cancelled, tool>>
  BY DEF Browse!Publish, Browse!CloseAbandoned, Opening
<1>3. call[c].op = "attach" /\ s \in Serials /\ g \in Browse!Gen
  BY <1>1, <1>2 DEF Fits, AttachPcs, CallRecords, Browse!Gen
<1>4. \/ UNCHANGED slots /\ ~ (sessions[s] = g /\ Browse!IsStarting(g))
      \/ \E slot \in Browse!Slots :
           /\ sessions[s] = g /\ Browse!IsStarting(g) /\ slot.state # "Starting"
           /\ slots' = [slots EXCEPT ![g] = slot]
  <2>1. /\ Browse!Live(call[c].shell) \in Browse!Slots /\ Browse!Closed \in Browse!Slots
        /\ Browse!Live(call[c].shell).state # "Starting" /\ Browse!Closed.state # "Starting"
    BY <1>1 DEF CallRecords, Browse!Slots, Browse!Live, Browse!Closed
  <2>2. g # 0
    BY <1>1, <1>3 DEF Browse!Gen
  <2> HIDE DEF s, g
  <2>3. CASE Browse!Publish(c)
    BY <2>1, <2>3 DEF Browse!Publish, s, g
  <2>4. CASE Browse!CloseAbandoned(c)
    BY <2>1, <2>2, <2>4 DEF Browse!CloseAbandoned, s, g
  <2> QED
    BY <2>3, <2>4
<1>5. \E p \in {"Idle", "RemoveAbandoned"}, r \in CallRecords :
        /\ Fits(p, r)
        /\ Browse!Goto(c, p) \/ Browse!GotoAndNotify(c, p)
        /\ call' = [call EXCEPT ![c] = r]
        /\ \/ UNCHANGED result
           \/ \E n \in 0 .. MaxGen : result' = [result EXCEPT ![c] = n]
  <2>1. Browse!NoCall \in CallRecords /\ Fits("Idle", Browse!NoCall)
    BY <1>1
    DEF Browse!NoCall, Browse!NewCall, CallRecords, Browse!NoShell, Browse!EXEC_ATTEMPTS,
        Fits, AttachPcs, Opening, ListPcs, WaitingPcs
  <2>2. Fits("RemoveAbandoned", call[c]) /\ call = [call EXCEPT ![c] = call[c]]
    BY <1>1, <1>3 DEF Fits, AttachPcs, Opening, ListPcs, WaitingPcs
  <2>3. g \in 0 .. MaxGen /\ 0 \in 0 .. MaxGen
    BY <1>1, <1>3 DEF Browse!Gen
  <2>4. CASE Browse!Publish(c)
    <3>1. \E n \in 0 .. MaxGen : Browse!Done(c, n) /\ Browse!GotoAndNotify(c, "Idle")
      BY <2>3, <2>4 DEF Browse!Publish
    <3> QED
      BY <2>1, <3>1 DEF Browse!Done
  <2>5. CASE Browse!CloseAbandoned(c)
    <3>1. \/ /\ Browse!Goto(c, "Idle") \/ Browse!GotoAndNotify(c, "Idle")
             /\ Browse!Done(c, 0)
          \/ Browse!Goto(c, "RemoveAbandoned") /\ UNCHANGED <<call, result>>
      BY <2>5 DEF Browse!CloseAbandoned, Browse!Return, Browse!Stay
    <3>2. CASE /\ Browse!Goto(c, "Idle") \/ Browse!GotoAndNotify(c, "Idle")
               /\ Browse!Done(c, 0)
      BY <2>1, <2>3, <3>2 DEF Browse!Done
    <3>3. CASE Browse!Goto(c, "RemoveAbandoned") /\ UNCHANGED <<call, result>>
      BY <1>1, <2>2, <3>3
    <3> QED
      BY <3>1, <3>2, <3>3
  <2> QED
    BY <2>4, <2>5
<1>6. PICK p \in {"Idle", "RemoveAbandoned"}, r \in CallRecords :
        /\ Fits(p, r)
        /\ Browse!Goto(c, p) \/ Browse!GotoAndNotify(c, p)
        /\ call' = [call EXCEPT ![c] = r]
        /\ \/ UNCHANGED result
           \/ \E n \in 0 .. MaxGen : result' = [result EXCEPT ![c] = n]
  BY <1>5
<1>7. p \in Browse!Pcs /\ p \notin Busy
  BY DEF Browse!Pcs, Busy, Opening
<1>8. slots' \in [Browse!Gen -> Browse!Slots]
  BY <1>1, <1>3, <1>4
<1>9. /\ Browse!TypeOK' /\ CallsFit'
      /\ pc'[c] = p /\ call'[c] = r
      /\ \A d \in Browse!Callers : d # c /\ (pc[d] \in Busy \/ pc'[d] \in Busy) =>
           pc'[d] = pc[d] /\ call'[d] = call[d]
      /\ \A d \in Browse!Callers : ~ (call[d].op = "list" /\ result[d] = 0 /\ result'[d] # 0)
  <2>1. sessions' \in [Serials -> 0 .. MaxGen] /\ generation' \in 0 .. MaxGen
    BY <1>1, <1>2
  <2>2. \/ UNCHANGED result
        \/ \E n \in 0 .. MaxGen : result' = [result EXCEPT ![c] = n] /\ call[c].op # "list"
    BY <1>3, <1>6
  <2> QED
    BY <1>2, <1>6, <1>7, <1>8, <2>1, <2>2, BusyStep
<1>10. /\ \A h \in Browse!Gen : h # g => slots'[h] = slots[h]
       /\ \/ slots'[g] = slots[g] /\ ~ (sessions[s] = g /\ Browse!IsStarting(g))
          \/ sessions[s] = g /\ Browse!IsStarting(g) /\ slots'[g].state # "Starting"
  BY <1>1, <1>3, <1>4
<1>11. MapOK'
  <2>1. \A h \in Browse!Gen : h > generation => slots'[h] = Browse!Unborn
    <3>1. g <= generation
      BY <1>1, <1>2 DEF MapOK
    <3> QED
      BY <1>1, <1>2, <1>3, <1>10, <3>1 DEF MapOK, Browse!Gen
  <2>2. \A d \in Browse!Callers : pc'[d] \in Busy => pc'[d] = pc[d] /\ call'[d] = call[d]
    BY <1>7, <1>9
  <2> QED
    BY <1>1, <1>2, <2>1, <2>2 DEF MapOK, Busy
<1>12. ASSUME NEW h \in Browse!Gen
       PROVE  Browse!HasOwner(h)'
  <2>1. (Browse!InHand(h))' <=> Browse!InHand(h)
    BY <1>2, <1>7, <1>9 DEF Browse!InHand, Busy
  <2>2. CASE h = g
    <3>1. slots'[g].state = "Starting" => Browse!InHand(g)
      <4>1. g # 0
        BY <1>1, <1>3 DEF Browse!Gen
      <4> QED
        BY <1>2, <1>10, <4>1, LeftBehind DEF Browse!IsStarting
    <3>2. slots'[g].state = "Live" => Browse!IsLive(g) \/ sessions[s] = g
      BY <1>1, <1>3, <1>10 DEF Browse!IsLive, Browse!Gen
    <3>3. Browse!HasOwner(g)
      BY <1>1, <1>3 DEF Owned
    <3> QED
      BY <1>2, <1>3, <2>1, <2>2, <3>1, <3>2, <3>3
      DEF Browse!HasOwner, Browse!IsStarting, Browse!IsLive
  <2>3. CASE h # g
    <3>1. Browse!HasOwner(h) /\ slots'[h] = slots[h]
      BY <1>1, <1>10, <2>3 DEF Owned
    <3>2. \A d \in Browse!Callers : d # c /\ pc[d] \in Opening =>
            pc'[d] = pc[d] /\ call'[d] = call[d]
      BY <1>9 DEF Busy
    <3> QED
      BY <1>2, <2>1, <2>3, <3>1, <3>2
      DEF Browse!HasOwner, Browse!IsStarting, Browse!IsLive, Opening
  <2> QED
    BY <2>2, <2>3
<1>13. Lawful
  <2>1. ASSUME NEW h \in Browse!Gen
        PROVE  /\ ~ (Browse!IsLive(h) /\ slots'[h] = Browse!Closed)
               /\ slots[h] = Browse!Closed => slots'[h] = Browse!Closed
    BY <1>10 DEF Browse!IsLive, Browse!IsStarting, Browse!Closed
  <2> QED
    BY <1>9, <2>1 DEF Lawful
<1> QED
  BY <1>9, <1>11, <1>12, <1>13 DEF BrowseInv, Owned

(* Taking a device's slot out of the map: one that is closed, or one that  *)
(* the call will close.                                                    *)
LEMMA SlotLeaves ==
  ASSUME BrowseInv, NEW c \in Browse!Callers,
         \/ Browse!RemoveAbandoned(c)
         \/ Browse!RemoveSlot(c) /\ Browse!Matches(c, sessions[call[c].serial])
  PROVE  BrowseInv' /\ Lawful
<1> USE DEF Browse!At, Browse!slotVars
<1> DEFINE s == call[c].serial
           g == sessions[s]
<1>1. /\ MaxGen \in Nat /\ MaxTool \in Nat /\ call \in [Browse!Callers -> CallRecords]
      /\ call[c] \in CallRecords /\ Fits(pc[c], call[c]) /\ MapOK /\ Owned
      /\ slots \in [Browse!Gen -> Browse!Slots] /\ sessions \in [Serials -> 0 .. MaxGen]
      /\ generation \in 0 .. MaxGen
  BY DeviceAssumptions, BrowseFields DEF Browse!BrowseAssumption, BrowseInv, CallsFit
<1>2. /\ pc[c] \notin Busy /\ s \in Serials /\ g \in 0 .. MaxGen
      /\ UNCHANGED <<slots, generation, cancelled, tool>>
  BY <1>1
  DEF Browse!RemoveAbandoned, Browse!RemoveSlot, Busy, Opening, Fits, AttachPcs
<1>3. \/ UNCHANGED sessions
      \/ g # 0 /\ sessions' = [sessions EXCEPT ![s] = 0]
  BY DEF Browse!RemoveAbandoned, Browse!RemoveSlot, Browse!Matches
<1>4. \E p \in {"Idle", "CloseSlot"}, r \in CallRecords :
        /\ Fits(p, r)
        /\ Browse!Goto(c, p) \/ Browse!GotoAndNotify(c, p)
        /\ call' = [call EXCEPT ![c] = r]
        /\ UNCHANGED result \/ result' = [result EXCEPT ![c] = 0]
        /\ p = "CloseSlot" => r.arc = g
        /\ p = "Idle" /\ sessions' # sessions => slots[g] = Browse!Closed
  <2>1. CASE Browse!RemoveAbandoned(c)
    <3>1. Browse!NoCall \in CallRecords /\ Fits("Idle", Browse!NoCall)
      BY <1>1
      DEF Browse!NoCall, Browse!NewCall, CallRecords, Browse!NoShell, Browse!EXEC_ATTEMPTS,
          Fits, AttachPcs, Opening, ListPcs, WaitingPcs
    <3>2. /\ Browse!GotoAndNotify(c, "Idle")
          /\ call' = [call EXCEPT ![c] = Browse!NoCall]
          /\ result' = [result EXCEPT ![c] = 0]
          /\ sessions' # sessions => slots[g] = Browse!Closed
      BY <2>1 DEF Browse!RemoveAbandoned, Browse!Done
    <3> QED
      BY <3>1, <3>2
  <2>2. CASE Browse!RemoveSlot(c) /\ Browse!Matches(c, g)
    <3> DEFINE r == [call[c] EXCEPT !.arc = g]
    <3>1. /\ Browse!Goto(c, "CloseSlot") /\ UNCHANGED result
          /\ call' = [call EXCEPT ![c] = r]
      BY <2>2 DEF Browse!RemoveSlot
    <3>2. /\ r \in CallRecords /\ r.arc = g /\ r.op = call[c].op /\ r.serial = s
          /\ r.generation = call[c].generation
      BY <1>1, <1>2 DEF CallRecords
    <3>3. /\ call[c].op \in {"release", "detach"}
          /\ call[c].op = "release" => g = call[c].generation
      BY <1>1, <2>2 DEF Browse!RemoveSlot, Fits, Browse!Matches
    <3> HIDE DEF r, g, s
    <3>4. Fits("CloseSlot", r)
      BY <1>2, <3>2, <3>3 DEF Fits, AttachPcs, Opening, ListPcs, WaitingPcs
    <3> QED
      BY <3>1, <3>2, <3>4
  <2> QED
    BY <2>1, <2>2
<1>5. PICK p \in {"Idle", "CloseSlot"}, r \in CallRecords :
        /\ Fits(p, r)
        /\ Browse!Goto(c, p) \/ Browse!GotoAndNotify(c, p)
        /\ call' = [call EXCEPT ![c] = r]
        /\ UNCHANGED result \/ result' = [result EXCEPT ![c] = 0]
        /\ p = "CloseSlot" => r.arc = g
        /\ p = "Idle" /\ sessions' # sessions => slots[g] = Browse!Closed
  BY <1>4
<1>6. p \in Browse!Pcs /\ p \notin Opening
  BY DEF Browse!Pcs, Opening
<1>7. /\ Browse!TypeOK' /\ CallsFit'
      /\ pc'[c] = p /\ call'[c] = r
      /\ \A d \in Browse!Callers : d # c /\ (pc[d] \in Busy \/ pc'[d] \in Busy) =>
           pc'[d] = pc[d] /\ call'[d] = call[d]
      /\ \A d \in Browse!Callers : ~ (call[d].op = "list" /\ result[d] = 0 /\ result'[d] # 0)
  <2>1. /\ sessions' \in [Serials -> 0 .. MaxGen] /\ generation' \in 0 .. MaxGen
        /\ slots' \in [Browse!Gen -> Browse!Slots]
    BY <1>1, <1>2, <1>3
  <2> HIDE DEF g, s
  <2> QED
    BY <1>2, <1>5, <1>6, <2>1, BusyStep
<1>8. /\ \A t \in Serials : t # s => sessions'[t] = sessions[t]
      /\ \/ UNCHANGED sessions
         \/ g # 0 /\ sessions'[s] = 0 /\ (p = "CloseSlot" \/ slots[g] = Browse!Closed)
  BY <1>1, <1>2, <1>3, <1>5
<1>9. MapOK'
  <2>1. \A t \in Serials : sessions'[t] = sessions[t] \/ sessions'[t] = 0
    BY <1>8
  <2>2. \A d \in Browse!Callers : pc'[d] \in Opening =>
          pc[d] \in Opening /\ call'[d] = call[d] /\ call[d].generation # 0
    <3> SUFFICES ASSUME NEW d \in Browse!Callers, pc'[d] \in Opening
                 PROVE  pc[d] \in Opening /\ call'[d] = call[d] /\ call[d].generation # 0
      OBVIOUS
    <3>1. pc[d] \in Opening /\ call'[d] = call[d]
      BY <1>6, <1>7 DEF Busy
    <3> QED
      BY <3>1 DEF BrowseInv, CallsFit, Fits
  <2>3. ASSUME NEW d \in Browse!Callers, pc'[d] = "CloseSlot"
        PROVE  call'[d].arc <= generation
    <3>1. CASE d = c
      BY <1>1, <1>2, <1>5, <1>7, <2>3, <3>1 DEF MapOK
    <3>2. CASE d # c
      BY <1>1, <1>7, <2>3, <3>2 DEF MapOK, Busy
    <3> QED
      BY <3>1, <3>2
  <2> QED
    BY <1>1, <1>2, <2>1, <2>2, <2>3 DEF MapOK
<1>10. ASSUME NEW h \in Browse!Gen
       PROVE  Browse!HasOwner(h)'
  <2>1. Browse!HasOwner(h) /\ slots'[h] = slots[h]
    BY <1>1, <1>2 DEF Owned
  <2>2. Browse!InHand(h) => Browse!InHand(h)'
    <3> SUFFICES ASSUME NEW d \in Browse!Callers, pc[d] = "CloseSlot", call[d].arc = h
                 PROVE  pc'[d] = "CloseSlot" /\ call'[d].arc = h
      BY DEF Browse!InHand
    <3>1. d # c /\ pc[d] \in Busy
      BY <1>2 DEF Busy
    <3> QED
      BY <1>7, <3>1
  <2>3. ASSUME Browse!IsStarting(h) \/ Browse!IsLive(h), NEW t \in Serials, sessions[t] = h,
               sessions'[t] # h
        PROVE  Browse!InHand(h)'
    <3>1. t = s /\ h = g /\ sessions' # sessions
      BY <1>8, <2>3
    <3>2. slots[g] # Browse!Closed
      BY <2>3, <3>1 DEF Browse!IsStarting, Browse!IsLive, Browse!Closed
    <3>3. p = "CloseSlot" /\ r.arc = h
      BY <1>5, <1>8, <3>1, <3>2
    <3> QED
      BY <1>7, <3>3 DEF Browse!InHand
  <2>4. \A d \in Browse!Callers : pc[d] \in Opening => pc'[d] = pc[d] /\ call'[d] = call[d]
    BY <1>2, <1>7 DEF Busy
  <2>5. (Browse!IsStarting(h) \/ Browse!IsLive(h))' =>
          (Browse!InHand(h))' \/ \E t \in Serials : sessions'[t] = h
    BY <2>1, <2>2, <2>3 DEF Browse!HasOwner, Browse!IsStarting, Browse!IsLive
  <2>6. Browse!IsStarting(h)' /\ ~ (Browse!InHand(h))' =>
          \E d \in Browse!Callers : /\ call'[d].op = "attach" /\ call'[d].generation = h
                                    /\ pc'[d] \in {"Open", "Publish", "CloseAbandoned"}
    BY <2>1, <2>2, <2>4 DEF Browse!HasOwner, Browse!IsStarting, Opening
  <2> QED
    BY <2>5, <2>6 DEF Browse!HasOwner
<1>11. Lawful
  BY <1>2, <1>7 DEF Lawful, Browse!IsLive, Browse!Closed
<1> QED
  BY <1>7, <1>9, <1>10, <1>11 DEF BrowseInv, Owned

(* close_slot: whoever took it out of the map closes it.                   *)
LEMMA SlotCloses ==
  ASSUME BrowseInv, NEW c \in Browse!Callers, Browse!CloseSlot(c)
  PROVE  BrowseInv' /\ Lawful
<1> USE DEF Browse!At, Browse!slotVars
<1> DEFINE arc == call[c].arc
<1>1. /\ MaxGen \in Nat /\ MaxTool \in Nat /\ call \in [Browse!Callers -> CallRecords]
      /\ call[c] \in CallRecords /\ Fits(pc[c], call[c]) /\ MapOK /\ Owned
      /\ slots \in [Browse!Gen -> Browse!Slots] /\ sessions \in [Serials -> 0 .. MaxGen]
      /\ generation \in 0 .. MaxGen
  BY DeviceAssumptions, BrowseFields DEF Browse!BrowseAssumption, BrowseInv, CallsFit
<1>2. /\ pc[c] = "CloseSlot" /\ UNCHANGED <<sessions, generation, cancelled, tool>>
      /\ slots' = [slots EXCEPT ![arc] = Browse!Closed]
  BY DEF Browse!CloseSlot
<1>3. \E p \in {"Replace", "Idle"}, r \in CallRecords :
        /\ Fits(p, r) /\ Browse!GotoAndNotify(c, p)
        /\ call' = [call EXCEPT ![c] = r]
        /\ UNCHANGED result \/ result' = [result EXCEPT ![c] = 0]
  <2>1. Browse!NoCall \in CallRecords /\ Fits("Idle", Browse!NoCall)
    BY <1>1
    DEF Browse!NoCall, Browse!NewCall, CallRecords, Browse!NoShell, Browse!EXEC_ATTEMPTS,
        Fits, AttachPcs, Opening, ListPcs, WaitingPcs
  <2>2. Fits("Replace", call[c]) /\ call = [call EXCEPT ![c] = call[c]]
    BY <1>1 DEF Fits, AttachPcs, Opening, ListPcs, WaitingPcs
  <2>3. CASE Browse!GotoAndNotify(c, "Replace") /\ Browse!Stay
    BY <1>1, <2>2, <2>3 DEF Browse!Stay
  <2>4. CASE Browse!GotoAndNotify(c, "Idle") /\ Browse!Done(c, 0)
    BY <2>1, <2>4 DEF Browse!Done
  <2> QED
    BY <2>3, <2>4 DEF Browse!CloseSlot
<1>4. PICK p \in {"Replace", "Idle"}, r \in CallRecords :
        /\ Fits(p, r) /\ Browse!GotoAndNotify(c, p)
        /\ call' = [call EXCEPT ![c] = r]
        /\ UNCHANGED result \/ result' = [result EXCEPT ![c] = 0]
  BY <1>3
<1>5. p \in Browse!Pcs /\ p \notin Busy
  BY DEF Browse!Pcs, Busy, Opening
<1>6. slots' \in [Browse!Gen -> Browse!Slots]
  BY <1>1, <1>2 DEF Browse!Slots
<1>7. /\ Browse!TypeOK' /\ CallsFit'
      /\ pc'[c] = p /\ call'[c] = r
      /\ \A d \in Browse!Callers : d # c /\ (pc[d] \in Busy \/ pc'[d] \in Busy) =>
           pc'[d] = pc[d] /\ call'[d] = call[d]
      /\ \A d \in Browse!Callers : ~ (call[d].op = "list" /\ result[d] = 0 /\ result'[d] # 0)
  <2>1. sessions' \in [Serials -> 0 .. MaxGen] /\ generation' \in 0 .. MaxGen
    BY <1>1, <1>2
  <2> QED
    BY <1>2, <1>4, <1>5, <1>6, <2>1, BusyStep
<1>8. /\ \A h \in Browse!Gen : h # arc => slots'[h] = slots[h]
      /\ arc \in Browse!Gen => slots'[arc] = Browse!Closed
  BY <1>1, <1>2
<1>9. \A d \in Browse!Callers : pc'[d] \in Busy =>
        d # c /\ pc'[d] = pc[d] /\ call'[d] = call[d]
  BY <1>5, <1>7
<1>10. \A d \in Browse!Callers : pc[d] \in Busy /\ d # c =>
         pc'[d] = pc[d] /\ call'[d] = call[d]
  BY <1>7
<1>11. MapOK'
  <2>1. \A h \in Browse!Gen : h > generation => slots'[h] = Browse!Unborn
    <3>1. arc <= generation /\ arc \in 0 .. MaxGen
      BY <1>1, <1>2 DEF MapOK, CallRecords
    <3> QED
      BY <1>1, <1>8, <3>1 DEF MapOK, Browse!Gen
  <2> QED
    BY <1>1, <1>2, <1>9, <2>1 DEF MapOK, Busy
<1>12. ASSUME NEW h \in Browse!Gen
       PROVE  Browse!HasOwner(h)'
  <2>1. CASE h = arc
    BY <1>8, <2>1 DEF Browse!HasOwner, Browse!IsStarting, Browse!IsLive, Browse!Closed
  <2>2. CASE h # arc
    <3>1. Browse!HasOwner(h) /\ slots'[h] = slots[h]
      BY <1>1, <1>8, <2>2 DEF Owned
    <3>2. (Browse!InHand(h))' <=> Browse!InHand(h)
      BY <1>9, <1>10, <2>2 DEF Browse!InHand, Busy
    <3>3. \A d \in Browse!Callers : pc[d] \in Opening => pc'[d] = pc[d] /\ call'[d] = call[d]
      BY <1>2, <1>10 DEF Busy, Opening
    <3> QED
      BY <1>2, <3>1, <3>2, <3>3 DEF Browse!HasOwner, Browse!IsStarting, Browse!IsLive, Opening
  <2> QED
    BY <2>1, <2>2
<1>13. Lawful
  <2>1. ASSUME NEW h \in Browse!Gen, Browse!IsLive(h), slots'[h] = Browse!Closed
        PROVE  Browse!EndedBy(c, h)
    <3>1. h = arc
      BY <1>8, <2>1 DEF Browse!IsLive, Browse!Closed
    <3>2. call[c].op = "release" => call[c].generation = h
      BY <1>1, <1>2, <3>1 DEF Fits
    <3> QED
      BY <1>2, <3>1, <3>2 DEF Browse!EndedBy
  <2>2. \A h \in Browse!Gen : slots[h] = Browse!Closed => slots'[h] = Browse!Closed
    BY <1>8
  <2> QED
    BY <1>7, <2>1, <2>2 DEF Lawful
<1> QED
  BY <1>7, <1>11, <1>12, <1>13 DEF BrowseInv, Owned

LEMMA BrowseInitially ==
  ASSUME Browse!Init
  PROVE  BrowseInv
<1>1. MaxGen \in Nat \ {0} /\ MaxTool \in Nat \ {0}
  BY DeviceAssumptions DEF Browse!BrowseAssumption
<1>2. Browse!NoCall \in CallRecords /\ "Idle" \in Browse!Pcs
  BY <1>1
  DEF Browse!NoCall, Browse!NewCall, CallRecords, Browse!NoShell, Browse!EXEC_ATTEMPTS,
      Browse!Pcs
<1>3. Browse!TypeOK
  BY <1>1, <1>2 DEF Browse!Init, Browse!TypeOK, CallRecords, Browse!Slots
<1>4. CallsFit
  BY DEF Browse!Init, CallsFit, Fits, AttachPcs, Opening, ListPcs, WaitingPcs
<1>5. MapOK
  BY <1>1 DEF Browse!Init, MapOK, Opening
<1>6. Owned
  BY DEF Browse!Init, Owned, Browse!HasOwner, Browse!IsStarting, Browse!IsLive, Browse!Unborn
<1> QED
  BY <1>3, <1>4, <1>5, <1>6 DEF BrowseInv

LEMMA BrowseKept ==
  ASSUME BrowseInv, Browse!Next
  PROVE  BrowseInv' /\ Lawful
<1>1. PICK c \in Browse!Callers : Browse!Call(c) \/ Browse!Step(c)
  BY DEF Browse!Next
<1>2. CASE Browse!Begin(c)
  <2>1. \/ generation' = generation + 1
        \/ UNCHANGED <<slots, sessions, generation>>
    BY <1>2 DEF Browse!Begin, Browse!slotVars
  <2> QED
    BY <1>2, <2>1, AttachWaits, BeginOpens
<1>3. CASE Browse!RemoveSlot(c)
  BY <1>3, EndersWait, SlotLeaves
<1> QED
  BY <1>1, <1>2, <1>3, CallsStart, AttachWaits, OpenEnds, AttachEnds, SlotLeaves, SlotCloses,
     EndersWait, Lists
  DEF Browse!Step

-----------------------------------------------------------------------------
(* The four invariants hold throughout. A step is of one part, and the     *)
(* invariants of the others do not mention what it changes.                *)

LEMMA ShellAlways == Spec => []ShellInv
<1>1. Init => ShellInv
  BY DeviceAssumptions, ShellInitially DEF Init
<1>2. ShellInv /\ [Next]_vars => ShellInv'
  <2> SUFFICES ASSUME ShellInv, [Next]_vars
               PROVE  ShellInv'
    OBVIOUS
  <2>1. CASE UNCHANGED shellVars
    BY <2>1
    DEF ShellInv, Shell!TypeOK, Handshake, Ready, Turn, Told, Shell!FallbackIsEarned, shellVars
  <2>2. CASE Shell!Next
    BY <2>2, DeviceAssumptions, ShellKept
  <2> QED
    BY <2>1, <2>2 DEF Next, vars
<1> QED
  BY <1>1, <1>2, PTL DEF Spec

LEMMA CatalogAlways == Spec => []CatalogInv
<1>1. Init => CatalogInv
  BY DeviceAssumptions, CatalogInitially DEF Init
<1>2. CatalogInv /\ [Next]_vars => CatalogInv'
  <2> SUFFICES ASSUME CatalogInv, [Next]_vars
               PROVE  CatalogInv'
    OBVIOUS
  <2>1. CASE UNCHANGED catalogVars
    BY <2>1
    DEF CatalogInv, Catalog!TypeOK, Gate, LastTable, Unsent, NoneSent, LastSent, catalogVars
  <2>2. CASE Catalog!Next
    BY <2>2, DeviceAssumptions, CatalogKept
  <2> QED
    BY <2>1, <2>2 DEF Next, vars
<1> QED
  BY <1>1, <1>2, PTL DEF Spec

LEMMA HubAlways == Spec => []HubInv
<1>1. Init => HubInv
  BY DeviceAssumptions, HubInitially DEF Init
<1>2. HubInv /\ [Next]_vars => HubInv'
  <2> SUFFICES ASSUME HubInv, [Next]_vars
               PROVE  HubInv'
    OBVIOUS
  <2>1. CASE UNCHANGED statusVars
    BY <2>1
    DEF HubInv, Hub!TypeOK, SlotsOK, PollersOK, statusVars
  <2>2. CASE Hub!Next
    BY <2>2, DeviceAssumptions, HubKept
  <2> QED
    BY <2>1, <2>2 DEF Next, vars
<1> QED
  BY <1>1, <1>2, PTL DEF Spec

LEMMA BrowseAlways == Spec => []BrowseInv
<1>1. Init => BrowseInv
  BY DeviceAssumptions, BrowseInitially DEF Init
<1>2. BrowseInv /\ [Next]_vars => BrowseInv'
  <2> SUFFICES ASSUME BrowseInv, [Next]_vars
               PROVE  BrowseInv'
    OBVIOUS
  <2>1. CASE UNCHANGED browseVars
    BY <2>1
    DEF BrowseInv, Browse!TypeOK, CallsFit, MapOK, Owned, Browse!HasOwner, Browse!InHand,
        Browse!IsStarting, Browse!IsLive, browseVars
  <2>2. CASE Browse!Next
    BY <2>2, DeviceAssumptions, BrowseKept
  <2> QED
    BY <2>1, <2>2 DEF Next, vars
<1> QED
  BY <1>1, <1>2, PTL DEF Spec

-----------------------------------------------------------------------------
(* The theorems: for any devices, callers and bounds.                      *)

(* Every variable of the four parts has its type.                          *)
THEOREM DeviceTypes == Spec => []TypeOK
<1>1. ShellInv /\ CatalogInv /\ HubInv /\ BrowseInv => TypeOK
  BY DEF ShellInv, CatalogInv, HubInv, BrowseInv, TypeOK
<1> QED
  BY <1>1, ShellAlways, CatalogAlways, HubAlways, BrowseAlways, PTL

(* DeviceShell: an answer is made of lines of its own script, whatever     *)
(* earlier scripts left behind, and single commands are not the fallback   *)
(* for a cancelled or a slow device, nor, if stderr is read in time, for   *)
(* one that went offline. However many turns and lines.                    *)
THEOREM ShellStaysTruthful == Spec => []ShellIsTruthful
<1>1. ShellInv => ShellIsTruthful
  BY DEF ShellInv, Told, ShellIsTruthful, Shell!AnswersAreOwn
<1> QED
  BY <1>1, ShellAlways, PTL

(* DeviceCatalog: with no event on its way the client shows the table of   *)
(* the last scan, for any number of refreshes that race for the gate.      *)
THEOREM ClientShowsCatalog == Spec => []CatalogIsShown
<1>1. CatalogInv => CatalogIsShown
  BY CatalogShows
<1> QED
  BY <1>1, CatalogAlways, PTL

(* StatusHub: a device that is online has one poller that goes on, and     *)
(* every other one has been told to stop, however often devices come back. *)
THEOREM OnePollerEach == Spec => []OnePoller
<1>1. HubInv => OnePoller
  BY HubPolls
<1> QED
  BY <1>1, HubAlways, PTL

(* BrowseSession: a list returns entries of a session nobody has ended, no *)
(* step makes a session leak, and a Live one ends by its own release or    *)
(* because its device went, for any attaches, lists and releases at once.  *)
THEOREM BrowseKeepsSessions == Spec => BrowseKeepsItsSessions
<1>1. BrowseInv /\ BrowseInv' /\ [Next]_vars =>
        [\A c \in Browse!Callers :
           call[c].op = "list" /\ result[c] = 0 /\ result'[c] # 0
             => Browse!IsLive(result'[c])]_Browse!vars
  <2> SUFFICES ASSUME BrowseInv, Browse!Next
               PROVE  Lawful
    BY DEF Next, vars, browseVars, Browse!vars, Browse!slotVars, Lawful
  <2> QED
    BY BrowseKept
<1>2. BrowseInv /\ BrowseInv' /\ [Next]_vars =>
        [\A g \in Browse!Gen :
           /\ Browse!HasOwner(g)'
           /\ Browse!IsLive(g) /\ slots'[g] = Browse!Closed =>
                \E c \in Browse!Callers : Browse!EndedBy(c, g)
           /\ slots[g] = Browse!Closed => slots'[g] = Browse!Closed]_Browse!vars
  <2> SUFFICES ASSUME BrowseInv, Browse!Next
               PROVE  BrowseInv' /\ Lawful
    BY DEF Next, vars, browseVars, Browse!vars, Browse!slotVars, Lawful, BrowseInv, Owned
  <2> QED
    BY BrowseKept
<1> QED
  BY <1>1, <1>2, BrowseAlways, PTL
  DEF Spec, BrowseKeepsItsSessions, Browse!ListIsCurrent, Browse!SessionsKeepOwners
=============================================================================
