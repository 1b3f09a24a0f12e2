-------------------------- MODULE MirrorPath_proofs --------------------------
(***************************************************************************)
(* What MCMirrorPath checks of the way of a picture, for any sizes,        *)
(* numbers and bounds: the frame pipe, the hand on the stage, and the      *)
(* types of all three parts (those of the service and its own theorems are *)
(* in MirrorService_proofs).                                               *)
(***************************************************************************)
EXTENDS MCMirrorPath, MirrorService_proofs, Sequences, FiniteSetTheorems, SequenceTheorems, TLAPS

-----------------------------------------------------------------------------
(* Places in a sequence                                                     *)

(* The places up to one of them, and how many they are.                    *)
UpTo(S, i) == {j \in S : j <= i}

LEMMA Ranks ==
  ASSUME NEW n \in Nat, NEW S \in SUBSET (1 .. n)
  PROVE  /\ IsFiniteSet(S) /\ Cardinality(S) \in Nat /\ Cardinality(S) <= n
         /\ S # 1 .. n => Cardinality(S) < n
         /\ \A i \in S : Cardinality(UpTo(S, i)) \in 1 .. Cardinality(S)
         /\ \A i, k \in S : Cardinality(UpTo(S, i)) = Cardinality(UpTo(S, k)) => i = k
         /\ \A m \in 1 .. Cardinality(S) : \E i \in S : Cardinality(UpTo(S, i)) = m
<1>1. IsFiniteSet(1 .. n) /\ Cardinality(1 .. n) = n
  BY FS_Interval
<1>2. /\ IsFiniteSet(S) /\ Cardinality(S) \in Nat /\ Cardinality(S) <= n
      /\ S # 1 .. n => Cardinality(S) < n
  <2>1. /\ IsFiniteSet(S) /\ Cardinality(S) <= Cardinality(1 .. n)
        /\ Cardinality(1 .. n) = Cardinality(S) => 1 .. n = S
    BY <1>1, FS_Subset
  <2>2. Cardinality(S) \in Nat
    BY <2>1, FS_CardinalityType
  <2> QED
    BY <1>1, <2>1, <2>2
<1>3. ASSUME NEW i \in S
      PROVE  /\ UpTo(S, i) \in SUBSET S /\ IsFiniteSet(UpTo(S, i))
             /\ Cardinality(UpTo(S, i)) \in 1 .. Cardinality(S)
  <2>1. UpTo(S, i) \in SUBSET S /\ i \in UpTo(S, i)
    BY DEF UpTo
  <2>2. /\ IsFiniteSet(UpTo(S, i)) /\ Cardinality(UpTo(S, i)) <= Cardinality(S)
        /\ Cardinality(UpTo(S, i)) \in Nat
    BY <1>2, <2>1, FS_Subset, FS_CardinalityType
  <2>3. Cardinality(UpTo(S, i)) # 0
    BY <2>1, <2>2, FS_EmptySet
  <2> QED
    BY <1>2, <2>1, <2>2, <2>3
<1>4. ASSUME NEW i \in S, NEW k \in S, i < k
      PROVE  Cardinality(UpTo(S, i)) # Cardinality(UpTo(S, k))
  <2>1. UpTo(S, i) \in SUBSET UpTo(S, k) /\ k \in UpTo(S, k) /\ k \notin UpTo(S, i)
    <3>1. \A j \in S : j \in Int
      OBVIOUS
    <3>2. /\ \A j \in S : j <= i => j <= k
          /\ k <= k /\ ~(k <= i)
      BY <1>4, <3>1
    <3> QED
      BY <3>2 DEF UpTo
  <2>2. Cardinality(UpTo(S, k)) = Cardinality(UpTo(S, i)) => UpTo(S, k) = UpTo(S, i)
    BY <1>3, <2>1, FS_Subset
  <2> QED
    BY <2>1, <2>2
<1>5. \A i, k \in S : Cardinality(UpTo(S, i)) = Cardinality(UpTo(S, k)) => i = k
  BY <1>4
<1>6. ASSUME NEW m \in 1 .. Cardinality(S)
      PROVE  \E i \in S : Cardinality(UpTo(S, i)) = m
  <2> DEFINE rank == [i \in S |-> Cardinality(UpTo(S, i))]
             T == 1 .. Cardinality(S)
  <2>1. rank \in [S -> T]
    BY <1>3
  <2>2. rank \in Injection(S, T)
    BY <1>5, <2>1 DEF Injection, IsInjective
  <2>3. IsFiniteSet(T) /\ Cardinality(T) = Cardinality(S)
    BY <1>2, FS_Interval
  <2> HIDE DEF rank, T
  <2>4. rank \in Surjection(S, T)
    BY <2>2, <2>3, FS_Injection
  <2>5. \E i \in S : rank[i] = m
    BY <2>4 DEF Surjection, T
  <2> QED
    BY <2>5 DEF rank
<1> QED
  BY <1>2, <1>3, <1>5, <1>6

(* The operators of the library are those the pipe has.                    *)
LEMMA Counted ==
  \A S : Pipe!Cardinality(S) = Cardinality(S)
BY Zenon DEF Pipe!Cardinality, Cardinality

LEMMA Extremes ==
  ASSUME NEW n \in Nat, NEW S \in SUBSET (1 .. n), S # {}
  PROVE  /\ Pipe!Min(S) \in S /\ \A j \in S : Pipe!Min(S) <= j
         /\ Pipe!Max(S) \in S /\ \A j \in S : j <= Pipe!Max(S)
<1>1. /\ IsFiniteSet(S) /\ Cardinality(S) \in Nat \ {0}
      /\ \A m \in 1 .. Cardinality(S) : \E i \in S : Cardinality(UpTo(S, i)) = m
  BY Ranks, FS_EmptySet
<1>2. \E i \in S : \A j \in S : i <= j
  <2>1. PICK i \in S : Cardinality(UpTo(S, i)) = 1
    BY <1>1
  <2>2. UpTo(S, i) \in SUBSET S /\ i \in UpTo(S, i)
    BY DEF UpTo
  <2>3. IsFiniteSet(UpTo(S, i))
    BY <1>1, <2>2, FS_Subset
  <2>4. \A j \in UpTo(S, i) : j = i
    BY <2>1, <2>2, <2>3, FS_Singleton
  <2>5. \A j \in S : j <= i => j = i
    BY <2>4 DEF UpTo
  <2> QED
    BY <2>5
<1>3. \E i \in S : \A j \in S : j <= i
  <2>1. PICK i \in S : Cardinality(UpTo(S, i)) = Cardinality(S)
    BY <1>1
  <2>2. UpTo(S, i) \in SUBSET S
    BY DEF UpTo
  <2>3. UpTo(S, i) = S
    BY <1>1, <2>1, <2>2, FS_Subset
  <2> QED
    BY <2>3 DEF UpTo
<1> QED
  BY <1>2, <1>3, Zenon DEF Pipe!Min, Pipe!Max

LEMMA Removed ==
  ASSUME NEW S, NEW q \in Seq(S), NEW i \in 1 .. Len(q)
  PROVE  /\ Pipe!RemoveAt(q, i) \in Seq(S) /\ Len(Pipe!RemoveAt(q, i)) = Len(q) - 1
         /\ \A m \in 1 .. Len(q) - 1 :
              Pipe!RemoveAt(q, i)[m] = IF m < i THEN q[m] ELSE q[m + 1]
<1> DEFINE front == SubSeq(q, 1, i - 1)
           back == SubSeq(q, i + 1, Len(q))
<1>1. Len(q) \in Nat /\ i \in Nat /\ i >= 1 /\ i <= Len(q)
  OBVIOUS
<1>2. /\ front \in Seq(S) /\ Len(front) = i - 1
      /\ \A m \in 1 .. i - 1 : front[m] = q[m]
  BY <1>1, SubSeqProperties
<1>3. /\ back \in Seq(S) /\ Len(back) = Len(q) - i
      /\ \A m \in 1 .. Len(q) - i : back[m] = q[i + m]
  BY <1>1, SubSeqProperties
<1> HIDE DEF front, back
<1>4. /\ front \o back \in Seq(S) /\ Len(front \o back) = Len(q) - 1
      /\ \A m \in 1 .. Len(q) - 1 :
           (front \o back)[m] = IF m <= i - 1 THEN front[m] ELSE back[m - (i - 1)]
  <2>1. /\ front \o back \in Seq(S)
        /\ Len(front \o back) = Len(front) + Len(back)
        /\ \A m \in 1 .. Len(front) + Len(back) :
             (front \o back)[m] = IF m <= Len(front) THEN front[m] ELSE back[m - Len(front)]
    BY <1>2, <1>3, ConcatProperties
  <2>2. Len(front) + Len(back) = Len(q) - 1
    BY <1>1, <1>2, <1>3
  <2> QED
    BY <1>2, <2>1, <2>2
<1>5. \A m \in 1 .. Len(q) - 1 : (front \o back)[m] = IF m < i THEN q[m] ELSE q[m + 1]
  <2> SUFFICES ASSUME NEW m \in 1 .. Len(q) - 1
               PROVE  (front \o back)[m] = IF m < i THEN q[m] ELSE q[m + 1]
    OBVIOUS
  <2>1. CASE m < i
    BY <1>1, <1>2, <1>4, <2>1
  <2>2. CASE m >= i
    <3>1. m - (i - 1) \in 1 .. Len(q) - i /\ i + (m - (i - 1)) = m + 1
      BY <1>1, <2>2
    <3>2. back[m - (i - 1)] = q[i + (m - (i - 1))]
      BY <1>3, <3>1
    <3> QED
      BY <1>1, <1>4, <2>2, <3>1, <3>2
  <2>3. m < i \/ m >= i
    BY <1>1
  <2> QED
    BY <2>1, <2>2, <2>3
<1> QED
  BY <1>4, <1>5 DEF Pipe!RemoveAt, front, back

LEMMA Appended ==
  ASSUME NEW S, NEW q \in Seq(S), NEW e \in S
  PROVE  /\ Append(q, e) \in Seq(S) /\ Len(Append(q, e)) = Len(q) + 1 /\ Len(q) \in Nat
         /\ \A i \in 1 .. Len(q) : Append(q, e)[i] = q[i]
         /\ Append(q, e)[Len(q) + 1] = e
  OBVIOUS

LEMMA Received ==
  ASSUME NEW S, NEW q \in Seq(S), q # <<>>
  PROVE  /\ Head(q) = q[1] /\ Head(q) \in S /\ Len(q) \in Nat \ {0}
         /\ Tail(q) \in Seq(S) /\ Len(Tail(q)) = Len(q) - 1
         /\ \A i \in 1 .. Len(Tail(q)) : Tail(q)[i] = q[i + 1]
  OBVIOUS

-----------------------------------------------------------------------------
(* FramePipe: what is left of a full queue                                  *)

LEMMA KeptFrames ==
  ASSUME queue \in Seq(Pipe!Frames), NEW S \in SUBSET (1 .. Len(queue))
  PROVE  /\ Pipe!Kept(S) \in Seq(Pipe!Frames) /\ Len(Pipe!Kept(S)) = Cardinality(S)
         /\ \A m \in 1 .. Cardinality(S) : \E i \in 1 .. Len(queue) : Pipe!Kept(S)[m] = queue[i]
         /\ \A i \in S : \E m \in 1 .. Cardinality(S) : Pipe!Kept(S)[m] = queue[i]
<1> DEFINE at(m) == CHOOSE i \in S : Pipe!Cardinality({j \in S : j <= i}) = m
<1>1. Len(queue) \in Nat
  OBVIOUS
<1>2. Pipe!Kept(S) = [m \in 1 .. Cardinality(S) |-> queue[at(m)]]
  BY Counted DEF Pipe!Kept
<1>3. \A m \in 1 .. Cardinality(S) : at(m) \in S /\ Cardinality(UpTo(S, at(m))) = m
  <2> SUFFICES ASSUME NEW m \in 1 .. Cardinality(S)
               PROVE  at(m) \in S /\ Cardinality(UpTo(S, at(m))) = m
    OBVIOUS
  <2>1. PICK i \in S : Cardinality(UpTo(S, i)) = m
    BY <1>1, Ranks
  <2>2. Pipe!Cardinality({j \in S : j <= i}) = m
    BY <2>1, Counted DEF UpTo
  <2>3. at(m) \in S /\ Pipe!Cardinality({j \in S : j <= at(m)}) = m
    BY <2>2, Zenon
  <2> QED
    BY <2>3, Counted DEF UpTo
<1> HIDE DEF at
<1>4. ASSUME NEW i \in S
      PROVE  Cardinality(UpTo(S, i)) \in 1 .. Cardinality(S) /\ at(Cardinality(UpTo(S, i))) = i
  <2> DEFINE m == Cardinality(UpTo(S, i))
  <2>1. m \in 1 .. Cardinality(S)
    BY <1>1, Ranks
  <2>2. at(m) \in S /\ Cardinality(UpTo(S, at(m))) = Cardinality(UpTo(S, i))
    BY <1>3, <2>1
  <2> HIDE DEF m
  <2>3. at(m) = i
    BY <1>1, <2>2, Ranks
  <2> QED
    BY <2>1, <2>3 DEF m
<1>5. Cardinality(S) \in Nat
  BY <1>1, Ranks
<1>6. \A m \in 1 .. Cardinality(S) : queue[at(m)] \in Pipe!Frames
  <2>1. \A i \in 1 .. Len(queue) : queue[i] \in Pipe!Frames
    OBVIOUS
  <2> QED
    BY <1>3, <2>1
<1>7. Pipe!Kept(S) \in Seq(Pipe!Frames) /\ Len(Pipe!Kept(S)) = Cardinality(S)
  BY <1>2, <1>5, <1>6
<1> QED
  BY <1>2, <1>3, <1>4, <1>7

(* Fewer frames are left, all of them were there, and all keyframes stay   *)
(* but for another one.                                                    *)
LEMMA Evicted ==
  ASSUME queue \in Seq(Pipe!Frames), queue # <<>>, NEW f, f.kind \in {"delta", "keyframe"},
         NEW left, left = Pipe!evict_for(f), left # queue
  PROVE  /\ left \in Seq(Pipe!Frames) /\ Len(left) < Len(queue)
         /\ \A m \in 1 .. Len(left) : \E i \in 1 .. Len(queue) : left[m] = queue[i]
         /\ f.kind = "delta" =>
              \A i \in 1 .. Len(queue) : queue[i].kind = "keyframe" =>
                \E m \in 1 .. Len(left) : left[m] = queue[i]
<1> DEFINE deltas == Pipe!Places("delta")
           keys == Pipe!Places("keyframe")
<1>1. /\ Len(queue) \in Nat
      /\ deltas \in SUBSET (1 .. Len(queue)) /\ keys \in SUBSET (1 .. Len(queue))
      /\ \A i \in 1 .. Len(queue) : queue[i] \in Pipe!Frames
  BY DEF Pipe!Places
<1>2. /\ \A i \in 1 .. Len(queue) : i \in deltas <=> queue[i].kind = "delta"
      /\ \A i \in 1 .. Len(queue) : i \in keys <=> queue[i].kind = "keyframe"
  BY DEF Pipe!Places
<1>3. \/ f.kind = "keyframe" /\ deltas # {} /\ left = Pipe!Kept(keys)
      \/ f.kind = "keyframe" /\ deltas = {} /\ left = Pipe!RemoveAt(queue, Pipe!Min(keys))
      \/ f.kind = "delta" /\ deltas # {} /\ left = Pipe!RemoveAt(queue, Pipe!Min(deltas))
      \/ left = queue
  BY DEF Pipe!evict_for, Pipe!IsKeyframe, Pipe!IsDelta
<1> HIDE DEF deltas, keys
<1>4. CASE f.kind = "keyframe" /\ deltas # {} /\ left = Pipe!Kept(keys)
  <2>1. PICK i \in 1 .. Len(queue) : queue[i].kind = "delta"
    BY <1>1, <1>2, <1>4
  <2>2. keys # 1 .. Len(queue)
    BY <1>2, <2>1
  <2>3. Cardinality(keys) < Len(queue)
    BY <1>1, <2>2, Ranks
  <2> QED
    BY <1>1, <1>4, <2>3, KeptFrames
<1>5. ASSUME NEW S \in SUBSET (1 .. Len(queue)), S # {},
             left = Pipe!RemoveAt(queue, Pipe!Min(S))
      PROVE  /\ left \in Seq(Pipe!Frames) /\ Len(left) < Len(queue)
             /\ \A m \in 1 .. Len(left) : \E i \in 1 .. Len(queue) : left[m] = queue[i]
             /\ \A i \in 1 .. Len(queue) : i # Pipe!Min(S) =>
                  \E m \in 1 .. Len(left) : left[m] = queue[i]
  <2> DEFINE k == Pipe!Min(S)
  <2>1. k \in S
    BY <1>1, <1>5, Extremes
  <2>2. k \in 1 .. Len(queue) /\ left = Pipe!RemoveAt(queue, k)
    BY <1>5, <2>1
  <2> HIDE DEF k
  <2>3. /\ left \in Seq(Pipe!Frames) /\ Len(left) = Len(queue) - 1
        /\ \A m \in 1 .. Len(queue) - 1 : left[m] = IF m < k THEN queue[m] ELSE queue[m + 1]
    BY <2>2, Removed
  <2>4. \A m \in 1 .. Len(left) : \E i \in 1 .. Len(queue) : left[m] = queue[i]
    BY <1>1, <2>2, <2>3
  <2>5. ASSUME NEW i \in 1 .. Len(queue), i # k
        PROVE  \E m \in 1 .. Len(left) : left[m] = queue[i]
    <3>1. CASE i < k
      BY <1>1, <2>2, <2>3, <3>1
    <3>2. CASE i > k
      <4>1. i - 1 \in 1 .. Len(left) /\ ~(i - 1 < k) /\ (i - 1) + 1 = i
        BY <1>1, <2>2, <2>3, <3>2
      <4> QED
        BY <2>3, <4>1
    <3> QED
      BY <1>1, <2>2, <2>5, <3>1, <3>2
  <2> QED
    BY <1>1, <2>3, <2>4, <2>5 DEF k
<1>6. CASE f.kind = "keyframe" /\ deltas = {} /\ left = Pipe!RemoveAt(queue, Pipe!Min(keys))
  <2>1. 1 \in 1 .. Len(queue)
    BY <1>1
  <2>2. queue[1].kind \in {"delta", "keyframe"}
    BY <1>1, <2>1 DEF Pipe!Frames
  <2>3. keys # {}
    BY <1>2, <1>6, <2>1, <2>2
  <2> QED
    BY <1>1, <1>5, <1>6, <2>3
<1>7. CASE f.kind = "delta" /\ deltas # {} /\ left = Pipe!RemoveAt(queue, Pipe!Min(deltas))
  <2>1. Pipe!Min(deltas) \in deltas
    BY <1>1, <1>7, Extremes
  <2> QED
    BY <1>1, <1>2, <1>5, <1>7, <2>1
<1> QED
  BY <1>3, <1>4, <1>6, <1>7

-----------------------------------------------------------------------------
(* FramePipe: the configs                                                   *)

ConfigPcs == {"PopConfig", "LastConfig", "DrainConfig"}
QueuePcs == {"PopQueue", "LastQueue", "DrainQueue"}
DrainPcs == {"Drain", "DrainConfig", "DrainQueue", "Ingest"}

Items == Pipe!Frames \cup {Pipe!Config(c) : c \in 1 .. MaxConfig}

(* The config whose push is over.                                          *)
Settled == IF pump = "Read" THEN config ELSE config - 1

(* The config a decoder gets that starts with one and is fed these.        *)
IsLatest(items, start, c) ==
  \/ c = start /\ \A i \in 1 .. Len(items) : ~Pipe!IsConfig(items[i])
  \/ \E i \in 1 .. Len(items) :
       /\ Pipe!IsConfig(items[i]) /\ items[i].config = c
       /\ \A j \in 1 .. Len(items) : j > i => ~Pipe!IsConfig(items[j])

(* The frames of a queue or a batch are numbered and have a config.        *)
ArePushed(items) ==
  \A i \in 1 .. Len(items) :
    ~Pipe!IsConfig(items[i]) => items[i].pts <= pts /\ items[i].config <= Settled

HaveConfig(items, c) ==
  \A i \in 1 .. Len(items) : ~Pipe!IsConfig(items[i]) => items[i].config <= c

SeatAndPump ==
  /\ last_config = config
  /\ pump = "SetPending" \/ pending_config \/ seat \in ConfigPcs => config > 0
  /\ seat = "None" => batch = <<>>
  /\ seat \in DrainPcs => batch # <<>>

FramesArePushed ==
  /\ droppedFrames + Len(queue) <= pts
  /\ ArePushed(queue) /\ ArePushed(batch)

(* A config the seat has not got is still to be picked up by it, and what  *)
(* it feeds without looking again was there when it looked.                *)
ConfigComes ==
  seat # "None" /\ ~pending_config /\ seat \notin ConfigPcs =>
    \A c \in 0 .. MaxConfig : IsLatest(batch, seatConfig, c) => Settled <= c

BatchHasConfig ==
  seat \in {"DrainQueue", "Ingest"} =>
    \A c \in 0 .. MaxConfig : IsLatest(batch, seatConfig, c) => HaveConfig(batch, c)

PipeInv ==
  /\ Pipe!TypeOK /\ SeatAndPump /\ FramesArePushed /\ ConfigComes /\ BatchHasConfig
  /\ Pipe!ConfigIsNotOlder

LEMMA PipeInitially ==
  ASSUME Pipe!PipeAssumption, Pipe!Init
  PROVE  PipeInv
<1> USE DEF Pipe!Init, Pipe!None
<1>1. Len(queue) = 0 /\ Len(batch) = 0
  OBVIOUS
<1>2. /\ queue \in Seq(Pipe!Frames)
      /\ batch \in Seq(Pipe!Frames \cup {Pipe!Config(c) : c \in 1 .. MaxConfig})
  OBVIOUS
<1>3. Pipe!TypeOK
  <2>1. /\ last_config \in 0 .. MaxConfig /\ config \in 0 .. MaxConfig
        /\ seatConfig \in 0 .. MaxConfig
        /\ droppedFrames \in 0 .. MaxPts /\ pts \in 0 .. MaxPts
        /\ Len(queue) <= QUEUE_CAP
    BY <1>1 DEF Pipe!PipeAssumption
  <2>2. /\ pending_config \in BOOLEAN /\ closed \in BOOLEAN /\ permit \in BOOLEAN
        /\ pump \in {"Read", "SetPending"} /\ seat = "None"
    OBVIOUS
  <2>3. fed \subseteq [with : 0 .. MaxConfig, own : 1 .. MaxConfig]
    OBVIOUS
  <2> QED
    BY <1>2, <2>1, <2>2, <2>3 DEF Pipe!TypeOK
<1>4. SeatAndPump /\ FramesArePushed
  BY <1>1 DEF SeatAndPump, FramesArePushed, ArePushed, ConfigPcs, DrainPcs
<1>5. ConfigComes /\ BatchHasConfig /\ Pipe!ConfigIsNotOlder
  BY DEF ConfigComes, BatchHasConfig, Pipe!ConfigIsNotOlder
<1> QED
  BY <1>3, <1>4, <1>5 DEF PipeInv

(* A frame more changes nothing, a config more everything.                 *)
LEMMA OneMore ==
  ASSUME NEW items \in Seq(Items), NEW e \in Items, NEW start, NEW c,
         IsLatest(Append(items, e), start, c)
  PROVE  /\ ~Pipe!IsConfig(e) => IsLatest(items, start, c)
         /\ Pipe!IsConfig(e) => c = e.config
<1>1. /\ Len(items) \in Nat /\ Len(Append(items, e)) = Len(items) + 1
      /\ \A i \in 1 .. Len(items) : Append(items, e)[i] = items[i]
      /\ Append(items, e)[Len(items) + 1] = e
  BY Appended
<1>2. CASE ~Pipe!IsConfig(e)
  <2>1. CASE c = start /\ \A i \in 1 .. Len(items) + 1 : ~Pipe!IsConfig(Append(items, e)[i])
    BY <1>1, <1>2, <2>1 DEF IsLatest
  <2>2. CASE \E i \in 1 .. Len(items) + 1 :
               /\ Pipe!IsConfig(Append(items, e)[i]) /\ Append(items, e)[i].config = c
               /\ \A j \in 1 .. Len(items) + 1 : j > i => ~Pipe!IsConfig(Append(items, e)[j])
    <3>1. PICK i \in 1 .. Len(items) + 1 :
            /\ Pipe!IsConfig(Append(items, e)[i]) /\ Append(items, e)[i].config = c
            /\ \A j \in 1 .. Len(items) + 1 : j > i => ~Pipe!IsConfig(Append(items, e)[j])
      BY <2>2
    <3>2. i # Len(items) + 1
      BY <1>1, <1>2, <3>1
    <3>3. i \in 1 .. Len(items)
      BY <1>1, <3>2
    <3>4. /\ Pipe!IsConfig(items[i]) /\ items[i].config = c
          /\ \A j \in 1 .. Len(items) : j > i => ~Pipe!IsConfig(items[j])
      BY <1>1, <3>1, <3>3
    <3> QED
      BY <1>2, <3>3, <3>4 DEF IsLatest
  <2> QED
    BY <1>1, <2>1, <2>2 DEF IsLatest
<1>3. CASE Pipe!IsConfig(e)
  <2>1. Len(items) + 1 \in 1 .. Len(items) + 1
    BY <1>1
  <2>2. PICK i \in 1 .. Len(items) + 1 :
          /\ Append(items, e)[i].config = c
          /\ \A j \in 1 .. Len(items) + 1 : j > i => ~Pipe!IsConfig(Append(items, e)[j])
    BY <1>1, <1>3, <2>1 DEF IsLatest
  <2>3. i = Len(items) + 1
    BY <1>1, <1>3, <2>1, <2>2
  <2> QED
    BY <1>1, <1>3, <2>2, <2>3
<1> QED
  BY <1>2, <1>3

(* What was there keeps its number and its config, and so does one more.   *)
LEMMA StillPushed ==
  ASSUME NEW items, NEW others, ArePushed(items),
         \A m \in 1 .. Len(others) : \E i \in 1 .. Len(items) : others[m] = items[i]
  PROVE  ArePushed(others)
BY DEF ArePushed

LEMMA OneMorePushed ==
  ASSUME NEW items \in Seq(Items), NEW e \in Items, ArePushed(items),
         ~Pipe!IsConfig(e) => e.pts <= pts /\ e.config <= Settled
  PROVE  ArePushed(Append(items, e))
<1>1. /\ Len(items) \in Nat /\ Len(Append(items, e)) = Len(items) + 1
      /\ \A i \in 1 .. Len(items) : Append(items, e)[i] = items[i]
      /\ Append(items, e)[Len(items) + 1] = e
  BY Appended
<1>2. \A i \in 1 .. Len(items) + 1 : i \in 1 .. Len(items) \/ i = Len(items) + 1
  BY <1>1
<1> QED
  BY <1>1, <1>2 DEF ArePushed

LEMMA PipeTypes ==
  ASSUME Pipe!PipeAssumption, PipeInv
  PROVE  /\ QUEUE_CAP \in Nat \ {0} /\ MaxPts \in Nat /\ MaxConfig \in Nat \ {0}
         /\ config \in Nat /\ config <= MaxConfig /\ pts \in Nat /\ pts <= MaxPts
         /\ pump \in {"Read", "SetPending"} /\ Settled \in Nat /\ Settled <= config
         /\ queue \in Seq(Pipe!Frames) /\ Len(queue) \in Nat /\ batch \in Seq(Items)
         /\ queue \in Seq(Items) /\ Pipe!Frames \in SUBSET Items
         /\ \A f \in Pipe!Frames : ~Pipe!IsConfig(f)
<1>1. Pipe!TypeOK /\ SeatAndPump
  BY DEF PipeInv
<1>2. /\ config \in Nat /\ config <= MaxConfig /\ pts \in Nat /\ pts <= MaxPts
      /\ pump \in {"Read", "SetPending"}
      /\ QUEUE_CAP \in Nat \ {0} /\ MaxPts \in Nat /\ MaxConfig \in Nat \ {0}
  <2>1. QUEUE_CAP \in Nat \ {0} /\ MaxPts \in Nat /\ MaxConfig \in Nat \ {0}
    BY DEF Pipe!PipeAssumption
  <2>2. config \in 0 .. MaxConfig /\ pts \in 0 .. MaxPts /\ pump \in {"Read", "SetPending"}
    BY <1>1 DEF Pipe!TypeOK
  <2> QED
    BY <2>1, <2>2
<1>3. Settled \in Nat /\ Settled <= config
  BY <1>1, <1>2 DEF SeatAndPump, Settled
<1>4. /\ queue \in Seq(Pipe!Frames) /\ Len(queue) \in Nat /\ batch \in Seq(Items)
      /\ Pipe!Frames \in SUBSET Items
  BY <1>1 DEF Pipe!TypeOK, Items
<1>5. queue \in Seq(Items)
  BY <1>4
<1>6. \A f \in Pipe!Frames : ~Pipe!IsConfig(f)
  BY DEF Pipe!Frames, Pipe!IsConfig
<1> QED
  BY <1>2, <1>3, <1>4, <1>5, <1>6

(* What the pump does leaves the seat where it is, or wakes it.            *)
LEMMA PushConfigKeepsPipe ==
  ASSUME Pipe!PipeAssumption, PipeInv, Pipe!PushConfig \/ Pipe!SetPending
  PROVE  PipeInv'
<1>1. /\ Pipe!TypeOK /\ SeatAndPump /\ FramesArePushed /\ ConfigComes /\ BatchHasConfig
      /\ Pipe!ConfigIsNotOlder
  BY DEF PipeInv
<1>2. UNCHANGED <<queue, droppedFrames, closed, pts, batch, seatConfig, fed>>
  BY DEF Pipe!PushConfig, Pipe!SetPending, Pipe!seatVars
<1>3. /\ seat' = seat \/ (seat = "Asleep" /\ seat' = "Pop")
      /\ permit' \in BOOLEAN
  BY <1>1 DEF Pipe!PushConfig, Pipe!SetPending, Pipe!NotifyOne, Pipe!TypeOK
<1>4. /\ config' \in 0 .. MaxConfig /\ last_config' = config' /\ Settled' >= Settled
      /\ pump' \in {"Read", "SetPending"} /\ pending_config' \in BOOLEAN
      /\ config' > 0
  <2>1. CASE Pipe!PushConfig
    <3>1. /\ pump = "Read" /\ pump' = "SetPending" /\ config < MaxConfig /\ config' = config + 1
          /\ last_config' = config' /\ UNCHANGED pending_config
      BY <2>1 DEF Pipe!PushConfig
    <3>2. pending_config' \in BOOLEAN
      BY <1>1, <3>1 DEF Pipe!TypeOK
    <3>3. config' \in 0 .. MaxConfig /\ config' > 0 /\ Settled' = Settled
      BY <3>1, PipeTypes DEF Settled
    <3> QED
      BY <3>1, <3>2, <3>3, PipeTypes
  <2>2. CASE Pipe!SetPending
    <3>1. /\ pump = "SetPending" /\ pump' = "Read" /\ pending_config' = TRUE
          /\ UNCHANGED <<config, last_config>>
      BY <2>2 DEF Pipe!SetPending
    <3>2. config > 0 /\ last_config = config
      BY <1>1, <3>1 DEF SeatAndPump
    <3> QED
      BY <3>1, <3>2, PipeTypes DEF Settled
  <2> QED
    BY <2>1, <2>2
<1>5. Settled' > Settled => pending_config'
  BY PipeTypes DEF Pipe!PushConfig, Pipe!SetPending, Settled
<1>6. pending_config => pending_config'
  BY DEF Pipe!PushConfig, Pipe!SetPending
<1>7. Pipe!TypeOK'
  BY <1>1, <1>2, <1>3, <1>4 DEF Pipe!TypeOK
<1>8. SeatAndPump'
  BY <1>1, <1>2, <1>3, <1>4 DEF SeatAndPump, ConfigPcs, DrainPcs
<1>9. FramesArePushed'
  <2>1. \A f \in Items : ~Pipe!IsConfig(f) /\ f.config <= Settled => f.config <= Settled'
    <3>1. \A f \in Items : ~Pipe!IsConfig(f) => f.config \in Nat
      BY DEF Items, Pipe!Frames, Pipe!IsConfig, Pipe!Config
    <3> QED
      BY <1>4, <3>1, <1>2, PipeTypes DEF Settled
  <2>2. ASSUME NEW items \in Seq(Items), ArePushed(items), items' = items
        PROVE  ArePushed(items)'
    <3>1. \A i \in 1 .. Len(items) : items[i] \in Items
      OBVIOUS
    <3> QED
      BY <1>2, <2>1, <2>2, <3>1 DEF ArePushed
  <2> QED
    BY <1>1, <1>2, <2>2, PipeTypes DEF FramesArePushed
<1>10. ConfigComes'
  <2>1. CASE Settled' = Settled
    BY <1>1, <1>2, <1>3, <1>6, <2>1 DEF ConfigComes, IsLatest, ConfigPcs
  <2>2. CASE pending_config'
    BY <2>2 DEF ConfigComes
  <2> QED
    BY <1>4, <1>5, <2>1, <2>2, PipeTypes DEF Settled
<1>11. BatchHasConfig' /\ Pipe!ConfigIsNotOlder'
  BY <1>1, <1>2, <1>3 DEF BatchHasConfig, IsLatest, HaveConfig, Pipe!ConfigIsNotOlder
<1> QED
  BY <1>7, <1>8, <1>9, <1>10, <1>11 DEF PipeInv

LEMMA PushFrameKeepsPipe ==
  ASSUME Pipe!PipeAssumption, PipeInv, Pipe!PushFrame
  PROVE  PipeInv' /\ Pipe!KeyframesStay
<1>1. /\ Pipe!TypeOK /\ SeatAndPump /\ FramesArePushed /\ ConfigComes /\ BatchHasConfig
      /\ Pipe!ConfigIsNotOlder
  BY DEF PipeInv
<1>2. /\ UNCHANGED <<last_config, pending_config, closed, pump, config, batch, seatConfig, fed>>
      /\ pump = "Read" /\ pts < MaxPts /\ config > 0 /\ pts' = pts + 1
  BY DEF Pipe!PushFrame, Pipe!seatVars
<1>3. PICK kind \in {"delta", "keyframe"} :
        LET f == [kind |-> kind, pts |-> pts', config |-> config]
            left == Pipe!evict_for(f)
        IN
        \/ /\ ~Pipe!Full
           /\ queue' = Append(queue, f)
           /\ Pipe!NotifyOne /\ UNCHANGED droppedFrames
        \/ /\ Pipe!Full /\ left # queue
           /\ queue' = Append(left, f)
           /\ droppedFrames' = droppedFrames + Pipe!lost(queue, left)
           /\ Pipe!NotifyOne
        \/ /\ Pipe!Full /\ left = queue
           /\ droppedFrames' = droppedFrames + Pipe!lost(queue, left)
           /\ UNCHANGED <<queue, permit, seat>>
  BY DEF Pipe!PushFrame
<1> DEFINE f == [kind |-> kind, pts |-> pts', config |-> config]
           left == Pipe!evict_for(f)
<1>4. f \in Pipe!Frames /\ f.kind = kind /\ f.pts = pts + 1 /\ f.config = config
  BY <1>2, PipeTypes DEF Pipe!Frames
<1>5. /\ seat' = seat \/ (seat = "Asleep" /\ seat' = "Pop")
      /\ permit' \in BOOLEAN
  BY <1>1, <1>3 DEF Pipe!NotifyOne, Pipe!TypeOK
<1>6. \/ ~Pipe!Full /\ queue' = Append(queue, f) /\ droppedFrames' = droppedFrames
      \/ /\ Pipe!Full /\ left # queue /\ queue' = Append(left, f)
         /\ droppedFrames' = droppedFrames + Pipe!lost(queue, left)
      \/ /\ Pipe!Full /\ left = queue /\ queue' = queue
         /\ droppedFrames' = droppedFrames + Pipe!lost(queue, left)
  BY <1>3
<1> HIDE DEF f, left
<1>7. /\ Settled' = Settled /\ Settled = config
      /\ droppedFrames \in Nat /\ droppedFrames + Len(queue) <= pts /\ Len(queue) <= QUEUE_CAP
      /\ \A items : ArePushed(items) <=> \A i \in 1 .. Len(items) :
           ~Pipe!IsConfig(items[i]) => items[i].pts <= pts /\ items[i].config <= Settled
  BY <1>1, <1>2 DEF Settled, FramesArePushed, ArePushed, Pipe!TypeOK
<1>8. ArePushed(batch)'
  <2>1. \A g \in Items : ~Pipe!IsConfig(g) /\ g.pts <= pts => g.pts <= pts'
    <3>1. \A g \in Items : ~Pipe!IsConfig(g) => g.pts \in Nat
      BY DEF Items, Pipe!Frames, Pipe!IsConfig, Pipe!Config
    <3> QED
      BY <1>2, <3>1, PipeTypes
  <2>2. \A i \in 1 .. Len(batch) : batch[i] \in Items
    BY PipeTypes
  <2> QED
    BY <1>1, <1>2, <1>7, <2>1, <2>2 DEF ArePushed, FramesArePushed
<1>9. \A i \in 1 .. Len(queue) :
        /\ queue[i] \in Pipe!Frames /\ queue[i].pts \in Nat /\ queue[i].pts <= pts
        /\ queue[i].config <= Settled
  <2>1. \A g \in Pipe!Frames : g.pts \in Nat
    BY DEF Pipe!Frames
  <2>2. \A i \in 1 .. Len(queue) : queue[i] \in Pipe!Frames
    BY PipeTypes
  <2> QED
    BY <1>1, <2>1, <2>2, PipeTypes DEF ArePushed, FramesArePushed
<1>10. ASSUME queue' \in Seq(Pipe!Frames), Len(queue') <= QUEUE_CAP, droppedFrames' \in Nat,
              droppedFrames' + Len(queue') <= pts',
              \A m \in 1 .. Len(queue') :
                queue'[m] = f \/ \E i \in 1 .. Len(queue) : queue'[m] = queue[i]
       PROVE  PipeInv'
  <2>1. Pipe!TypeOK'
    <3>1. pts' \in 0 .. MaxPts /\ droppedFrames' \in 0 .. MaxPts
      <4>1. pts' \in 0 .. MaxPts /\ Len(queue') \in Nat
        BY <1>2, <1>10, PipeTypes
      <4> QED
        BY <1>10, <4>1, PipeTypes
    <3> QED
      BY <1>1, <1>2, <1>5, <1>10, <3>1 DEF Pipe!TypeOK
  <2>2. SeatAndPump'
    BY <1>1, <1>2, <1>5 DEF SeatAndPump, ConfigPcs, DrainPcs
  <2>3. ArePushed(queue)'
    <3> SUFFICES ASSUME NEW m \in 1 .. Len(queue')
                 PROVE  queue'[m].pts <= pts' /\ queue'[m].config <= Settled'
      BY DEF ArePushed
    <3>1. CASE queue'[m] = f
      BY <1>2, <1>4, <1>7, <3>1, PipeTypes
    <3>2. CASE \E i \in 1 .. Len(queue) : queue'[m] = queue[i]
      <4>1. PICK i \in 1 .. Len(queue) : queue'[m] = queue[i]
        BY <3>2
      <4> QED
        BY <1>2, <1>7, <1>9, <4>1, PipeTypes
    <3> QED
      BY <1>10, <3>1, <3>2
  <2>4. FramesArePushed'
    BY <1>8, <1>10, <2>3 DEF FramesArePushed
  <2>5. ConfigComes' /\ BatchHasConfig' /\ Pipe!ConfigIsNotOlder'
    BY <1>1, <1>2, <1>5, <1>7
      DEF ConfigComes, BatchHasConfig, IsLatest, HaveConfig, Pipe!ConfigIsNotOlder, ConfigPcs
  <2> QED
    BY <2>1, <2>2, <2>4, <2>5 DEF PipeInv
<1>11. ASSUME NEW l \in Seq(Pipe!Frames), Len(l) <= Len(queue), Len(l) < QUEUE_CAP,
              queue' = Append(l, f),
              droppedFrames' = droppedFrames + (Len(queue) - Len(l)),
              \A m \in 1 .. Len(l) : \E i \in 1 .. Len(queue) : l[m] = queue[i],
              kind = "delta" => \A i \in 1 .. Len(queue) : queue[i].kind = "keyframe" =>
                                  \E m \in 1 .. Len(l) : l[m] = queue[i]
       PROVE  PipeInv' /\ Pipe!KeyframesStay
  <2>1. /\ queue' \in Seq(Pipe!Frames) /\ Len(queue') = Len(l) + 1 /\ Len(l) \in Nat
        /\ \A m \in 1 .. Len(l) : queue'[m] = l[m]
        /\ queue'[Len(l) + 1] = f
    BY <1>4, <1>11, Appended
  <2>2. \A m \in 1 .. Len(queue') : m \in 1 .. Len(l) \/ m = Len(l) + 1
    BY <2>1
  <2>3. \A m \in 1 .. Len(queue') :
          queue'[m] = f \/ \E i \in 1 .. Len(queue) : queue'[m] = queue[i]
    BY <1>11, <2>1, <2>2
  <2>4. /\ Len(queue') <= QUEUE_CAP /\ droppedFrames' \in Nat
        /\ droppedFrames' + Len(queue') <= pts'
    BY <1>2, <1>7, <1>11, <2>1, PipeTypes
  <2>5. PipeInv'
    BY <1>10, <2>1, <2>3, <2>4
  <2>6. Pipe!KeyframesStay
    <3> SUFFICES ASSUME NEW i \in 1 .. Len(queue), queue[i].kind = "keyframe",
                        \A j \in 1 .. Len(queue') : queue'[j] # queue[i]
                 PROVE  \E j \in 1 .. Len(queue') :
                          queue'[j].kind = "keyframe" /\ queue'[j].pts > queue[i].pts
      BY DEF Pipe!KeyframesStay, Pipe!IsKeyframe
    <3>1. kind = "keyframe"
      <4>1. ASSUME kind = "delta"
            PROVE  FALSE
        <5>1. PICK m \in 1 .. Len(l) : l[m] = queue[i]
          BY <1>11, <4>1
        <5>2. m \in 1 .. Len(queue') /\ queue'[m] = queue[i]
          BY <2>1, <5>1
        <5> QED
          BY <5>2
      <4> QED
        BY <4>1
    <3>2. Len(l) + 1 \in 1 .. Len(queue')
      BY <2>1
    <3>3. queue'[Len(l) + 1].kind = "keyframe" /\ queue'[Len(l) + 1].pts > queue[i].pts
      BY <1>4, <1>9, <2>1, <3>1, PipeTypes
    <3> QED
      BY <3>2, <3>3
  <2> QED
    BY <2>5, <2>6
<1>12. CASE ~Pipe!Full /\ queue' = Append(queue, f) /\ droppedFrames' = droppedFrames
  <2>1. Len(queue) < QUEUE_CAP /\ droppedFrames' = droppedFrames + (Len(queue) - Len(queue))
    BY <1>7, <1>12, PipeTypes DEF Pipe!Full
  <2> QED
    BY <1>11, <1>12, <2>1, PipeTypes
<1>13. CASE /\ Pipe!Full /\ left # queue /\ queue' = Append(left, f)
            /\ droppedFrames' = droppedFrames + Pipe!lost(queue, left)
  <2>1. queue # <<>>
    BY <1>13, PipeTypes DEF Pipe!Full
  <2>2. /\ left \in Seq(Pipe!Frames) /\ Len(left) < Len(queue)
        /\ \A m \in 1 .. Len(left) : \E i \in 1 .. Len(queue) : left[m] = queue[i]
        /\ kind = "delta" => \A i \in 1 .. Len(queue) : queue[i].kind = "keyframe" =>
                                \E m \in 1 .. Len(left) : left[m] = queue[i]
    BY <1>4, <1>13, <2>1, Evicted, PipeTypes DEF left
  <2>3. Len(left) \in Nat
    BY <2>2
  <2>4. Len(left) <= Len(queue) /\ Len(left) < QUEUE_CAP
    BY <1>7, <2>2, <2>3, PipeTypes
  <2>5. droppedFrames' = droppedFrames + (Len(queue) - Len(left))
    BY <1>13 DEF Pipe!lost
  <2> QED
    BY <1>11, <1>13, <2>2, <2>4, <2>5
<1>14. CASE /\ Pipe!Full /\ left = queue /\ queue' = queue
            /\ droppedFrames' = droppedFrames + Pipe!lost(queue, left)
  <2>1. droppedFrames' = droppedFrames + 1
    BY <1>14 DEF Pipe!lost
  <2>2. PipeInv'
    <3>1. droppedFrames' \in Nat /\ droppedFrames' + Len(queue') <= pts'
      BY <1>2, <1>7, <1>14, <2>1, PipeTypes
    <3> QED
      BY <1>7, <1>10, <1>14, <3>1, PipeTypes
  <2>3. Pipe!KeyframesStay
    BY <1>14 DEF Pipe!KeyframesStay
  <2> QED
    BY <2>2, <2>3
<1> QED
  BY <1>6, <1>12, <1>13, <1>14

(* Steps that touch neither a frame nor a config.                          *)
LEMMA WaitKeepsPipe ==
  ASSUME Pipe!PipeAssumption, PipeInv,
         Pipe!Close \/ Pipe!CheckClosed \/ Pipe!Notified \/ Pipe!Beat
  PROVE  PipeInv' /\ Pipe!KeyframesStay
<1>1. /\ Pipe!TypeOK /\ SeatAndPump /\ FramesArePushed /\ ConfigComes /\ BatchHasConfig
      /\ Pipe!ConfigIsNotOlder
  BY DEF PipeInv
<1>2. /\ UNCHANGED <<last_config, pending_config, queue, droppedFrames, pump, config, pts, batch,
                     seatConfig, fed>>
      /\ \/ seat' = seat
         \/ /\ seat \in {"Asleep", "CheckClosed", "Notified"}
            /\ seat' \in {"Pop", "LastPop", "Notified", "Asleep"}
      /\ closed' \in BOOLEAN /\ permit' \in BOOLEAN
  BY <1>1 DEF Pipe!Close, Pipe!CheckClosed, Pipe!Notified, Pipe!Beat, Pipe!TypeOK, Pipe!pipeVars,
              Pipe!pumpVars, Pipe!seatVars
<1>3. Pipe!TypeOK'
  BY <1>1, <1>2 DEF Pipe!TypeOK
<1>4. SeatAndPump' /\ FramesArePushed'
  BY <1>1, <1>2 DEF SeatAndPump, ConfigPcs, DrainPcs, FramesArePushed, ArePushed, Settled
<1>5. ConfigComes' /\ BatchHasConfig' /\ Pipe!ConfigIsNotOlder'
  BY <1>1, <1>2
    DEF ConfigComes, BatchHasConfig, IsLatest, HaveConfig, Pipe!ConfigIsNotOlder, ConfigPcs, Settled
<1> QED
  BY <1>2, <1>3, <1>4, <1>5 DEF PipeInv, Pipe!KeyframesStay

LEMMA SitKeepsPipe ==
  ASSUME Pipe!PipeAssumption, PipeInv, Pipe!Sit
  PROVE  PipeInv' /\ Pipe!KeyframesStay
<1>1. /\ Pipe!TypeOK /\ SeatAndPump /\ FramesArePushed /\ Pipe!ConfigIsNotOlder
  BY DEF PipeInv
<1>2. /\ UNCHANGED <<last_config, pending_config, queue, droppedFrames, closed, permit, pump, config,
                     pts, batch, fed>>
      /\ seat = "None" /\ seat' = "Pop" /\ seatConfig' = last_config
  BY DEF Pipe!Sit, Pipe!pipeVars, Pipe!pumpVars
<1>3. Pipe!TypeOK'
  BY <1>1, <1>2 DEF Pipe!TypeOK
<1>4. SeatAndPump' /\ FramesArePushed'
  BY <1>1, <1>2 DEF SeatAndPump, ConfigPcs, DrainPcs, FramesArePushed, ArePushed, Settled
<1>5. ConfigComes'
  <2>1. batch' = <<>> /\ seatConfig' = config /\ Settled' <= config
    BY <1>1, <1>2, PipeTypes DEF SeatAndPump, Settled
  <2>2. ASSUME NEW c, IsLatest(batch', seatConfig', c)
        PROVE  c = seatConfig'
    BY <2>1, <2>2 DEF IsLatest
  <2> QED
    BY <2>1, <2>2 DEF ConfigComes
<1>6. BatchHasConfig' /\ Pipe!ConfigIsNotOlder'
  BY <1>1, <1>2 DEF BatchHasConfig, Pipe!ConfigIsNotOlder
<1> QED
  BY <1>2, <1>3, <1>4, <1>5, <1>6 DEF PipeInv, Pipe!KeyframesStay

(* A pop looks for a config first. There is none any more only if the seat *)
(* has what the frames of its batch were encoded under.                    *)
LEMMA SwapKeepsPipe ==
  ASSUME Pipe!PipeAssumption, PipeInv, Pipe!SwapPending
  PROVE  PipeInv' /\ Pipe!KeyframesStay
<1>1. /\ Pipe!TypeOK /\ SeatAndPump /\ FramesArePushed /\ ConfigComes /\ BatchHasConfig
      /\ Pipe!ConfigIsNotOlder
  BY DEF PipeInv
<1>2. /\ UNCHANGED <<last_config, queue, droppedFrames, closed, permit, pump, config, pts, batch,
                     seatConfig, fed>>
      /\ pending_config' = FALSE
  BY DEF Pipe!SwapPending, Pipe!pumpVars, Pipe!seatVars
<1>3. /\ seat \in {"Pop", "LastPop", "Drain"}
      /\ pending_config => seat' \in ConfigPcs /\ (seat' = "DrainConfig" => seat = "Drain")
      /\ ~pending_config => seat' \in QueuePcs /\ (seat' = "DrainQueue" => seat = "Drain")
  BY DEF Pipe!SwapPending, Pipe!Popping, Pipe!Config_of, Pipe!Queue_of, ConfigPcs, QueuePcs
<1>4. Pipe!TypeOK'
  <2>1. seat' \in ConfigPcs \cup QueuePcs
    BY <1>3
  <2> QED
    BY <1>1, <1>2, <2>1 DEF Pipe!TypeOK, ConfigPcs, QueuePcs
<1>5. SeatAndPump'
  BY <1>1, <1>2, <1>3 DEF SeatAndPump, ConfigPcs, QueuePcs, DrainPcs
<1>6. FramesArePushed' /\ Pipe!ConfigIsNotOlder'
  BY <1>1, <1>2 DEF FramesArePushed, ArePushed, Settled, Pipe!ConfigIsNotOlder
<1>7. CASE pending_config
  <2>1. ConfigComes' /\ BatchHasConfig'
    BY <1>3, <1>7 DEF ConfigComes, BatchHasConfig, ConfigPcs
  <2> QED
    BY <1>2, <1>4, <1>5, <1>6, <2>1 DEF PipeInv, Pipe!KeyframesStay
<1>8. CASE ~pending_config
  <2>1. \A c \in 0 .. MaxConfig : IsLatest(batch, seatConfig, c) => Settled <= c
    BY <1>1, <1>3, <1>8 DEF ConfigComes, ConfigPcs
  <2>2. ConfigComes'
    BY <1>2, <2>1 DEF ConfigComes, IsLatest, Settled
  <2>3. BatchHasConfig'
    <3> SUFFICES ASSUME NEW c \in 0 .. MaxConfig, IsLatest(batch, seatConfig, c)
                 PROVE  HaveConfig(batch, c)
      BY <1>2 DEF BatchHasConfig, IsLatest, HaveConfig
    <3>1. Settled <= c
      BY <2>1
    <3>2. \A i \in 1 .. Len(batch) : ~Pipe!IsConfig(batch[i]) => batch[i].config \in Nat
      <4>1. \A e \in Items : ~Pipe!IsConfig(e) => e.config \in Nat
        BY DEF Items, Pipe!Frames, Pipe!IsConfig, Pipe!Config
      <4> QED
        BY <4>1, PipeTypes
    <3>3. \A i \in 1 .. Len(batch) : ~Pipe!IsConfig(batch[i]) => batch[i].config <= Settled
      BY <1>1 DEF FramesArePushed, ArePushed
    <3> QED
      BY <3>1, <3>2, <3>3, PipeTypes DEF HaveConfig
  <2> QED
    BY <1>2, <1>4, <1>5, <1>6, <2>2, <2>3 DEF PipeInv, Pipe!KeyframesStay
<1> QED
  BY <1>7, <1>8

LEMMA PopConfigKeepsPipe ==
  ASSUME Pipe!PipeAssumption, PipeInv, Pipe!PopConfig
  PROVE  PipeInv' /\ Pipe!KeyframesStay
<1>1. /\ Pipe!TypeOK /\ SeatAndPump /\ FramesArePushed /\ Pipe!ConfigIsNotOlder
  BY DEF PipeInv
<1>2. /\ UNCHANGED <<last_config, pending_config, queue, droppedFrames, closed, permit, pump, config,
                     pts, seatConfig, fed>>
      /\ seat \in ConfigPcs
  BY DEF Pipe!PopConfig, Pipe!pipeVars, Pipe!pumpVars, Pipe!Popping, Pipe!Config_of, ConfigPcs
<1>3. last_config = config /\ config > 0
  BY <1>1, <1>2 DEF SeatAndPump
<1>4. batch' = Append(batch, Pipe!Config(config)) /\ seat' = "Drain"
  BY <1>3 DEF Pipe!PopConfig, Pipe!None
<1> DEFINE e == Pipe!Config(config)
<1>5. e \in Items /\ Pipe!IsConfig(e) /\ e.config = config
  <2>1. config \in 1 .. MaxConfig
    BY <1>3, PipeTypes
  <2> QED
    BY <2>1 DEF Items, Pipe!Config, Pipe!IsConfig
<1> HIDE DEF e
<1>6. batch' \in Seq(Items) /\ batch' # <<>>
  <2>1. batch' \in Seq(Items) /\ Len(batch') = Len(batch) + 1 /\ Len(batch) \in Nat
    BY <1>4, <1>5, Appended, PipeTypes DEF e
  <2> QED
    BY <2>1
<1>7. Pipe!TypeOK'
  BY <1>1, <1>2, <1>4, <1>6 DEF Pipe!TypeOK, Items
<1>8. SeatAndPump'
  BY <1>1, <1>2, <1>3, <1>4, <1>6 DEF SeatAndPump, ConfigPcs, DrainPcs
<1>9. FramesArePushed'
  <2>1. ArePushed(Append(batch, e))
    BY <1>1, <1>5, OneMorePushed, PipeTypes DEF FramesArePushed
  <2> QED
    BY <1>1, <1>2, <1>4, <2>1 DEF FramesArePushed, ArePushed, Settled, e
<1>10. ConfigComes'
  <2>1. ASSUME NEW c, IsLatest(batch', seatConfig', c)
        PROVE  c = config
    BY <1>2, <1>4, <1>5, <2>1, OneMore, PipeTypes DEF e
  <2>2. Settled' <= config
    BY <1>2, PipeTypes DEF Settled
  <2> QED
    BY <2>1, <2>2 DEF ConfigComes
<1>11. BatchHasConfig' /\ Pipe!ConfigIsNotOlder'
  BY <1>1, <1>2, <1>4 DEF BatchHasConfig, Pipe!ConfigIsNotOlder
<1> QED
  BY <1>2, <1>7, <1>8, <1>9, <1>10, <1>11 DEF PipeInv, Pipe!KeyframesStay

LEMMA PopQueueKeepsPipe ==
  ASSUME Pipe!PipeAssumption, PipeInv, Pipe!PopQueue
  PROVE  PipeInv' /\ Pipe!KeyframesStay
<1>1. /\ Pipe!TypeOK /\ SeatAndPump /\ FramesArePushed /\ ConfigComes /\ BatchHasConfig
      /\ Pipe!ConfigIsNotOlder
  BY DEF PipeInv
<1>2. /\ UNCHANGED <<last_config, pending_config, droppedFrames, closed, permit, pump, config, pts,
                     seatConfig, fed>>
      /\ seat \in QueuePcs
      /\ \/ /\ queue # <<>> /\ batch' = Append(batch, Head(queue)) /\ queue' = Tail(queue)
            /\ seat' = "Drain"
         \/ /\ queue = <<>> /\ UNCHANGED <<batch, queue>>
            /\ seat' \in {"CheckClosed", "Ended", "Ingest"}
            /\ seat' = "Ingest" => seat = "DrainQueue"
  BY DEF Pipe!PopQueue, Pipe!pumpVars, Pipe!Popping, Pipe!Queue_of, QueuePcs
<1>3. CASE /\ queue # <<>> /\ batch' = Append(batch, Head(queue)) /\ queue' = Tail(queue)
           /\ seat' = "Drain"
  <2> DEFINE f == Head(queue)
  <2>1. /\ f = queue[1] /\ f \in Pipe!Frames /\ Len(queue) \in Nat \ {0}
        /\ queue' \in Seq(Pipe!Frames) /\ Len(queue') = Len(queue) - 1
        /\ \A i \in 1 .. Len(queue') : queue'[i] = queue[i + 1]
    BY <1>3, Received, PipeTypes
  <2> HIDE DEF f
  <2>2. f \in Items /\ ~Pipe!IsConfig(f)
    BY <2>1, PipeTypes
  <2>3. /\ batch' \in Seq(Items) /\ Len(batch') = Len(batch) + 1 /\ Len(batch) \in Nat
        /\ batch'[Len(batch) + 1] = f
    BY <1>3, <2>2, Appended, PipeTypes DEF f
  <2>4. batch' # <<>>
    BY <2>3
  <2>5. Pipe!TypeOK'
    <3>1. Len(queue') <= QUEUE_CAP
      BY <1>1, <2>1, PipeTypes DEF Pipe!TypeOK
    <3> QED
      BY <1>1, <1>2, <1>3, <2>1, <2>3, <3>1 DEF Pipe!TypeOK, Items
  <2>6. SeatAndPump'
    BY <1>1, <1>2, <1>3, <2>4 DEF SeatAndPump, ConfigPcs, DrainPcs
  <2>7. FramesArePushed'
    <3>1. f.pts <= pts /\ f.config <= Settled
      <4>1. 1 \in 1 .. Len(queue)
        BY <2>1
      <4> QED
        BY <1>1, <2>1, <2>2, <4>1 DEF FramesArePushed, ArePushed
    <3>2. ArePushed(batch')
      BY <1>1, <1>3, <2>2, <3>1, OneMorePushed, PipeTypes DEF FramesArePushed, f
    <3>3. \A m \in 1 .. Len(queue') : \E i \in 1 .. Len(queue) : queue'[m] = queue[i]
      BY <2>1
    <3>4. ArePushed(queue')
      BY <1>1, <3>3, StillPushed DEF FramesArePushed
    <3>5. droppedFrames' + Len(queue') <= pts'
      BY <1>1, <1>2, <2>1, PipeTypes DEF FramesArePushed, Pipe!TypeOK
    <3> QED
      BY <1>2, <3>2, <3>4, <3>5 DEF FramesArePushed, ArePushed, Settled
  <2>8. ConfigComes'
    <3>1. ASSUME NEW c, IsLatest(batch', seatConfig', c)
          PROVE  IsLatest(batch, seatConfig, c)
      BY <1>2, <1>3, <2>2, <3>1, OneMore, PipeTypes DEF f
    <3>2. seat # "None" /\ seat \notin ConfigPcs
      BY <1>2 DEF ConfigPcs, QueuePcs
    <3> QED
      BY <1>1, <1>2, <3>1, <3>2 DEF ConfigComes, Settled
  <2>9. BatchHasConfig' /\ Pipe!ConfigIsNotOlder'
    BY <1>1, <1>2, <1>3 DEF BatchHasConfig, Pipe!ConfigIsNotOlder
  <2>10. Pipe!KeyframesStay
    <3> SUFFICES ASSUME NEW i \in 1 .. Len(queue),
                        \A j \in 1 .. Len(queue') : queue'[j] # queue[i]
                 PROVE  Pipe!Contains(batch', queue[i])
      BY DEF Pipe!KeyframesStay
    <3>1. i = 1
      <4>1. CASE i > 1
        <5>1. i - 1 \in 1 .. Len(queue') /\ (i - 1) + 1 = i
          BY <2>1, <4>1
        <5>2. queue'[i - 1] = queue[i]
          BY <2>1, <5>1
        <5> QED
          BY <5>1, <5>2
      <4> QED
        BY <2>1, <4>1
    <3>2. Len(batch) + 1 \in 1 .. Len(batch')
      BY <2>3
    <3> QED
      BY <2>1, <2>3, <3>1, <3>2 DEF Pipe!Contains
  <2> QED
    BY <2>5, <2>6, <2>7, <2>8, <2>9, <2>10 DEF PipeInv
<1>4. CASE /\ queue = <<>> /\ UNCHANGED <<batch, queue>>
           /\ seat' \in {"CheckClosed", "Ended", "Ingest"}
           /\ seat' = "Ingest" => seat = "DrainQueue"
  <2>1. Pipe!TypeOK'
    BY <1>1, <1>2, <1>4 DEF Pipe!TypeOK
  <2>2. SeatAndPump' /\ FramesArePushed'
    BY <1>1, <1>2, <1>4 DEF SeatAndPump, ConfigPcs, DrainPcs, FramesArePushed, ArePushed, Settled
  <2>3. ConfigComes' /\ BatchHasConfig' /\ Pipe!ConfigIsNotOlder'
    BY <1>1, <1>2, <1>4
      DEF ConfigComes, BatchHasConfig, IsLatest, HaveConfig, Pipe!ConfigIsNotOlder, ConfigPcs,
          QueuePcs, Settled
  <2> QED
    BY <1>4, <2>1, <2>2, <2>3 DEF PipeInv, Pipe!KeyframesStay
<1> QED
  BY <1>2, <1>3, <1>4

(* The last config of a batch is the one all its keyframes are fed with.   *)
LEMMA IngestKeepsPipe ==
  ASSUME Pipe!PipeAssumption, PipeInv, Pipe!Ingest
  PROVE  PipeInv' /\ Pipe!KeyframesStay
<1>1. /\ Pipe!TypeOK /\ SeatAndPump /\ FramesArePushed /\ ConfigComes /\ BatchHasConfig
      /\ Pipe!ConfigIsNotOlder
  BY DEF PipeInv
<1>2. /\ UNCHANGED <<last_config, pending_config, queue, droppedFrames, closed, permit, pump, config,
                     pts>>
      /\ seat = "Ingest" /\ seat' = "Pop" /\ batch' = <<>>
      /\ seatConfig' = Pipe!select_live_frames[Len(batch)]
      /\ fed' = {[with |-> Pipe!select_live_frames[i], own |-> batch[i].config] :
                   i \in {i \in 1 .. Len(batch) : Pipe!IsKeyframe(batch[i])}}
  BY DEF Pipe!Ingest, Pipe!pipeVars, Pipe!pumpVars
<1>3. Len(batch) \in 1 .. Len(batch) /\ DOMAIN batch = 1 .. Len(batch)
      /\ \A i \in 1 .. Len(batch) : batch[i] \in Items
  BY <1>1, <1>2, PipeTypes DEF SeatAndPump, DrainPcs
<1> DEFINE configs == {i \in DOMAIN batch : Pipe!IsConfig(batch[i])}
           latest == IF configs = {} THEN seatConfig ELSE batch[Pipe!Max(configs)].config
<1>4. Pipe!select_live_frames = [i \in DOMAIN batch |-> latest]
  BY DEF Pipe!select_live_frames
<1>5. configs \in SUBSET (1 .. Len(batch)) /\ Len(batch) \in Nat
  BY <1>3, PipeTypes
<1>6. latest \in 0 .. MaxConfig /\ IsLatest(batch, seatConfig, latest)
  <2>1. CASE configs = {}
    BY <1>1, <1>3, <2>1 DEF IsLatest, Pipe!TypeOK
  <2>2. CASE configs # {}
    <3> DEFINE m == Pipe!Max(configs)
    <3>1. m \in configs /\ \A j \in configs : j <= m
      BY <1>5, <2>2, Extremes
    <3>2. latest = batch[m].config
      BY <2>2
    <3> HIDE DEF m, latest
    <3>3. /\ m \in 1 .. Len(batch) /\ Pipe!IsConfig(batch[m]) /\ batch[m] \in Items
          /\ \A j \in 1 .. Len(batch) : j > m => ~Pipe!IsConfig(batch[j])
      BY <1>3, <1>5, <3>1
    <3>4. batch[m].config \in 0 .. MaxConfig
      BY <3>3, PipeTypes DEF Items, Pipe!Frames, Pipe!Config, Pipe!IsConfig
    <3> QED
      BY <3>2, <3>3, <3>4 DEF IsLatest
  <2> QED
    BY <2>1, <2>2
<1> HIDE DEF configs, latest
<1>7. /\ seatConfig' = latest
      /\ \A unit \in fed' : \E i \in 1 .. Len(batch) :
           /\ Pipe!IsKeyframe(batch[i]) /\ unit = [with |-> latest, own |-> batch[i].config]
  BY <1>2, <1>3, <1>4
<1>8. ASSUME NEW i \in 1 .. Len(batch), Pipe!IsKeyframe(batch[i])
      PROVE  batch[i].config \in 1 .. MaxConfig /\ batch[i].config <= latest
  <2>1. batch[i] \in Pipe!Frames /\ ~Pipe!IsConfig(batch[i])
    BY <1>3, <1>8 DEF Items, Pipe!IsKeyframe, Pipe!IsConfig, Pipe!Config
  <2>2. HaveConfig(batch, latest)
    BY <1>1, <1>2, <1>6 DEF BatchHasConfig
  <2> QED
    BY <2>1, <2>2 DEF HaveConfig, Pipe!Frames
<1>9. /\ fed' \subseteq [with : 0 .. MaxConfig, own : 1 .. MaxConfig]
      /\ \A unit \in fed' : unit.with >= unit.own
  <2> SUFFICES ASSUME NEW unit \in fed'
               PROVE  /\ unit \in [with : 0 .. MaxConfig, own : 1 .. MaxConfig]
                      /\ unit.with >= unit.own
    OBVIOUS
  <2>1. PICK i \in 1 .. Len(batch) :
          Pipe!IsKeyframe(batch[i]) /\ unit = [with |-> latest, own |-> batch[i].config]
    BY <1>7
  <2>2. batch[i].config \in 1 .. MaxConfig /\ batch[i].config <= latest
    BY <1>8, <2>1
  <2>3. unit.with = latest /\ unit.own = batch[i].config
    BY <2>1
  <2> QED
    BY <1>6, <2>1, <2>2, <2>3, PipeTypes
<1>10. Pipe!TypeOK'
  BY <1>1, <1>2, <1>6, <1>7, <1>9 DEF Pipe!TypeOK
<1>11. SeatAndPump' /\ FramesArePushed'
  BY <1>1, <1>2 DEF SeatAndPump, ConfigPcs, DrainPcs, FramesArePushed, ArePushed, Settled
<1>12. ConfigComes'
  <2>1. ASSUME NEW c, IsLatest(batch', seatConfig', c)
        PROVE  c = latest
    BY <1>2, <1>7, <2>1 DEF IsLatest
  <2>2. ~pending_config => Settled <= latest
    BY <1>1, <1>2, <1>6 DEF ConfigComes, ConfigPcs
  <2> QED
    BY <1>2, <2>1, <2>2 DEF ConfigComes, Settled
<1>13. BatchHasConfig' /\ Pipe!ConfigIsNotOlder'
  BY <1>2, <1>9 DEF BatchHasConfig, Pipe!ConfigIsNotOlder
<1> QED
  BY <1>2, <1>10, <1>11, <1>12, <1>13 DEF PipeInv, Pipe!KeyframesStay

LEMMA PipeKept ==
  ASSUME Pipe!PipeAssumption, PipeInv, Pipe!Next
  PROVE  PipeInv' /\ Pipe!KeyframesStay
<1>1. CASE Pipe!PushConfig \/ Pipe!SetPending
  <2>1. UNCHANGED queue
    BY <1>1 DEF Pipe!PushConfig, Pipe!SetPending
  <2> QED
    BY <1>1, <2>1, PushConfigKeepsPipe DEF Pipe!KeyframesStay
<1> QED
  BY <1>1, PushFrameKeepsPipe, WaitKeepsPipe, SitKeepsPipe, SwapKeepsPipe, PopConfigKeepsPipe,
     PopQueueKeepsPipe, IngestKeepsPipe
    DEF Pipe!Next, Pipe!SeatStep

LEMMA PipeAlways == PathSpec => []PipeInv
<1>1. Pipe!PipeAssumption
  BY PathAssumptions
<1>2. PathInit => PipeInv
  BY <1>1, PipeInitially DEF PathInit
<1>3. PipeInv /\ [PathNext]_pathVars => PipeInv'
  <2> SUFFICES ASSUME PipeInv, [PathNext]_pathVars
               PROVE  PipeInv'
    OBVIOUS
  <2>1. CASE UNCHANGED frameVars
    BY <2>1 DEF frameVars, PipeInv, Pipe!TypeOK, SeatAndPump, FramesArePushed, ArePushed, Settled,
                ConfigComes, BatchHasConfig, IsLatest, HaveConfig, Pipe!ConfigIsNotOlder
  <2>2. CASE Pipe!Next
    BY <1>1, <2>2, PipeKept
  <2> QED
    BY <2>1, <2>2 DEF PathNext, pathVars
<1> QED
  BY <1>2, <1>3, PTL DEF PathSpec

(* However many frames and configs, in whatever order the pushes and pops  *)
(* meet: no keyframe is fed with a config older than its own, and none     *)
(* leaves a full queue but for a newer one (FramePipe::push, evict_for,    *)
(* select_live_frames).                                                    *)
THEOREM FramesAreDecodable == PathSpec => FramesDecode
<1>1. Pipe!PipeAssumption
  BY PathAssumptions
<1>2. PipeInv /\ PipeInv' /\ [PathNext]_pathVars
        => [Pipe!ConfigIsNotOlder' /\ Pipe!KeyframesStay]_(Pipe!vars)
  <2> SUFFICES ASSUME PipeInv, PipeInv', [PathNext]_pathVars, ~UNCHANGED Pipe!vars
               PROVE  Pipe!ConfigIsNotOlder' /\ Pipe!KeyframesStay
    OBVIOUS
  <2>1. Pipe!Next
    BY DEF PathNext, pathVars, frameVars, Pipe!vars, Pipe!pipeVars, Pipe!pumpVars, Pipe!seatVars
  <2> QED
    BY <1>1, <2>1, PipeKept DEF PipeInv
<1> QED
  BY <1>2, PipeAlways, PTL DEF PathSpec, FramesDecode, Pipe!FramesDecode

-----------------------------------------------------------------------------
(* ControlHand                                                              *)

(* The stage has a device when it has a pipe, and the touches on their way *)
(* are numbered in the order of the hand.                                  *)
StageOK ==
  /\ stage.bound => stage.serial \in Serials
  /\ pressing => stage.bound

FlightOK ==
  /\ \A t \in flight : t.n < touches
  /\ \A t, u \in flight : t.n = u.n => t = u

(* A session without a channel has a new server, with no finger down.      *)
NewServer == \A s \in Serials : control[s] = "None" => s \notin finger

Presses(s) == pressing /\ stage.serial = s

(* The last thing a device will have heard of the hand is the truth: a     *)
(* Down no Up follows, or a finger that is down when no Down and no Up is  *)
(* on its way, is the hand that presses now.                               *)
LastTouchIsTrue ==
  \A t \in flight :
    /\ t.action = "Down"
    /\ \A u \in flight : u.serial = t.serial /\ u.n > t.n => u.action = "Move"
    => Presses(t.serial)

FingerIsTrue ==
  \A s \in finger :
    /\ control[s] = "Open"
    /\ \A t \in flight : t.serial = s => t.action = "Move"
    => Presses(s)

HandInv ==
  /\ HandTypeOK /\ StageOK /\ FlightOK /\ NewServer
  /\ ~overtaken /\ ~turned => LastTouchIsTrue /\ FingerIsTrue
-----------------------------------------------------------------------------
LEMMA InitHand ==
  ASSUME HandAssumption, HandInit
  PROVE  HandInv
<1>1. HandTypeOK
  <2>1. /\ stage \in [serial : {NoSerial} \cup Serials, want_control : BOOLEAN, paused : BOOLEAN,
                     bound : BOOLEAN, has_frame : BOOLEAN]
        /\ pressing \in BOOLEAN /\ overtaken \in BOOLEAN /\ turned \in BOOLEAN
    BY DEF HandInit
  <2>2. /\ flight \subseteq [n : 0 .. MaxTouch - 1, serial : Serials,
                            action : {"Down", "Move", "Up"}]
        /\ finger \subseteq Serials
    BY DEF HandInit
  <2>3. touches \in 0 .. MaxTouch
    BY DEF HandInit, HandAssumption
  <2>4. control \in [Serials -> {"None", "Open", "Closed"}]
    BY DEF HandInit
  <2> QED
    BY <2>1, <2>2, <2>3, <2>4 DEF HandTypeOK
<1>2. StageOK /\ FlightOK /\ NewServer /\ LastTouchIsTrue /\ FingerIsTrue
  BY DEF HandInit, StageOK, FlightOK, NewServer, LastTouchIsTrue, FingerIsTrue
<1> QED
  BY <1>1, <1>2 DEF HandInv

(* A touch is put on its way: the types and the numbers hold.              *)
LEMMA Injected ==
  ASSUME HandAssumption, HandTypeOK, FlightOK,
         NEW s \in Serials, NEW a \in {"Down", "Move", "Up"}, Inject(s, a)
  PROVE  /\ flight' \subseteq [n : 0 .. MaxTouch - 1, serial : Serials,
                               action : {"Down", "Move", "Up"}]
         /\ touches' \in 0 .. MaxTouch
         /\ FlightOK'
<1> DEFINE new == [n |-> touches, serial |-> s, action |-> a]
<1>1. touches \in Nat /\ MaxTouch \in Nat /\ touches < MaxTouch
  BY DEF HandAssumption, HandTypeOK, Inject
<1>2. flight' = flight \cup {new} /\ touches' = touches + 1
  BY DEF Inject
<1>3. new \in [n : 0 .. MaxTouch - 1, serial : Serials, action : {"Down", "Move", "Up"}]
  BY <1>1
<1>4. \A t \in flight : t.n \in Nat /\ t.n < touches
  BY DEF HandTypeOK, FlightOK
<1>5. FlightOK'
  BY <1>1, <1>2, <1>4 DEF FlightOK
<1> QED
  BY <1>1, <1>2, <1>3, <1>5 DEF HandTypeOK

(* The hand is lifted, or was not pressing: what is on its way says so.    *)
LEMMA Lifted ==
  ASSUME HandAssumption, HandInv, EndPress(stage.serial), UNCHANGED fingerVars
  PROVE  /\ ~pressing'
         /\ flight' \subseteq [n : 0 .. MaxTouch - 1, serial : Serials,
                               action : {"Down", "Move", "Up"}]
         /\ touches' \in 0 .. MaxTouch
         /\ FlightOK'
         /\ ~overtaken /\ ~turned => LastTouchIsTrue' /\ FingerIsTrue'
<1>1. CASE ~pressing
  BY <1>1 DEF HandInv, HandTypeOK, EndPress, FlightOK, LastTouchIsTrue, FingerIsTrue, Presses,
              fingerVars
<1>2. CASE pressing
  <2> DEFINE new == [n |-> touches, serial |-> stage.serial, action |-> "Up"]
  <2>1. stage.serial \in Serials /\ ~pressing' /\ Inject(stage.serial, "Up")
    BY <1>2 DEF HandInv, StageOK, EndPress
  <2>2. flight' = flight \cup {new} /\ finger' = finger /\ control' = control
    BY <2>1 DEF Inject, fingerVars
  <2>3. \A t \in flight : t.n < touches
    BY DEF HandInv, FlightOK
  <2>4. ~overtaken /\ ~turned => LastTouchIsTrue' /\ FingerIsTrue'
    <3> SUFFICES ASSUME LastTouchIsTrue, FingerIsTrue
                 PROVE  LastTouchIsTrue' /\ FingerIsTrue'
      BY DEF HandInv
    <3>1. new \in flight' /\ flight \subseteq flight'
      BY <2>2
    <3>2. LastTouchIsTrue'
      <4> SUFFICES ASSUME NEW t \in flight', t.action = "Down",
                          \A u \in flight' : u.serial = t.serial /\ u.n > t.n => u.action = "Move"
                   PROVE  FALSE
        BY DEF LastTouchIsTrue
      <4>1. t \in flight
        BY <2>2
      <4>2. t.n \in Int /\ t.n < touches /\ touches \in Int
        BY <4>1, <2>3 DEF HandInv, HandTypeOK
      <4>3. t.serial # stage.serial
        BY <3>1, <4>2
      <4>4. \A u \in flight : u.serial = t.serial /\ u.n > t.n => u.action = "Move"
        BY <3>1
      <4>5. Presses(t.serial)
        BY <4>1, <4>4 DEF LastTouchIsTrue
      <4> QED
        BY <4>3, <4>5 DEF Presses
    <3>3. FingerIsTrue'
      <4> SUFFICES ASSUME NEW s \in finger', control'[s] = "Open",
                          \A t \in flight' : t.serial = s => t.action = "Move"
                   PROVE  FALSE
        BY DEF FingerIsTrue
      <4>1. s # stage.serial
        BY <3>1
      <4>2. Presses(s)
        BY <2>2, <3>1 DEF FingerIsTrue
      <4> QED
        BY <4>1, <4>2 DEF Presses
    <3> QED
      BY <3>2, <3>3
  <2> QED
    BY <2>1, <2>4, Injected DEF HandInv
<1> QED
  BY <1>1, <1>2 DEF HandInv, HandTypeOK

(* The steps that lift the hand from where it is and leave the sessions:   *)
(* what is left to show of them is the stage.                              *)
LEMMA StepLifts ==
  ASSUME HandAssumption, HandInv, EndPress(stage.serial),
         UNCHANGED <<fingerVars, turned>>,
         stage' \in [serial : {NoSerial} \cup Serials, want_control : BOOLEAN, paused : BOOLEAN,
                    bound : BOOLEAN, has_frame : BOOLEAN],
         stage'.bound => stage'.serial \in Serials
  PROVE  HandInv'
<1>1. /\ control' = control /\ finger' = finger /\ overtaken' = overtaken /\ turned' = turned
      /\ UNCHANGED fingerVars
  BY DEF fingerVars
<1>2. /\ ~pressing'
      /\ flight' \subseteq [n : 0 .. MaxTouch - 1, serial : Serials,
                            action : {"Down", "Move", "Up"}]
      /\ touches' \in 0 .. MaxTouch
      /\ FlightOK'
      /\ ~overtaken /\ ~turned => LastTouchIsTrue' /\ FingerIsTrue'
  BY <1>1, Lifted
<1>3. pressing' \in BOOLEAN
  BY DEF HandInv, HandTypeOK, EndPress, Inject
<1>4. HandTypeOK'
  BY <1>1, <1>2, <1>3 DEF HandInv, HandTypeOK
<1>5. StageOK' /\ NewServer'
  BY <1>1, <1>2 DEF HandInv, StageOK, NewServer
<1> QED
  BY <1>1, <1>2, <1>4, <1>5 DEF HandInv

(* The steps of the stage that leave the gesture alone: the hand presses   *)
(* where it did, or the stage has turned away from it.                     *)
LEMMA StepStays ==
  ASSUME HandInv, UNCHANGED <<pressing, flight, touches, fingerVars>>,
         turned' \in BOOLEAN,
         stage' \in [serial : {NoSerial} \cup Serials, want_control : BOOLEAN, paused : BOOLEAN,
                    bound : BOOLEAN, has_frame : BOOLEAN],
         stage'.bound => stage'.serial \in Serials,
         stage.bound => stage'.bound,
         ~turned' => ~turned /\ (pressing => stage'.serial = stage.serial)
  PROVE  HandInv'
<1>1. /\ pressing' = pressing /\ flight' = flight /\ touches' = touches
      /\ control' = control /\ finger' = finger /\ overtaken' = overtaken
  BY DEF fingerVars
<1>2. HandTypeOK'
  BY <1>1 DEF HandInv, HandTypeOK
<1>3. StageOK' /\ FlightOK' /\ NewServer'
  BY <1>1 DEF HandInv, StageOK, FlightOK, NewServer
<1>4. ASSUME ~overtaken', ~turned'
      PROVE  LastTouchIsTrue' /\ FingerIsTrue'
  <2>1. LastTouchIsTrue /\ FingerIsTrue
    BY <1>1, <1>4 DEF HandInv
  <2>2. \A s \in Serials \cup finger : Presses(s) => Presses(s)'
    BY <1>1, <1>4 DEF Presses
  <2>3. \A t \in flight : t.serial \in Serials
    BY DEF HandInv, HandTypeOK
  <2>4. LastTouchIsTrue'
    BY <1>1, <2>1, <2>2, <2>3 DEF LastTouchIsTrue
  <2>5. FingerIsTrue'
    BY <1>1, <2>1, <2>2 DEF FingerIsTrue
  <2> QED
    BY <2>4, <2>5
<1> QED
  BY <1>2, <1>3, <1>4 DEF HandInv

(* The pointer presses, or moves while it presses.                         *)
LEMMA StepPresses ==
  ASSUME HandAssumption, HandInv, NEW a \in {"Down", "Move"}, a = "Move" => pressing,
         Operable(stage), pressing' = TRUE, Inject(stage.serial, a),
         UNCHANGED <<stage, fingerVars, turned>>
  PROVE  HandInv'
<1> DEFINE new == [n |-> touches, serial |-> stage.serial, action |-> a]
<1>1. /\ stage' = stage /\ control' = control /\ finger' = finger /\ overtaken' = overtaken
      /\ turned' = turned
  BY DEF fingerVars
<1>2. stage.bound /\ stage.serial \in Serials
  BY DEF HandInv, StageOK, Operable, Video
<1>3. /\ flight' \subseteq [n : 0 .. MaxTouch - 1, serial : Serials,
                            action : {"Down", "Move", "Up"}]
      /\ touches' \in 0 .. MaxTouch
      /\ FlightOK'
  BY <1>2, Injected DEF HandInv
<1>4. HandTypeOK'
  BY <1>1, <1>3 DEF HandInv, HandTypeOK
<1>5. StageOK' /\ NewServer'
  BY <1>1, <1>2 DEF HandInv, StageOK, NewServer
<1>6. ASSUME ~overtaken', ~turned'
      PROVE  LastTouchIsTrue' /\ FingerIsTrue'
  <2>1. LastTouchIsTrue /\ FingerIsTrue
    BY <1>1, <1>6 DEF HandInv
  <2>2. flight' = flight \cup {new} /\ new \in flight' /\ flight \subseteq flight'
    BY DEF Inject
  <2>3. Presses(stage.serial)'
    BY <1>1 DEF Presses
  <2>4. \A s : Presses(s) => Presses(s)'
    BY <1>1 DEF Presses
  <2>5. LastTouchIsTrue'
    <3> SUFFICES ASSUME NEW t \in flight', t.action = "Down",
                        \A u \in flight' : u.serial = t.serial /\ u.n > t.n => u.action = "Move"
                 PROVE  Presses(t.serial)'
      BY DEF LastTouchIsTrue
    <3>1. CASE t = new
      BY <2>3, <3>1
    <3>2. CASE t \in flight
      BY <2>1, <2>2, <2>4, <3>2 DEF LastTouchIsTrue
    <3> QED
      BY <2>2, <3>1, <3>2
  <2>6. FingerIsTrue'
    BY <1>1, <2>1, <2>2, <2>4 DEF FingerIsTrue
  <2> QED
    BY <2>5, <2>6
<1> QED
  BY <1>3, <1>4, <1>5, <1>6 DEF HandInv

(* The layout: the hand stays, or is lifted where it is, or where the      *)
(* stage has turned to.                                                    *)
LEMMA StepLayout ==
  ASSUME HandAssumption, HandInv, ~turned, Layout
  PROVE  HandInv'
<1> PICK s \in Serials \cup {stage.serial}, want \in BOOLEAN, paused \in BOOLEAN :
      /\ stage' = [stage EXCEPT !.serial = s, !.want_control = want, !.paused = paused]
      /\ Turn(s)
      /\ IF Operable(stage') THEN UNCHANGED <<pressing, flight, touches>> ELSE EndPress(s)
      /\ UNCHANGED fingerVars
  BY DEF Layout
<1>1. /\ stage' \in [serial : {NoSerial} \cup Serials, want_control : BOOLEAN, paused : BOOLEAN,
                     bound : BOOLEAN, has_frame : BOOLEAN]
      /\ stage'.serial = s /\ stage'.bound = stage.bound
  BY DEF HandInv, HandTypeOK
<1>2. stage.bound => s \in Serials
  BY DEF HandInv, StageOK
<1>3. turned' \in BOOLEAN /\ (turned' <=> pressing /\ s # stage.serial)
  BY DEF Turn, HandInv, HandTypeOK
<1>4. CASE UNCHANGED <<pressing, flight, touches>>
  BY <1>1, <1>2, <1>3, <1>4, StepStays
<1>5. CASE pressing /\ EndPress(s) /\ s = stage.serial
  <2>1. turned' = turned
    BY <1>3, <1>5 DEF HandInv, HandTypeOK
  <2> QED
    BY <1>1, <1>2, <1>5, <2>1, StepLifts
<1>6. CASE pressing /\ EndPress(s) /\ s # stage.serial
  <2>1. s \in Serials /\ ~pressing' /\ Inject(s, "Up")
    BY <1>6 DEF HandInv, StageOK, EndPress
  <2>2. control' = control /\ finger' = finger /\ overtaken' = overtaken /\ turned'
    BY <1>3, <1>6 DEF fingerVars
  <2>3. /\ flight' \subseteq [n : 0 .. MaxTouch - 1, serial : Serials,
                              action : {"Down", "Move", "Up"}]
        /\ touches' \in 0 .. MaxTouch
        /\ FlightOK'
    BY <2>1, Injected DEF HandInv
  <2>4. pressing' \in BOOLEAN
    BY <1>6 DEF EndPress
  <2>5. HandTypeOK'
    BY <1>1, <1>3, <2>2, <2>3, <2>4 DEF HandInv, HandTypeOK
  <2>6. StageOK' /\ NewServer'
    BY <1>1, <1>2, <2>1, <2>2 DEF HandInv, StageOK, NewServer
  <2> QED
    BY <2>2, <2>3, <2>5, <2>6 DEF HandInv
<1> QED
  BY <1>4, <1>5, <1>6 DEF EndPress

(* A touch comes to its session: of its device it was the oldest, or it    *)
(* has overtaken one.                                                      *)
LEMMA StepTouch ==
  ASSUME HandInv, NEW t \in flight, Touch(t)
  PROVE  HandInv'
<1>1. /\ stage' = stage /\ pressing' = pressing /\ touches' = touches /\ control' = control
      /\ turned' = turned /\ flight' = flight \ {t}
  BY DEF Touch
<1>2. /\ t.serial \in Serials
      /\ finger' \subseteq finger \cup {t.serial}
      /\ control[t.serial] = "None" => finger' = finger
      /\ \A s : s # t.serial => (s \in finger' <=> s \in finger)
  BY DEF Touch, HandInv, HandTypeOK
<1>3. overtaken' \in BOOLEAN
  BY DEF Touch, HandInv, HandTypeOK
<1>4. HandTypeOK'
  BY <1>1, <1>2, <1>3 DEF HandInv, HandTypeOK
<1>5. StageOK' /\ FlightOK' /\ NewServer'
  BY <1>1, <1>2 DEF HandInv, StageOK, FlightOK, NewServer
<1>6. ASSUME ~overtaken', ~turned'
      PROVE  LastTouchIsTrue' /\ FingerIsTrue'
  <2>1. /\ LastTouchIsTrue /\ FingerIsTrue
        /\ \A u \in flight : u.serial = t.serial => ~(u.n < t.n)
    <3>1. ~overtaken /\ \A u \in flight : ~(u.serial = t.serial /\ u.n < t.n)
      BY <1>6, Zenon DEF Touch
    <3> QED
      BY <1>1, <1>6, <3>1 DEF HandInv
  <2>2. \A s : Presses(s)' <=> Presses(s)
    BY <1>1 DEF Presses
  <2>3. \A u \in flight : u.n \in Int
    BY DEF HandInv, HandTypeOK
  <2>4. \A u \in flight' : u.serial = t.serial => u.n > t.n
    BY <1>1, <2>1, <2>3 DEF HandInv, FlightOK
  <2>5. LastTouchIsTrue'
    <3> SUFFICES ASSUME NEW v \in flight', v.action = "Down",
                        \A u \in flight' : u.serial = v.serial /\ u.n > v.n => u.action = "Move"
                 PROVE  Presses(v.serial)
      BY <2>2 DEF LastTouchIsTrue
    <3>1. v \in flight /\ v.n \in Int /\ t.n \in Int
      BY <1>1, <2>3
    <3>2. t.serial = v.serial => ~(t.n > v.n)
      BY <2>4, <3>1
    <3>3. \A u \in flight : u.serial = v.serial /\ u.n > v.n => u.action = "Move"
      BY <1>1, <3>2
    <3> QED
      BY <2>1, <3>1, <3>3 DEF LastTouchIsTrue
  <2>6. FingerIsTrue'
    <3> SUFFICES ASSUME NEW s \in finger', control[s] = "Open",
                        \A u \in flight' : u.serial = s => u.action = "Move"
                 PROVE  Presses(s)
      BY <1>1, <2>2 DEF FingerIsTrue
    <3>1. CASE s # t.serial
      BY <1>1, <1>2, <2>1, <3>1 DEF FingerIsTrue
    <3>2. CASE s = t.serial /\ t.action = "Down"
      <4>1. \A u \in flight : u.serial = t.serial /\ u.n > t.n => u.action = "Move"
        BY <1>1, <2>3, <3>2
      <4> QED
        BY <2>1, <3>2, <4>1 DEF LastTouchIsTrue
    <3>3. CASE s = t.serial /\ t.action = "Move"
      BY <1>1, <2>1, <3>3 DEF FingerIsTrue, Touch
    <3>4. CASE s = t.serial /\ t.action = "Up"
      BY <3>4 DEF Touch
    <3> QED
      BY <3>1, <3>2, <3>3, <3>4 DEF HandInv, HandTypeOK
  <2> QED
    BY <2>5, <2>6
<1> QED
  BY <1>4, <1>5, <1>6 DEF HandInv

(* The sessions: a channel that opens is that of a new server.             *)
LEMMA StepSession ==
  ASSUME HandInv, NEW s \in Serials, Live(s) \/ close_control(s) \/ End(s)
  PROVE  HandInv'
<1>1. /\ stage' = stage /\ pressing' = pressing /\ touches' = touches /\ flight' = flight
      /\ overtaken' = overtaken /\ turned' = turned /\ finger' \subseteq finger
  BY DEF Live, close_control, End, gestureVars
<1>2. control' \in [Serials -> {"None", "Open", "Closed"}]
  BY DEF Live, close_control, End, HandInv, HandTypeOK
<1>3. HandTypeOK'
  BY <1>1, <1>2 DEF HandInv, HandTypeOK
<1>4. \A x \in Serials : control'[x] = "Open" /\ x \in finger' => control[x] = "Open"
  BY DEF Live, close_control, End, HandInv, HandTypeOK, NewServer
<1>5. \A x \in Serials : control'[x] = "None" => x \notin finger'
  BY DEF Live, close_control, End, HandInv, HandTypeOK, NewServer
<1>6. StageOK' /\ FlightOK' /\ NewServer'
  BY <1>1, <1>5 DEF HandInv, StageOK, FlightOK, NewServer
<1>7. \A x : Presses(x)' <=> Presses(x)
  BY <1>1 DEF Presses
<1>8. ~overtaken' /\ ~turned' => LastTouchIsTrue' /\ FingerIsTrue'
  <2>1. LastTouchIsTrue => LastTouchIsTrue'
    BY <1>1, <1>7 DEF LastTouchIsTrue
  <2>2. FingerIsTrue => FingerIsTrue'
    BY <1>1, <1>4, <1>7 DEF FingerIsTrue, HandInv, HandTypeOK
  <2> QED
    BY <1>1, <2>1, <2>2 DEF HandInv
<1> QED
  BY <1>3, <1>6, <1>8 DEF HandInv
-----------------------------------------------------------------------------
LEMMA StepHand ==
  ASSUME HandAssumption, HandInv, [HandNext]_handVars
  PROVE  HandInv'
<1>1. CASE Layout /\ ~turned
  BY <1>1, StepLayout
<1>2. CASE Bind /\ ~turned
  <2> PICK s \in Serials :
        /\ stage' = [stage EXCEPT !.serial = s, !.bound = TRUE, !.has_frame = FALSE]
        /\ Turn(s)
    BY <1>2 DEF Bind
  <2>1. UNCHANGED <<pressing, flight, touches, fingerVars>>
    BY <1>2 DEF Bind
  <2>2. /\ stage' \in [serial : {NoSerial} \cup Serials, want_control : BOOLEAN, paused : BOOLEAN,
                       bound : BOOLEAN, has_frame : BOOLEAN]
        /\ stage'.serial = s /\ stage'.bound
    BY DEF HandInv, HandTypeOK
  <2>3. turned' \in BOOLEAN /\ (turned' <=> pressing /\ s # stage.serial)
    BY <1>2 DEF Turn, HandInv, HandTypeOK
  <2> QED
    BY <1>2, <2>1, <2>2, <2>3, StepStays
<1>3. CASE FirstFrame
  <2>1. UNCHANGED <<pressing, flight, touches, fingerVars>> /\ turned' = turned
    BY <1>3 DEF FirstFrame
  <2>2. /\ stage' \in [serial : {NoSerial} \cup Serials, want_control : BOOLEAN, paused : BOOLEAN,
                       bound : BOOLEAN, has_frame : BOOLEAN]
        /\ stage'.serial = stage.serial /\ stage'.bound = stage.bound
    BY <1>3 DEF FirstFrame, HandInv, HandTypeOK
  <2> QED
    BY <2>1, <2>2, StepStays DEF HandInv, StageOK, HandTypeOK
<1>4. CASE release_pipe
  <2>1. /\ stage' \in [serial : {NoSerial} \cup Serials, want_control : BOOLEAN, paused : BOOLEAN,
                       bound : BOOLEAN, has_frame : BOOLEAN]
        /\ ~stage'.bound
    BY <1>4 DEF release_pipe, HandInv, HandTypeOK
  <2> QED
    BY <1>4, <2>1, StepLifts DEF release_pipe
<1>5. CASE Uninstall
  <2>1. /\ stage' \in [serial : {NoSerial} \cup Serials, want_control : BOOLEAN, paused : BOOLEAN,
                       bound : BOOLEAN, has_frame : BOOLEAN]
        /\ ~stage'.bound
    BY <1>5 DEF Uninstall
  <2> QED
    BY <1>5, <2>1, StepLifts DEF Uninstall
<1>6. CASE Pointer
  <2>1. UNCHANGED <<stage, fingerVars, turned>>
    BY <1>6 DEF Pointer
  <2>2. CASE Operable(stage) /\ pressing' = TRUE /\ Inject(stage.serial, "Down")
    BY <2>1, <2>2, StepPresses
  <2>3. CASE Operable(stage) /\ pressing /\ Inject(stage.serial, "Move") /\ UNCHANGED pressing
    <3>1. pressing' = TRUE
      BY <2>3 DEF HandInv, HandTypeOK
    <3> QED
      BY <2>1, <2>3, <3>1, StepPresses
  <2>4. CASE pressing /\ EndPress(stage.serial)
    BY <2>1, <2>4, StepLifts DEF HandInv, HandTypeOK, StageOK
  <2> QED
    BY <1>6, <2>2, <2>3, <2>4 DEF Pointer
<1>7. CASE \E t \in flight : Touch(t)
  BY <1>7, StepTouch
<1>8. CASE \E s \in Serials : Live(s) \/ close_control(s) \/ End(s)
  BY <1>8, StepSession
<1>9. CASE UNCHANGED handVars
  BY <1>9 DEF handVars, gestureVars, fingerVars, HandInv, HandTypeOK, StageOK, FlightOK, NewServer,
              LastTouchIsTrue, FingerIsTrue, Presses
<1> QED
  BY <1>1, <1>2, <1>3, <1>4, <1>5, <1>6, <1>7, <1>8, <1>9 DEF HandNext

LEMMA HandIsKept ==
  ASSUME HandAssumption
  PROVE  HandSpec => []HandInv
<1>1. HandInit => HandInv
  BY InitHand
<1>2. HandInv /\ [HandNext]_handVars => HandInv'
  BY StepHand
<1> QED
  BY <1>1, <1>2, PTL DEF HandSpec

(* Every variable has its type in every behaviour: the stage, the gesture, *)
(* the touches on their way and the sessions they are for.                 *)
THEOREM HandTypes ==
  ASSUME HandAssumption
  PROVE  HandSpec => []HandTypeOK
<1>1. HandInv => HandTypeOK
  BY DEF HandInv
<1> QED
  BY <1>1, HandIsKept, PTL

(* Whatever the devices and however long the hand works: once every touch  *)
(* is through, no device with an open channel has a finger down but the    *)
(* one the hand presses on, unless a touch overtook an older one or the    *)
(* stage turned to another device under the hand (control_hand.rs          *)
(* end_press, lift_without_control, stage.rs, MirrorService::inject).      *)
THEOREM FingersAreLifted ==
  ASSUME HandAssumption
  PROVE  HandSpec => []FingersFollowTheHand
<1>1. HandInv => FingersFollowTheHand
  BY DEF HandInv, StageOK, FingerIsTrue, Presses, FingersFollowTheHand
<1> QED
  BY <1>1, HandIsKept, PTL

-----------------------------------------------------------------------------
(* The service, the pipe and the hand together.                             *)

(* Every variable has its type, whatever the numbers and the bounds.       *)
THEOREM PathTypes == PathSpec => []PathTypeOK
<1>1. MirrorAssumption /\ HandAssumption
  BY PathAssumptions
<1>2. PathInit => MirrorInv /\ HandInv
  BY <1>1, InitMirror, InitHand DEF PathInit
<1>3. MirrorInv /\ [PathNext]_pathVars => MirrorInv'
  <2>1. [PathNext]_pathVars => [Next]_vars
    BY DEF PathNext, pathVars, mirrorVars, vars, slotVars, callVars, warmVars
  <2> QED
    BY <1>1, <2>1, MirrorStep
<1>4. HandInv /\ [PathNext]_pathVars => HandInv'
  <2>1. [PathNext]_pathVars => [HandNext]_handVars
    BY DEF PathNext, pathVars
  <2> QED
    BY <1>1, <2>1, StepHand
<1>5. MirrorInv /\ HandInv /\ PipeInv => PathTypeOK
  BY DEF PathTypeOK, MirrorInv, HandInv, PipeInv
<1> QED
  BY <1>2, <1>3, <1>4, <1>5, PipeAlways, PTL DEF PathSpec
=============================================================================
