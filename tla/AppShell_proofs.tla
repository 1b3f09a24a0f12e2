--------------------------- MODULE AppShell_proofs ---------------------------
(***************************************************************************)
(* What MCAppShell checks of the shell, for any sizes, numbers and bounds. *)
(* Each part has an inductive invariant of its own, which its steps keep   *)
(* and the steps of the others do not touch.                               *)
(***************************************************************************)
EXTENDS MCAppShell, TaskCenter_proofs, Sequences, FiniteSets, FiniteSetTheorems,
        SequenceTheorems, WellFoundedInduction, TLAPS

-----------------------------------------------------------------------------
(* Numbers                                                                 *)

(* A set of numbers below a bound has a least and a greatest member.       *)
UpTo(S, i) == {j \in S : j <= i}
From(S, i) == {j \in S : i <= j}

LEMMA Extremes ==
  ASSUME NEW n \in Nat, NEW S \in SUBSET (0 .. n), S # {}
  PROVE  /\ \E m \in S : \A j \in S : m <= j
         /\ \E m \in S : \A j \in S : j <= m
<1>1. IsFiniteSet(S)
  <2>1. IsFiniteSet(0 .. n)
    BY FS_Interval
  <2> QED
    BY <2>1, FS_Subset
<1>2. \A j \in S : j \in Int
  OBVIOUS
<1>3. ASSUME NEW sets \in SUBSET SUBSET S, sets # {}
      PROVE  \E x \in sets : \A y \in sets : ~ (y \subseteq x /\ y # x)
  <2> DEFINE R == StrictSubsetOrdering(S)
             F == FiniteSubsetsOf(S)
  <2>2. IsWellFoundedOn(R, F)
    BY FS_StrictSubsetOrderingWellFounded
  <2>3. F = SUBSET S
    BY <1>1, FS_FiniteSubsetsOfFinite
  <2> HIDE DEF R, F
  <2>4. \E x \in sets : \A y \in sets : ~ (<<y, x>> \in R)
    BY <1>3, <2>2, <2>3, WFMin
  <2> USE DEF R
  <2>1. PICK x \in sets : \A y \in sets : <<y, x>> \notin StrictSubsetOrdering(S)
    BY <2>4
  <2> QED
    BY <1>3, <2>1 DEF StrictSubsetOrdering
<1>4. \E m \in S : \A j \in S : m <= j
  <2> DEFINE T == {UpTo(S, i) : i \in S}
  <2>1. PICK m \in S : \A j \in S : ~ (UpTo(S, j) \subseteq UpTo(S, m) /\ UpTo(S, j) # UpTo(S, m))
    <3>1. T \in SUBSET SUBSET S /\ T # {}
      BY DEF UpTo
    <3>2. \A x \in T : \E m \in S : x = UpTo(S, m)
      OBVIOUS
    <3>3. \A j \in S : UpTo(S, j) \in T
      OBVIOUS
    <3> HIDE DEF T
    <3>4. PICK x \in T : \A y \in T : ~ (y \subseteq x /\ y # x)
      BY Zenon, <1>3, <3>1
    <3> QED
      BY <3>2, <3>3, <3>4
  <2>2. ASSUME NEW j \in S, ~(m <= j)
        PROVE  FALSE
    <3>1. /\ m \in UpTo(S, m) /\ m \notin UpTo(S, j)
          /\ UpTo(S, j) \subseteq UpTo(S, m)
      <4>1. ~(m <= j) /\ m <= m /\ \A i \in S : i <= j => i <= m
        BY <1>2, <2>2
      <4> QED
        BY <4>1 DEF UpTo
    <3> QED
      BY <2>1, <3>1
  <2> QED
    BY <2>2
<1>5. \E m \in S : \A j \in S : j <= m
  <2> DEFINE T == {From(S, i) : i \in S}
  <2>1. PICK m \in S : \A j \in S : ~ (From(S, j) \subseteq From(S, m) /\ From(S, j) # From(S, m))
    <3>1. T \in SUBSET SUBSET S /\ T # {}
      BY DEF From
    <3>2. \A x \in T : \E m \in S : x = From(S, m)
      OBVIOUS
    <3>3. \A j \in S : From(S, j) \in T
      OBVIOUS
    <3> HIDE DEF T
    <3>4. PICK x \in T : \A y \in T : ~ (y \subseteq x /\ y # x)
      BY Zenon, <1>3, <3>1
    <3> QED
      BY <3>2, <3>3, <3>4
  <2>2. ASSUME NEW j \in S, ~(j <= m)
        PROVE  FALSE
    <3>1. /\ m \in From(S, m) /\ m \notin From(S, j)
          /\ From(S, j) \subseteq From(S, m)
      <4>1. ~(j <= m) /\ m <= m /\ \A i \in S : j <= i => m <= i
        BY <1>2, <2>2
      <4> QED
        BY <4>1 DEF From
    <3> QED
      BY <2>1, <3>1
  <2> QED
    BY <2>2
<1> QED
  BY <1>4, <1>5

-----------------------------------------------------------------------------
(* Queues                                                                  *)

LEMMA Appended ==
  ASSUME NEW S, NEW q \in Seq(S), NEW e \in S
  PROVE  /\ Append(q, e) \in Seq(S) /\ Len(Append(q, e)) = Len(q) + 1 /\ Len(q) \in Nat
         /\ \A i \in 1 .. Len(q) : Append(q, e)[i] = q[i]
         /\ Append(q, e)[Len(q) + 1] = e
  OBVIOUS

LEMMA NoneQueued ==
  ASSUME NEW S, NEW q, q = <<>>
  PROVE  q \in Seq(S) /\ Len(q) = 0
  OBVIOUS

LEMMA Received ==
  ASSUME NEW S, NEW q \in Seq(S), q # <<>>
  PROVE  /\ Head(q) = q[1] /\ Head(q) \in S /\ Len(q) \in Nat \ {0}
         /\ Tail(q) \in Seq(S) /\ Len(Tail(q)) = Len(q) - 1
         /\ \A i \in 1 .. Len(Tail(q)) : Tail(q)[i] = q[i + 1]
  OBVIOUS

-----------------------------------------------------------------------------
(* LinuxPaint                                                              *)

(* The surfaces that have hidden their window: each of them has posted one *)
(* job more than the bound.                                                *)
Hidden == {k \in Paint!Surfaces : poster[k] \in {"LastSwap", "Gone"}}

PaintTyped ==
  /\ poster \in [Paint!Surfaces -> {"None", "Loop", "Swap", "LastSwap", "Gone"}]
  /\ told \subseteq Paint!Surfaces
  /\ posted \in Nat /\ posted <= PaintPosts + Cardinality(Hidden)
  /\ newest \in [Paint!Surfaces -> Paint!PaintJobs \cup {Paint!NoJob}]
  /\ paint_job \in [Paint!Surfaces -> Paint!PaintJobs \cup {Paint!NoJob}]
  /\ window \in [Paint!Surfaces -> Paint!PaintJobs \cup {Paint!NoJob}]
  /\ last \in Paint!PaintJobs \cup {Paint!NoJob}
  /\ scheduled \in [Paint!Surfaces -> BOOLEAN]
  /\ idle \in Seq(Paint!Surfaces \cup {Paint!Redraw})
  /\ canvas \in 0 .. PaintSurfaces /\ gtk \in {"Main", "Redraw", "Take", "Recheck"}
  /\ canvas = 0 => gtk = "Main"
  /\ left_behind \in BOOLEAN

(* A surface is booted once, and until then nobody has taken its job.      *)
BootsOnce ==
  /\ \A k \in Paint!Surfaces :
       poster[k] = "None" =>
         newest[k] = Paint!NoJob /\ paint_job[k] = Paint!NoJob /\ k # canvas
  /\ \A i \in 1 .. Len(idle) :
       idle[i] # Paint!Redraw =>
         /\ poster[idle[i]] # "None" /\ idle[i] # canvas
         /\ paint_job[idle[i]] = newest[idle[i]]
         /\ \A j \in 1 .. Len(idle) : idle[j] = idle[i] => j = i

(* The slot of the canvas has its newest job, or the canvas has it. A flag *)
(* that is up is that of a redraw on its way, or of one that has just      *)
(* begun.                                                                  *)
CanvasFollows ==
  canvas # 0 =>
    /\ \/ paint_job[canvas] = newest[canvas]
       \/ paint_job[canvas] = Paint!NoJob /\ last = newest[canvas]
    /\ newest[canvas] = Paint!NoJob => last = Paint!NoJob
    /\ scheduled[canvas] => gtk = "Redraw" \/ \E i \in 1 .. Len(idle) : idle[i] = Paint!Redraw
    /\ gtk = "Main" =>
         /\ window[canvas].show = last.show
         /\ last.show => window[canvas] = last

NoneLeftBehind ==
  ~left_behind => \A k \in Paint!Surfaces : k # canvas => ~window[k].show

PaintInv ==
  PaintTyped /\ BootsOnce /\ CanvasFollows /\ NoneLeftBehind /\ Paint!PaintIsScheduled

LEMMA PaintInitially ==
  ASSUME Paint!PaintAssumption, Paint!Init
  PROVE  PaintInv
<1> USE DEF Paint!Init, Paint!Surfaces
<1>1. PaintPosts \in Nat /\ PaintSurfaces \in Nat
  BY DEF Paint!PaintAssumption
<1>2. Hidden = {}
  BY DEF Hidden
<1>3. Cardinality(Hidden) = 0
  BY <1>2, FS_EmptySet
<1>4. idle \in Seq(Paint!Surfaces \cup {Paint!Redraw}) /\ Len(idle) = 0
  BY NoneQueued
<1>5. PaintTyped
  <2>1. posted = 0 /\ posted <= PaintPosts + Cardinality(Hidden) /\ canvas \in 0 .. PaintSurfaces
    BY <1>1, <1>3
  <2>2. poster \in [Paint!Surfaces -> {"None", "Loop", "Swap", "LastSwap", "Gone"}]
    OBVIOUS
  <2>3. told \subseteq Paint!Surfaces
    OBVIOUS
  <2>4. /\ newest \in [Paint!Surfaces -> Paint!PaintJobs \cup {Paint!NoJob}]
        /\ last \in Paint!PaintJobs \cup {Paint!NoJob}
    OBVIOUS
  <2>5. scheduled \in [Paint!Surfaces -> BOOLEAN] /\ left_behind \in BOOLEAN
    OBVIOUS
  <2> QED
    BY <1>4, <2>1, <2>2, <2>3, <2>4, <2>5 DEF PaintTyped
<1>6. BootsOnce /\ CanvasFollows /\ NoneLeftBehind /\ Paint!PaintIsScheduled
  BY <1>1, <1>4 DEF BootsOnce, CanvasFollows, NoneLeftBehind, Paint!PaintIsScheduled, Paint!NoJob
<1> QED
  BY <1>5, <1>6 DEF PaintInv

(* A surface hides its window once, and nothing else makes it hidden.      *)
LEMMA HiddenCounted ==
  ASSUME Paint!PaintAssumption, PaintTyped
  PROVE  /\ PaintPosts \in Nat /\ PaintSurfaces \in Nat
         /\ Cardinality(Hidden) \in 0 .. PaintSurfaces
         /\ \A k \in Paint!Surfaces \ Hidden :
              /\ Cardinality(Hidden \cup {k}) = Cardinality(Hidden) + 1
              /\ Cardinality(Hidden) + 1 <= PaintSurfaces
<1>1. PaintPosts \in Nat /\ PaintSurfaces \in Nat
  BY DEF Paint!PaintAssumption
<1>2. IsFiniteSet(1 .. PaintSurfaces) /\ Cardinality(1 .. PaintSurfaces) = PaintSurfaces
  BY <1>1, FS_Interval
<1>3. ASSUME NEW S \in SUBSET (1 .. PaintSurfaces)
      PROVE  IsFiniteSet(S) /\ Cardinality(S) \in Nat /\ Cardinality(S) <= PaintSurfaces
  <2>1. IsFiniteSet(S) /\ Cardinality(S) <= PaintSurfaces
    BY <1>2, FS_Subset
  <2> QED
    BY <2>1, FS_CardinalityType
<1>4. Hidden \in SUBSET (1 .. PaintSurfaces)
  BY DEF Hidden, Paint!Surfaces
<1>5. \A k \in 1 .. PaintSurfaces : Hidden \cup {k} \in SUBSET (1 .. PaintSurfaces)
  BY <1>4
<1>6. \A k : k \notin Hidden => Cardinality(Hidden \cup {k}) = Cardinality(Hidden) + 1
  BY <1>3, <1>4, FS_AddElement
<1> HIDE DEF Hidden
<1> QED
  BY <1>1, <1>3, <1>4, <1>5, <1>6 DEF Paint!Surfaces

LEMMA PaintTypesKept ==
  ASSUME Paint!PaintAssumption, PaintTyped, Paint!Next
  PROVE  PaintTyped'
<1> USE DEF PaintTyped, Paint!postVars, Paint!gtkVars
<1>1. /\ PaintPosts \in Nat /\ PaintSurfaces \in Nat /\ Cardinality(Hidden) \in 0 .. PaintSurfaces
      /\ \A k \in Paint!Surfaces \ Hidden :
           /\ Cardinality(Hidden \cup {k}) = Cardinality(Hidden) + 1
           /\ Cardinality(Hidden) + 1 <= PaintSurfaces
  BY HiddenCounted
<1>2. \A k \in Paint!Surfaces : k # Paint!Redraw /\ k \in 0 .. PaintSurfaces
  BY <1>1 DEF Paint!Surfaces, Paint!Redraw
<1> DEFINE Sources == Paint!Surfaces \cup {Paint!Redraw}
<1>3. \A e \in Sources : Append(idle, e) \in Seq(Sources)
  BY Appended
<1>4. idle # <<>> => Head(idle) \in Sources /\ Tail(idle) \in Seq(Sources)
  BY Received
<1> HIDE DEF Sources
<1>5. ASSUME NEW k \in Paint!Surfaces, Paint!Spawn(k)
      PROVE  PaintTyped'
  <2>1. Hidden' = Hidden /\ UNCHANGED posted
    BY <1>5 DEF Paint!Spawn, Hidden
  <2>2. idle' \in Seq(Sources)
    BY <1>3, <1>5 DEF Paint!Spawn, Sources
  <2> QED
    BY <1>5, <2>1, <2>2 DEF Paint!Spawn, Sources
<1>6. ASSUME NEW k \in Paint!Surfaces, Paint!Tell(k)
      PROVE  PaintTyped'
  <2>1. Hidden' = Hidden /\ UNCHANGED posted
    BY <1>6 DEF Paint!Tell, Hidden
  <2> QED
    BY <1>6, <2>1 DEF Paint!Tell
<1>7. ASSUME NEW k \in Paint!Surfaces, NEW show \in BOOLEAN, Paint!Post(k, show)
      PROVE  PaintTyped'
  <2> DEFINE drawn == [n |-> posted + 1, show |-> show]
  <2>1. drawn \in Paint!PaintJobs
    BY <1>1, <1>7 DEF Paint!Post, Paint!PaintJobs
  <2>2. Paint!SetJob(k, drawn, "Swap") /\ posted + 1 <= PaintPosts + Cardinality(Hidden)
    BY <1>1, <1>7 DEF Paint!Post
  <2> HIDE DEF drawn
  <2>3. Hidden' = Hidden
    BY <2>2 DEF Paint!SetJob, Hidden
  <2> QED
    BY <2>1, <2>2, <2>3 DEF Paint!SetJob
<1>8. ASSUME NEW k \in Paint!Surfaces, Paint!Hide(k)
      PROVE  PaintTyped'
  <2> DEFINE drawn == [n |-> posted + 1, show |-> FALSE]
  <2>1. poster[k] = "Loop" /\ k \notin Hidden
    BY <1>8 DEF Paint!Hide, Paint!SetJob, Hidden
  <2>2. drawn \in Paint!PaintJobs
    <3>1. Cardinality(Hidden) + 1 <= PaintSurfaces
      BY <1>1, <2>1
    <3>2. posted \in Nat /\ posted <= PaintPosts + Cardinality(Hidden)
      OBVIOUS
    <3> HIDE DEF PaintTyped
    <3>3. posted + 1 \in 1 .. PaintPosts + PaintSurfaces
      BY <1>1, <3>1, <3>2
    <3> QED
      BY <3>3 DEF Paint!PaintJobs
  <2>3. Paint!SetJob(k, drawn, "LastSwap")
    BY <1>8 DEF Paint!Hide
  <2> HIDE DEF drawn
  <2>4. Hidden' = Hidden \cup {k}
    BY <2>3 DEF Paint!SetJob, Hidden
  <2>5. Cardinality(Hidden') = Cardinality(Hidden) + 1
    BY <1>1, <2>1, <2>4
  <2> QED
    BY <1>1, <2>2, <2>3, <2>5 DEF Paint!SetJob
<1>9. \A k \in Paint!Surfaces : Paint!Schedule(k) =>
        scheduled' \in [Paint!Surfaces -> BOOLEAN] /\ idle' \in Seq(Sources)
  BY <1>3 DEF Paint!Schedule, Sources
<1>10. ASSUME NEW k \in Paint!Surfaces, Paint!Swap(k)
       PROVE  PaintTyped'
  <2>1. Hidden' = Hidden
    BY <1>10 DEF Paint!Swap, Hidden
  <2>2. poster' \in [Paint!Surfaces -> {"None", "Loop", "Swap", "LastSwap", "Gone"}]
    BY <1>10 DEF Paint!Swap
  <2> QED
    BY <1>9, <1>10, <2>1, <2>2 DEF Paint!Swap, Sources
<1>11. CASE Paint!GtkStep
  <2>1. Hidden' = Hidden /\ UNCHANGED <<poster, told, posted, newest>>
    BY <1>11
    DEF Paint!GtkStep, Paint!Boot, Paint!Wake, Paint!WakeEmpty, Paint!Clear, Paint!Take,
        Paint!Recheck, Hidden
  <2>2. CASE Paint!Boot
    <3>1. Head(idle) \in Paint!Surfaces /\ Tail(idle) \in Seq(Sources)
      BY <1>4, <2>2 DEF Paint!Boot, Sources
    <3>2. canvas' \in 0 .. PaintSurfaces /\ canvas' # 0
      BY <1>2, <2>2, <3>1 DEF Paint!Boot, Paint!Redraw
    <3> QED
      BY <2>1, <2>2, <3>1, <3>2 DEF Paint!Boot, Sources
  <2>3. CASE Paint!Wake \/ Paint!WakeEmpty
    BY <1>4, <2>1, <2>3 DEF Paint!Wake, Paint!WakeEmpty, Sources
  <2>7. gtk # "Main" => canvas \in Paint!Surfaces
    BY <1>1 DEF Paint!Surfaces
  <2>4. CASE Paint!Clear
    BY <2>1, <2>4 DEF Paint!Clear
  <2>5. CASE Paint!Take
    <3>1. /\ last' \in Paint!PaintJobs \cup {Paint!NoJob}
          /\ paint_job' \in [Paint!Surfaces -> Paint!PaintJobs \cup {Paint!NoJob}]
      BY <2>7, <2>5 DEF Paint!Take
    <3> QED
      BY <2>1, <2>5, <3>1 DEF Paint!Take
  <2>6. CASE Paint!Recheck
    <3>1. Paint!Shown(canvas, last) \in Paint!PaintJobs \cup {Paint!NoJob}
      BY DEF Paint!Shown
    <3>2. scheduled' \in [Paint!Surfaces -> BOOLEAN] /\ idle' \in Seq(Sources)
      BY <1>9, <2>7, <2>6 DEF Paint!Recheck, Sources, Paint!Schedule
    <3> QED
      BY <2>1, <2>6, <3>1, <3>2 DEF Paint!Recheck, Sources
  <2> QED
    BY <1>11, <2>2, <2>3, <2>4, <2>5, <2>6 DEF Paint!GtkStep
<1> QED
  BY <1>5, <1>6, <1>7, <1>8, <1>10, <1>11 DEF Paint!Next

LEMMA PaintKept ==
  ASSUME Paint!PaintAssumption, PaintInv, Paint!Next
  PROVE  PaintInv'
<1> USE DEF Paint!postVars, Paint!gtkVars
<1>1. PaintTyped /\ BootsOnce /\ CanvasFollows /\ NoneLeftBehind /\ Paint!PaintIsScheduled
  BY DEF PaintInv
<1>2. PaintTyped'
  BY <1>1, PaintTypesKept
<1> DEFINE Sources == Paint!Surfaces \cup {Paint!Redraw}
           Grown(e) == /\ Len(idle') = Len(idle) + 1 /\ idle'[Len(idle) + 1] = e
                       /\ \A i \in 1 .. Len(idle) : idle'[i] = idle[i]
           Shrunk == /\ idle # <<>> /\ Len(idle) >= 1 /\ Len(idle') = Len(idle) - 1
                     /\ Head(idle) = idle[1]
                     /\ \A i \in 1 .. Len(idle') : idle'[i] = idle[i + 1]
<1>3. idle \in Seq(Sources) /\ Len(idle) \in Nat
  BY <1>1 DEF PaintTyped
<1>4. \A e \in Sources : idle' = Append(idle, e) => Grown(e)
  BY <1>3, Appended
<1>5. idle # <<>> /\ idle' = Tail(idle) => Shrunk
  BY <1>3, Received
<1>6. \A k \in Paint!Surfaces : k # Paint!Redraw /\ k # 0
  BY DEF Paint!Surfaces, Paint!Redraw
<1>7. canvas # 0 => canvas \in Paint!Surfaces
  BY <1>1 DEF PaintTyped, Paint!Surfaces
<1>8. Paint!Queued <=> \E i \in 1 .. Len(idle) : idle[i] = Paint!Redraw
  BY <1>3 DEF Paint!Queued
<1>9. Paint!Queued' <=> \E i \in 1 .. Len(idle') : idle'[i] = Paint!Redraw
  BY <1>2 DEF Paint!Queued, PaintTyped
<1>10. \A k \in Paint!Surfaces : k \in Sources
  OBVIOUS
<1>11. Paint!Redraw \in Sources
  OBVIOUS
<1> HIDE DEF Sources
<1>12. ASSUME NEW k \in Paint!Surfaces, Paint!Schedule(k)
       PROVE  /\ scheduled' = [scheduled EXCEPT ![k] = TRUE]
              /\ (UNCHANGED idle /\ scheduled[k]) \/ Grown(Paint!Redraw)
  BY <1>4, <1>11, <1>12 DEF Paint!Schedule
<1> HIDE DEF Grown, Shrunk
<1>13. ASSUME NEW k \in Paint!Surfaces, Paint!Spawn(k)
       PROVE  PaintInv'
  <2>1. /\ poster[k] = "None" /\ poster' = [poster EXCEPT ![k] = "Loop"] /\ Grown(k)
        /\ UNCHANGED <<told, posted, newest, paint_job, scheduled, canvas, last, gtk, window,
                       left_behind>>
    BY <1>4, <1>10, <1>13 DEF Paint!Spawn
  <2>2. BootsOnce'
    BY <1>1, <1>3, <1>6, <2>1, SMTT(30) DEF BootsOnce, PaintTyped, Grown
  <2>3. \A i \in 1 .. Len(idle) : idle[i] = Paint!Redraw =>
          \E j \in 1 .. Len(idle') : idle'[j] = Paint!Redraw
    BY <1>3, <2>1 DEF Grown
  <2>4. CanvasFollows' /\ NoneLeftBehind'
    BY <1>1, <2>1, <2>3 DEF CanvasFollows, NoneLeftBehind
  <2>5. canvas # 0 => poster'[canvas] = poster[canvas]
    BY <1>1, <1>7, <2>1 DEF PaintTyped, BootsOnce
  <2>6. Paint!PaintIsScheduled'
    BY <1>1, <1>8, <1>9, <2>1, <2>3, <2>5 DEF Paint!PaintIsScheduled
  <2> QED
    BY <1>2, <2>2, <2>4, <2>6 DEF PaintInv
<1>14. ASSUME NEW k \in Paint!Surfaces, Paint!Tell(k)
       PROVE  PaintInv'
  <2>1. UNCHANGED <<poster, posted, newest, paint_job, scheduled, idle, canvas, last, gtk, window,
                    left_behind>>
    BY <1>14 DEF Paint!Tell
  <2>2. BootsOnce' /\ CanvasFollows' /\ NoneLeftBehind' /\ Paint!PaintIsScheduled'
    BY <1>1, <2>1
    DEF BootsOnce, CanvasFollows, NoneLeftBehind, Paint!PaintIsScheduled, Paint!Queued
  <2> QED
    BY <1>2, <2>2 DEF PaintInv
<1>15. ASSUME NEW k \in Paint!Surfaces, NEW job, NEW label \in {"Swap", "LastSwap"},
              job # Paint!NoJob, Paint!SetJob(k, job, label)
       PROVE  PaintInv'
  <2>1. /\ poster[k] = "Loop" /\ poster' = [poster EXCEPT ![k] = label]
        /\ newest' = [newest EXCEPT ![k] = job] /\ paint_job' = [paint_job EXCEPT ![k] = job]
        /\ UNCHANGED <<told, scheduled, idle, canvas, last, gtk, window, left_behind>>
    BY <1>15 DEF Paint!SetJob
  <2>2. /\ newest'[k] = job /\ paint_job'[k] = job /\ poster'[k] = label
        /\ \A h \in Paint!Surfaces : h # k =>
             newest'[h] = newest[h] /\ paint_job'[h] = paint_job[h] /\ poster'[h] = poster[h]
    BY <1>1, <2>1 DEF PaintTyped
  <2>3. \A i \in 1 .. Len(idle) : idle[i] # Paint!Redraw => idle[i] \in Paint!Surfaces
    BY <1>3 DEF Sources
  <2>4. BootsOnce'
    BY <1>1, <2>1, <2>2, <2>3 DEF BootsOnce
  <2>5. CanvasFollows' /\ NoneLeftBehind'
    BY <1>1, <1>7, <1>15, <2>1, <2>2 DEF CanvasFollows, NoneLeftBehind
  <2>6. Paint!PaintIsScheduled'
    BY <1>1, <1>7, <1>8, <1>9, <2>1, <2>2 DEF Paint!PaintIsScheduled
  <2> QED
    BY <1>2, <2>4, <2>5, <2>6 DEF PaintInv
<1>16. ASSUME NEW k \in Paint!Surfaces, Paint!Swap(k)
       PROVE  PaintInv'
  <2>1. /\ poster[k] \in {"Swap", "LastSwap"}
        /\ poster' = [poster EXCEPT ![k] = IF @ = "Swap" THEN "Loop" ELSE "Gone"]
        /\ Paint!Schedule(k)
        /\ UNCHANGED <<told, posted, newest, paint_job, canvas, last, gtk, window, left_behind>>
    BY <1>16 DEF Paint!Swap
  <2>2. /\ scheduled' = [scheduled EXCEPT ![k] = TRUE]
        /\ (UNCHANGED idle /\ scheduled[k]) \/ Grown(Paint!Redraw)
    BY <1>12, <2>1
  <2>3. /\ poster[k] # "None" /\ poster'[k] # "None"
        /\ \A h \in Paint!Surfaces : h # k => poster'[h] = poster[h] /\ scheduled'[h] = scheduled[h]
    BY <1>1, <2>1, <2>2 DEF PaintTyped
  <2>4. \A i \in 1 .. Len(idle) : idle[i] # Paint!Redraw => idle[i] \in Paint!Surfaces
    BY <1>3 DEF Sources
  <2>5. BootsOnce'
    <3>1. CASE UNCHANGED idle
      BY <1>1, <2>1, <2>3, <2>4, <3>1 DEF BootsOnce
    <3>2. CASE Grown(Paint!Redraw)
      BY <1>1, <1>3, <2>1, <2>3, <2>4, <3>2 DEF BootsOnce, Grown
    <3> QED
      BY <2>2, <3>1, <3>2
  <2>6. /\ \A i \in 1 .. Len(idle) : idle[i] = Paint!Redraw =>
             \E j \in 1 .. Len(idle') : idle'[j] = Paint!Redraw
        /\ ~scheduled[k] => \E j \in 1 .. Len(idle') : idle'[j] = Paint!Redraw
    BY <1>3, <2>2 DEF Grown
  <2>7. CanvasFollows'
    BY <1>1, <1>7, <2>1, <2>3, <2>6 DEF CanvasFollows
  <2>8. NoneLeftBehind'
    BY <1>1, <2>1 DEF NoneLeftBehind
  <2>9. Paint!PaintIsScheduled'
    BY <1>1, <1>7, <1>8, <1>9, <2>1, <2>3, <2>6 DEF Paint!PaintIsScheduled, CanvasFollows
  <2> QED
    BY <1>2, <2>5, <2>7, <2>8, <2>9 DEF PaintInv
<1>17. CASE Paint!Boot
  <2>1. /\ Shrunk /\ idle[1] # Paint!Redraw /\ canvas' = idle[1] /\ gtk' = "Redraw"
        /\ left_behind' = (left_behind \/ (canvas # 0 /\ window[canvas].show))
        /\ UNCHANGED <<poster, newest, paint_job, scheduled, window>>
    BY <1>5, <1>17 DEF Paint!Boot, Shrunk
  <2>2. BootsOnce'
    BY <1>1, <1>3, <2>1 DEF BootsOnce, Shrunk
  <2>3. CanvasFollows'
    BY <1>1, <1>3, <1>17, <2>1 DEF BootsOnce, CanvasFollows, Shrunk, Paint!Boot
  <2>4. ~left_behind' => ~left_behind /\ (canvas = 0 \/ ~window[canvas].show)
    BY <2>1
  <2>5. NoneLeftBehind'
    BY <1>1, <1>6, <2>1, <2>4 DEF NoneLeftBehind
  <2>6. Paint!PaintIsScheduled'
    BY <2>1 DEF Paint!PaintIsScheduled
  <2> QED
    BY <1>2, <2>2, <2>3, <2>5, <2>6 DEF PaintInv
<1>18. CASE Paint!Wake \/ Paint!WakeEmpty
  <2>1. /\ (Shrunk /\ idle[1] = Paint!Redraw) \/ UNCHANGED idle
        /\ gtk' = "Redraw" \/ canvas = 0
        /\ UNCHANGED <<poster, newest, paint_job, scheduled, canvas, last, window, left_behind>>
    BY <1>5, <1>18 DEF Paint!Wake, Paint!WakeEmpty, Shrunk
  <2>2. BootsOnce'
    BY <1>1, <1>3, <2>1, SMTT(30) DEF BootsOnce, Shrunk
  <2>3. CanvasFollows' /\ NoneLeftBehind' /\ Paint!PaintIsScheduled'
    BY <1>1, <2>1 DEF CanvasFollows, NoneLeftBehind, Paint!PaintIsScheduled
  <2> QED
    BY <1>2, <2>2, <2>3 DEF PaintInv
<1>19. CASE Paint!Clear
  <2>1. /\ gtk = "Redraw" /\ gtk' = "Take" /\ scheduled' = [scheduled EXCEPT ![canvas] = FALSE]
        /\ UNCHANGED <<poster, newest, paint_job, idle, canvas, last, window, left_behind>>
    BY <1>19 DEF Paint!Clear
  <2>2. canvas \in Paint!Surfaces /\ ~scheduled'[canvas]
    BY <1>1, <1>7, <2>1 DEF PaintTyped
  <2>3. BootsOnce' /\ CanvasFollows' /\ NoneLeftBehind' /\ Paint!PaintIsScheduled'
    BY <1>1, <2>1, <2>2 DEF BootsOnce, CanvasFollows, NoneLeftBehind, Paint!PaintIsScheduled
  <2> QED
    BY <1>2, <2>3 DEF PaintInv
<1>20. CASE Paint!Take
  <2>1. /\ gtk = "Take" /\ gtk' = "Recheck"
        /\ last' = IF paint_job[canvas] = Paint!NoJob THEN last ELSE paint_job[canvas]
        /\ paint_job' = [paint_job EXCEPT ![canvas] = Paint!NoJob]
        /\ UNCHANGED <<poster, newest, scheduled, idle, canvas, window, left_behind>>
    BY <1>20 DEF Paint!Take
  <2>2. /\ canvas \in Paint!Surfaces /\ canvas # 0 /\ paint_job'[canvas] = Paint!NoJob
        /\ \A h \in Paint!Surfaces : h # canvas => paint_job'[h] = paint_job[h]
    BY <1>1, <1>7, <2>1 DEF PaintTyped
  <2>3. \A i \in 1 .. Len(idle) : idle[i] # Paint!Redraw => idle[i] \in Paint!Surfaces
    BY <1>3 DEF Sources
  <2>4. BootsOnce'
    BY <1>1, <2>1, <2>2, <2>3 DEF BootsOnce
  <2>5. CanvasFollows'
    BY <1>1, <2>1, <2>2 DEF CanvasFollows
  <2>6. NoneLeftBehind' /\ Paint!PaintIsScheduled'
    BY <1>1, <2>1 DEF NoneLeftBehind, Paint!PaintIsScheduled
  <2> QED
    BY <1>2, <2>4, <2>5, <2>6 DEF PaintInv
<1>21. CASE Paint!Recheck
  <2>1. /\ gtk = "Recheck" /\ gtk' = "Main"
        /\ window' = [window EXCEPT ![canvas] = Paint!Shown(canvas, last)]
        /\ UNCHANGED <<poster, newest, paint_job, canvas, last, left_behind>>
    BY <1>21 DEF Paint!Recheck
  <2>2. canvas \in Paint!Surfaces /\ canvas # 0
    BY <1>1, <1>7, <2>1 DEF PaintTyped
  <2>3. \/ paint_job[canvas] = Paint!NoJob /\ UNCHANGED <<scheduled, idle>>
        \/ /\ paint_job[canvas] # Paint!NoJob /\ scheduled' = [scheduled EXCEPT ![canvas] = TRUE]
           /\ (UNCHANGED idle /\ scheduled[canvas]) \/ Grown(Paint!Redraw)
    BY <1>12, <1>21, <2>2 DEF Paint!Recheck
  <2>4. \A i \in 1 .. Len(idle) : idle[i] # Paint!Redraw => idle[i] \in Paint!Surfaces
    BY <1>3 DEF Sources
  <2>5. BootsOnce'
    <3>1. CASE UNCHANGED idle
      BY <1>1, <2>1, <3>1 DEF BootsOnce
    <3>2. CASE Grown(Paint!Redraw)
      BY <1>1, <1>3, <2>1, <2>4, <3>2 DEF BootsOnce, Grown
    <3> QED
      BY <2>3, <3>1, <3>2
  <2>6. /\ \A i \in 1 .. Len(idle) : idle[i] = Paint!Redraw =>
             \E j \in 1 .. Len(idle') : idle'[j] = Paint!Redraw
        /\ paint_job[canvas] # Paint!NoJob => \E j \in 1 .. Len(idle') : idle'[j] = Paint!Redraw
        /\ paint_job[canvas] = Paint!NoJob => UNCHANGED scheduled
    BY <1>1, <1>3, <2>1, <2>2, <2>3 DEF Grown, CanvasFollows
  <2>7. /\ window'[canvas].show = last.show /\ (last.show => window'[canvas] = last)
        /\ \A h \in Paint!Surfaces : h # canvas => window'[h] = window[h]
    <3>1. last \in Paint!PaintJobs \cup {Paint!NoJob} /\ window'[canvas] = Paint!Shown(canvas, last)
      BY <1>1, <2>1, <2>2 DEF PaintTyped
    <3>2. Paint!Shown(canvas, last) = last \/
            (~last.show /\ Paint!Shown(canvas, last) = Paint!NoJob)
      BY Zenon DEF Paint!Shown
    <3>3. Paint!NoJob.show = FALSE /\ last.show \in BOOLEAN
      <4>1. CASE last = Paint!NoJob
        BY <4>1 DEF Paint!NoJob
      <4>2. CASE last \in Paint!PaintJobs
        BY <4>2 DEF Paint!NoJob, Paint!PaintJobs
      <4> QED
        BY <3>1, <4>1, <4>2
    <3>4. \A h \in Paint!Surfaces : h # canvas => window'[h] = window[h]
      BY <1>1, <2>1 DEF PaintTyped
    <3> QED
      BY <3>1, <3>2, <3>3, <3>4
  <2>8. CanvasFollows'
    BY <1>1, <2>1, <2>2, <2>6, <2>7 DEF CanvasFollows
  <2>9. NoneLeftBehind'
    BY <1>1, <2>1, <2>7 DEF NoneLeftBehind
  <2>10. Paint!PaintIsScheduled'
    BY <1>9, <2>1, <2>6 DEF Paint!PaintIsScheduled
  <2> QED
    BY <1>2, <2>5, <2>8, <2>9, <2>10 DEF PaintInv
<1>22. \A show : [n |-> posted + 1, show |-> show] # Paint!NoJob
  BY <1>1 DEF PaintTyped, Paint!NoJob
<1> QED
  BY <1>13, <1>14, <1>15, <1>16, <1>17, <1>18, <1>19, <1>20, <1>21, <1>22
  DEF Paint!Next, Paint!GtkStep, Paint!Post, Paint!Hide

-----------------------------------------------------------------------------
(* VaSurfaces                                                              *)

(* How far a cursor has come round the ring since slot `s` was taken,      *)
(* and how far from `s` slot `h` is.                                       *)
Come(from, s) == IF from > s THEN from - 1 - s ELSE from - 1 - s + RingSize
Off(s, h) == IF h >= s THEN h - s ELSE h - s + RingSize

(* The pictures begun since the reference at `i` of the dpb.               *)
Since(i) ==
  (Len(dpb) - i) * (RingPlain + 1) + plain + (IF picture = "none" THEN 0 ELSE 1)

(* The canvas holds a slot the cursor has not come to yet.                 *)
Ahead(s) == \E h \in {taken, painting} : h # Decoder!None /\ Off(s, h) > Come(cursor, s)

DecoderTyped ==
  /\ opened \in BOOLEAN /\ destroyed \in BOOLEAN
  /\ done \in [Decoder!Slots -> BOOLEAN] /\ cursor \in Decoder!Slots
  /\ dpb \in Seq(Decoder!Slots) /\ Len(dpb) <= RingKeeps
  /\ picture \in Decoder!Pictures \cup {"none"} /\ plain \in 0 .. RingPlain
  /\ picture = "plain" => plain < RingPlain
  /\ target \in Decoder!Slots \cup {Decoder!None} /\ blit \in Decoder!Slots \cup {Decoder!None}
  /\ taken \in Decoder!Slots \cup {Decoder!None} /\ painting \in Decoder!Slots \cup {Decoder!None}

(* A slot is held by one of the four, and only the canvas has one that was *)
(* taken before the picture posted last: one slot.                         *)
HeldByOne ==
  /\ picture = "none" <=> target = Decoder!None
  /\ picture # "none" => Come(cursor, target) = 0
  /\ taken = Decoder!None \/ painting = Decoder!None
  /\ target # Decoder!None => target \notin {blit, taken, painting}
  /\ blit # Decoder!None => blit \notin {taken, painting}
  /\ \A s \in Decoder!Slots : ~done[s] <=> s \in {target, blit, taken, painting}

(* The cursor has passed no slot since a reference but those of the        *)
(* pictures begun and one more, that of the canvas.                        *)
RefIsBehind(i) ==
  /\ blit # Decoder!None => Off(dpb[i], blit) <= Come(cursor, dpb[i])
  /\ Come(cursor, dpb[i]) <= Since(i) + 1
  /\ Ahead(dpb[i]) => Come(cursor, dpb[i]) <= Since(i)
  /\ target # dpb[i]

DecoderInv ==
  DecoderTyped /\ (~destroyed => HeldByOne /\ \A i \in 1 .. Len(dpb) : RefIsBehind(i))


LEMMA RingBounds ==
  ASSUME Decoder!SurfacesAssumption
  PROVE  /\ RingSize \in Nat \ {0} /\ RingKeeps \in Nat \ {0} /\ RingPlain \in Nat
         /\ Decoder!Slots = 0 .. RingSize - 1
         /\ \A s \in Decoder!Slots : s # Decoder!None
  BY DEF Decoder!SurfacesAssumption, Decoder!Slots, Decoder!None

(* What the distances say of a search that begins at the cursor.           *)
LEMMA Distances ==
  ASSUME Decoder!SurfacesAssumption, cursor \in Decoder!Slots, NEW s \in Decoder!Slots
  PROVE  /\ Come(cursor, s) \in Decoder!Slots
         /\ \A h \in Decoder!Slots : Off(s, h) \in Decoder!Slots /\ (Off(s, h) = 0 <=> h = s)
         /\ \A t \in Decoder!Slots : Come(cursor, t) = 0 => Off(s, t) = Come(cursor, s)
         /\ \A m \in Decoder!Slots :
              /\ (cursor + m) % RingSize \in Decoder!Slots
              /\ Come(cursor, s) + 1 + m < RingSize =>
                   Off(s, (cursor + m) % RingSize) = Come(cursor, s) + 1 + m
<1>1. /\ RingSize \in Nat \ {0} /\ Decoder!Slots = 0 .. RingSize - 1
      /\ s \in 0 .. RingSize - 1 /\ cursor \in 0 .. RingSize - 1
  BY RingBounds
<1>2. Come(cursor, s) \in Decoder!Slots
  BY <1>1 DEF Come
<1>3. \A h \in Decoder!Slots : Off(s, h) \in Decoder!Slots /\ (Off(s, h) = 0 <=> h = s)
  BY <1>1 DEF Off
<1>4. \A t \in Decoder!Slots : Come(cursor, t) = 0 => Off(s, t) = Come(cursor, s)
  BY <1>1 DEF Come, Off
<1>5. ASSUME NEW m \in Decoder!Slots
      PROVE  /\ (cursor + m) % RingSize \in Decoder!Slots
             /\ Come(cursor, s) + 1 + m < RingSize =>
                  Off(s, (cursor + m) % RingSize) = Come(cursor, s) + 1 + m
  <2> DEFINE free == (cursor + m) % RingSize
  <2>1. cursor + m \in 0 .. 2 * RingSize - 1
    BY <1>1
  <2>2. free = IF cursor + m < RingSize THEN cursor + m ELSE cursor + m - RingSize
    BY <1>1, <2>1
  <2> HIDE DEF free
  <2>3. free \in Decoder!Slots
    BY <1>1, <2>2
  <2>4. Come(cursor, s) + 1 + m < RingSize => Off(s, free) = Come(cursor, s) + 1 + m
    BY <1>1, <2>2 DEF Come, Off
  <2> QED
    BY <2>3, <2>4 DEF free
<1> QED
  BY <1>2, <1>3, <1>4, <1>5

(* Once a slot is allocated, the cursor is behind it.                      *)
LEMMA CursorMoves ==
  ASSUME Decoder!SurfacesAssumption, cursor \in Decoder!Slots, NEW free \in Decoder!Slots,
         cursor' = (free + 1) % RingSize
  PROVE  /\ cursor' \in Decoder!Slots /\ Come(cursor', free) = 0
         /\ \A s \in Decoder!Slots : Come(cursor', s) = Off(s, free)
<1>1. RingSize \in Nat \ {0} /\ Decoder!Slots = 0 .. RingSize - 1
  BY RingBounds
<1>2. free + 1 \in 0 .. 2 * RingSize - 1
  BY <1>1
<1>3. cursor' = IF free + 1 < RingSize THEN free + 1 ELSE free + 1 - RingSize
  BY <1>1, <1>2
<1> QED
  BY <1>1, <1>3 DEF Come, Off

LEMMA Products ==
  ASSUME NEW n \in Nat, NEW m \in Nat, NEW p \in Nat, n + 1 <= m
  PROVE  /\ n * (p + 1) \in Nat /\ (n + 1) * (p + 1) = n * (p + 1) + p + 1
         /\ n * (p + 1) + p + 1 <= m * (p + 1)
<1>1. m = n + 1 + (m - n - 1) /\ m - n - 1 \in Nat
  OBVIOUS
<1>2. (m - n - 1) * (p + 1) \in Nat
  BY <1>1
<1>3. m * (p + 1) = (n + 1) * (p + 1) + (m - n - 1) * (p + 1)
  BY <1>1
<1>4. n * (p + 1) \in Nat /\ (n + 1) * (p + 1) = n * (p + 1) + p + 1
  OBVIOUS
<1> QED
  BY <1>2, <1>3, <1>4

LEMMA SinceBounded ==
  ASSUME Decoder!SurfacesAssumption, DecoderTyped, NEW i \in 1 .. Len(dpb)
  PROVE  /\ Len(dpb) - i \in Nat /\ (Len(dpb) - i) * (RingPlain + 1) \in Nat /\ Since(i) \in Nat
         /\ Decoder!RingIsLongEnough /\ picture = "none" => Since(i) + 3 <= RingSize
<1>1. /\ RingSize \in Nat /\ RingKeeps \in Nat \ {0} /\ RingPlain \in Nat
      /\ plain \in 0 .. RingPlain
      /\ Len(dpb) \in Nat /\ Len(dpb) <= RingKeeps
  BY RingBounds DEF DecoderTyped
<1>2. Len(dpb) - i \in Nat /\ Len(dpb) - i + 1 <= RingKeeps
  BY <1>1
<1> DEFINE product == (Len(dpb) - i) * (RingPlain + 1)
<1>3. /\ product \in Nat /\ product + RingPlain + 1 <= RingKeeps * (RingPlain + 1)
      /\ RingKeeps * (RingPlain + 1) \in Nat
  BY <1>1, <1>2, Products
<1>4. Since(i) = product + plain + (IF picture = "none" THEN 0 ELSE 1)
  BY DEF Since
<1>5. Decoder!RingIsLongEnough => RingSize >= RingKeeps * (RingPlain + 1) + 2
  BY DEF Decoder!RingIsLongEnough
<1> DEFINE all == RingKeeps * (RingPlain + 1)
<1>6. product \in Nat /\ all \in Nat /\ product + RingPlain + 1 <= all
      /\ (Decoder!RingIsLongEnough => RingSize >= all + 2)
  BY <1>3, <1>5
<1> HIDE DEF product, all
<1>7. Since(i) \in Nat /\ (Decoder!RingIsLongEnough /\ picture = "none" => Since(i) + 3 <= RingSize)
  BY <1>1, <1>4, <1>6
<1> QED
  BY <1>2, <1>6, <1>7 DEF product

LEMMA DecoderInitially ==
  ASSUME Decoder!SurfacesAssumption, Decoder!Init
  PROVE  DecoderInv
<1>1. dpb \in Seq(Decoder!Slots) /\ Len(dpb) = 0
  BY NoneQueued DEF Decoder!Init
<1>2. DecoderTyped
  BY <1>1, RingBounds DEF Decoder!Init, DecoderTyped
<1>3. HeldByOne
  BY RingBounds DEF Decoder!Init, HeldByOne
<1> QED
  BY <1>1, <1>2, <1>3 DEF DecoderInv

(* Nothing is held any more when a context goes without being missed.      *)
LEMMA ContextGoes ==
  ASSUME Decoder!SurfacesAssumption, DecoderTyped, HeldByOne,
         Decoder!NewContext \/ Decoder!DropDecoder
  PROVE  DecoderInv'
<1> USE DEF Decoder!canvasVars
<1>1. dpb' \in Seq(Decoder!Slots) /\ Len(dpb') = 0
  BY NoneQueued DEF Decoder!NewContext, Decoder!DropDecoder
<1>2. /\ opened' \in BOOLEAN /\ done' = [s \in Decoder!Slots |-> TRUE]
      /\ cursor' \in Decoder!Slots /\ picture' = "none" /\ target' = Decoder!None
      /\ plain' \in 0 .. RingPlain /\ destroyed' = (Decoder!Held # {})
      /\ UNCHANGED <<blit, taken, painting>>
  <2>1. 0 \in Decoder!Slots /\ 0 \in 0 .. RingPlain
    BY RingBounds
  <2>2. CASE Decoder!NewContext
    BY <2>2 DEF Decoder!NewContext, DecoderTyped, HeldByOne
  <2>3. CASE Decoder!DropDecoder
    BY <2>1, <2>3 DEF Decoder!DropDecoder
  <2> QED
    BY <2>2, <2>3
<1>3. DecoderTyped'
  BY <1>1, <1>2, RingBounds DEF DecoderTyped
<1>4. ~destroyed' => HeldByOne'
  <2>1. ~destroyed' => blit = Decoder!None /\ taken = Decoder!None /\ painting = Decoder!None
    BY <1>2 DEF Decoder!Held
  <2> QED
    BY <1>2, <2>1, RingBounds DEF HeldByOne
<1> QED
  BY <1>1, <1>3, <1>4 DEF DecoderInv

(* alloc_surface takes the first slot from the cursor on that is done.      *)
Took(step, kind) ==
  LET free == (cursor + step) % RingSize
  IN /\ free \in Decoder!Slots /\ done[free]
     /\ \A m \in Decoder!Slots : m < step => ~done[(cursor + m) % RingSize]
     /\ picture = "none" /\ (kind = "plain" => plain < RingPlain)
     /\ target' = free /\ done' = [done EXCEPT ![free] = FALSE]
     /\ cursor' = (free + 1) % RingSize /\ picture' = kind
     /\ UNCHANGED <<opened, dpb, plain, blit, taken, painting, destroyed>>

LEMMA AllocTakes ==
  ASSUME Decoder!SurfacesAssumption, DecoderTyped,
         NEW kind \in Decoder!Pictures, Decoder!Alloc(kind)
  PROVE  /\ \E step \in Decoder!Slots : Took(step, kind)
         /\ DecoderTyped' /\ target' \in Decoder!Slots
<1>1. PICK step \in Decoder!Free : \A m \in Decoder!Free : step <= m
  <2>1. Decoder!Free \in SUBSET (0 .. RingSize - 1) /\ Decoder!Free # {}
    BY RingBounds DEF Decoder!Free, Decoder!Alloc
  <2>2. RingSize - 1 \in Nat
    BY RingBounds
  <2> QED
    BY <2>1, <2>2, Extremes
<1>2. Decoder!Free \subseteq Decoder!Slots /\ \A m \in Decoder!Slots : m \in Int
  BY RingBounds DEF Decoder!Free
<1>3. (CHOOSE n \in Decoder!Free : \A m \in Decoder!Free : n <= m) = step
  <2>1. \A n \in Decoder!Free : (\A m \in Decoder!Free : n <= m) => n = step
    BY <1>1, <1>2
  <2> QED
    BY <1>1, <2>1
<1> DEFINE free == (cursor + step) % RingSize
<1>4. /\ step \in Decoder!Slots /\ free \in Decoder!Slots /\ done[free]
      /\ \A m \in Decoder!Slots : m < step => ~done[(cursor + m) % RingSize]
  <2>1. free \in Decoder!Slots
    BY <1>1, <1>2, Distances DEF DecoderTyped
  <2>2. done[free]
    BY <1>1 DEF Decoder!Free
  <2>3. ASSUME NEW m \in Decoder!Slots, m < step
        PROVE  ~done[(cursor + m) % RingSize]
    <3>1. m \notin Decoder!Free
      BY <1>1, <1>2, <2>3
    <3> QED
      BY <3>1 DEF Decoder!Free
  <2> QED
    BY <1>1, <1>2, <2>1, <2>2, <2>3
<1>5. /\ picture = "none" /\ (kind = "plain" => plain < RingPlain)
      /\ target' = free /\ done' = [done EXCEPT ![free] = FALSE]
      /\ cursor' = (free + 1) % RingSize /\ picture' = kind
      /\ UNCHANGED <<opened, dpb, plain, blit, taken, painting, destroyed>>
  BY <1>3 DEF Decoder!Alloc, Decoder!canvasVars
<1>6. Took(step, kind)
  BY <1>4, <1>5 DEF Took
<1> HIDE DEF free
<1>7. cursor' \in Decoder!Slots
  BY <1>4, <1>5, CursorMoves DEF DecoderTyped
<1>8. DecoderTyped'
  BY <1>4, <1>5, <1>7 DEF DecoderTyped
<1> QED
  BY <1>4, <1>5, <1>6, <1>8

(* alloc_surface: the slots it passes are held by the canvas, and by it    *)
(* since before any reference was decoded: it passes one.                  *)
LEMMA AllocKeeps ==
  ASSUME Decoder!SurfacesAssumption, Decoder!RingIsLongEnough, DecoderTyped, HeldByOne,
         \A i \in 1 .. Len(dpb) : RefIsBehind(i),
         NEW kind \in Decoder!Pictures, Decoder!Alloc(kind)
  PROVE  DecoderInv'
<1>1. PICK step \in Decoder!Slots : Took(step, kind)
  BY AllocTakes
<1> DEFINE free == (cursor + step) % RingSize
<1>4. /\ step \in Decoder!Slots /\ free \in Decoder!Slots /\ done[free]
      /\ \A m \in Decoder!Slots : m < step => ~done[(cursor + m) % RingSize]
  BY <1>1 DEF Took
<1>5. /\ picture = "none" /\ (kind = "plain" => plain < RingPlain)
      /\ target' = free /\ done' = [done EXCEPT ![free] = FALSE]
      /\ cursor' = (free + 1) % RingSize /\ picture' = kind
      /\ UNCHANGED <<opened, dpb, plain, blit, taken, painting, destroyed>>
  BY <1>1 DEF Took
<1> HIDE DEF free
<1>6. /\ cursor' \in Decoder!Slots /\ Come(cursor', free) = 0
      /\ \A s \in Decoder!Slots : Come(cursor', s) = Off(s, free)
  BY <1>4, <1>5, CursorMoves DEF DecoderTyped
<1>7. kind # "none"
  BY DEF Decoder!Pictures
<1>8. DecoderTyped'
  BY AllocTakes
<1>9. HeldByOne'
  <2>1. target = Decoder!None /\ free # Decoder!None /\ free \notin {blit, taken, painting}
    BY <1>4, <1>5, RingBounds DEF HeldByOne
  <2>2. /\ picture' # "none" /\ target' # Decoder!None /\ Come(cursor', target') = 0
        /\ target' \notin {blit', taken', painting'}
    BY <1>5, <1>6, <1>7, <2>1
  <2>3. \A s \in Decoder!Slots : ~done'[s] <=> s \in {target', blit', taken', painting'}
    BY <1>4, <1>5, <2>1, RingBounds DEF HeldByOne, DecoderTyped
  <2> QED
    BY <1>5, <2>2, <2>3 DEF HeldByOne
<1>10. ASSUME NEW i \in 1 .. Len(dpb')
       PROVE  RefIsBehind(i)'
  <2>12. PICK s \in Decoder!Slots : s = dpb[i]
    BY <1>5, <1>10 DEF DecoderTyped
  <2>1. i \in 1 .. Len(dpb) /\ dpb[i] = s /\ dpb'[i] = s
    BY <1>5, <1>10, <2>12
  <2>2. /\ blit # Decoder!None => Off(s, blit) <= Come(cursor, s)
        /\ Come(cursor, s) <= Since(i) + 1 /\ (Ahead(s) => Come(cursor, s) <= Since(i))
    BY <2>1 DEF RefIsBehind
  <2>3. Since(i) \in Nat /\ Since(i) + 3 <= RingSize /\ RingSize \in Nat
    BY <1>5, <2>1, SinceBounded, RingBounds
  <2>4. Since(i)' = Since(i) + 1
    <3> DEFINE product == (Len(dpb) - i) * (RingPlain + 1)
    <3>1. product \in Nat /\ plain \in Nat
      BY <2>1, SinceBounded, RingBounds DEF DecoderTyped
    <3>2. Since(i) = product + plain + 0 /\ Since(i)' = product + plain + 1
      BY <1>5, <1>7 DEF Since
    <3> HIDE DEF product
    <3> QED
      BY <3>1, <3>2
  <2>5. /\ Come(cursor, s) \in 0 .. RingSize - 1 /\ step \in 0 .. RingSize - 1
        /\ \A h \in Decoder!Slots : Off(s, h) \in 0 .. RingSize - 1 /\ (Off(s, h) = 0 <=> h = s)
        /\ \A m \in 0 .. RingSize - 1 :
             /\ (cursor + m) % RingSize \in Decoder!Slots
             /\ Come(cursor, s) + 1 + m < RingSize =>
                  Off(s, (cursor + m) % RingSize) = Come(cursor, s) + 1 + m
    BY <1>4, <2>1, Distances, RingBounds DEF DecoderTyped
  <2>6. ASSUME NEW m \in 0 .. RingSize - 1, m < step, Come(cursor, s) + 1 + m < RingSize
        PROVE  \E h \in {taken, painting} : h # Decoder!None /\ Off(s, h) = Come(cursor, s) + 1 + m
    <3> DEFINE h == (cursor + m) % RingSize
    <3>1. h \in Decoder!Slots /\ ~done[h] /\ Off(s, h) = Come(cursor, s) + 1 + m
      BY <1>4, <2>5, <2>6, RingBounds
    <3> HIDE DEF h
    <3>2. h \in {blit, taken, painting} /\ h # Decoder!None
      BY <1>5, <3>1, RingBounds DEF HeldByOne
    <3>3. h # blit
      BY <2>2, <2>5, <2>6, <3>1, <3>2
    <3> QED
      BY <3>1, <3>2, <3>3
  <2>7. step = 0 \/ (step = 1 /\ Ahead(s))
    <3>1. CASE step = 0
      BY <3>1
    <3>2. CASE step # 0
      <4>1. 0 < step /\ 0 \in 0 .. RingSize - 1 /\ Come(cursor, s) + 1 + 0 < RingSize
        BY <2>2, <2>3, <2>5, <3>2
      <4>2. PICK h \in {taken, painting} : h # Decoder!None /\ Off(s, h) = Come(cursor, s) + 1 + 0
        BY <2>6, <4>1
      <4>3. Ahead(s)
        BY <2>5, <4>2 DEF Ahead
      <4>4. Come(cursor, s) + 1 + 1 < RingSize
        BY <2>2, <2>3, <2>5, <4>3
      <4>5. ~(1 < step)
        <5> SUFFICES ASSUME 1 < step
                     PROVE  FALSE
          OBVIOUS
        <5>1. 1 \in 0 .. RingSize - 1
          BY <2>3, <2>5
        <5>2. PICK g \in {taken, painting} : g # Decoder!None /\ Off(s, g) = Come(cursor, s) + 1 + 1
          BY <2>6, <4>4, <5>1
        <5>3. g = h
          BY <4>2, <5>2 DEF HeldByOne
        <5> QED
          BY <2>5, <4>2, <5>2, <5>3
      <4> QED
        BY <2>5, <3>2, <4>3, <4>5
    <3> QED
      BY <3>1, <3>2
  <2>8. Come(cursor', s) = Come(cursor, s) + 1 + step /\ free # s
    <3>1. Come(cursor, s) + 1 + step < RingSize
      <4>1. CASE step = 0
        BY <2>2, <2>3, <2>5, <4>1
      <4>2. CASE step = 1 /\ Ahead(s)
        BY <2>2, <2>3, <2>5, <4>2
      <4> QED
        BY <2>7, <4>1, <4>2
    <3>2. Off(s, free) = Come(cursor, s) + 1 + step
      BY <2>5, <3>1 DEF free
    <3> QED
      BY <1>4, <1>6, <2>1, <2>5, <3>2
  <2>9. Ahead(s)' => Ahead(s) /\ step = 0
    <3>1. ASSUME Ahead(s)'
          PROVE  Ahead(s) /\ step = 0
      <4>1. PICK h \in {taken, painting} : h # Decoder!None /\
              Off(s, h) > Come(cursor, s) + 1 + step
        BY <1>5, <2>8, <3>1 DEF Ahead, Off
      <4>2. h \in Decoder!Slots
        BY <4>1 DEF DecoderTyped
      <4>3. Off(s, h) > Come(cursor, s)
        BY <2>5, <4>1, <4>2
      <4>4. Ahead(s)
        BY <4>1, <4>3 DEF Ahead
      <4>5. step # 1
        <5> SUFFICES ASSUME step = 1
                     PROVE  FALSE
          OBVIOUS
        <5>1. 0 < step /\ 0 \in 0 .. RingSize - 1 /\ Come(cursor, s) + 1 + 0 < RingSize
          BY <2>2, <2>3, <2>5
        <5>2. PICK g \in {taken, painting} : g # Decoder!None /\ Off(s, g) = Come(cursor, s) + 1 + 0
          BY <2>6, <5>1
        <5>3. g = h
          BY <4>1, <5>2 DEF HeldByOne
        <5> QED
          BY <2>5, <4>1, <4>2, <5>2, <5>3
      <4> QED
        BY <2>7, <4>4, <4>5
    <3> QED
      BY <3>1
  <2>10. blit' # Decoder!None => Off(s, blit') <= Come(cursor', s)
    <3>1. ASSUME blit # Decoder!None
          PROVE  Off(s, blit) <= Come(cursor, s) + 1 + step
      <4>1. blit \in Decoder!Slots
        BY <3>1 DEF DecoderTyped
      <4>2. Off(s, blit) \in Int /\ Come(cursor, s) \in Int /\ step \in Nat
        BY <2>5, <4>1
      <4>3. Off(s, blit) <= Come(cursor, s)
        BY <2>2, <3>1
      <4> HIDE DEF Come
      <4> QED
        BY <4>2, <4>3
    <3> QED
      BY <1>5, <2>8, <3>1 DEF Off
  <2>11. Come(cursor', s) <= Since(i)' + 1 /\ (Ahead(s)' => Come(cursor', s) <= Since(i)')
    <3>1. CASE step = 0
      <4>1. Come(cursor', s) <= Since(i)' + 1
        BY <2>2, <2>3, <2>4, <2>5, <2>8, <3>1
      <4>2. ASSUME Ahead(s)'
            PROVE  Come(cursor', s) <= Since(i)'
        <5>1. Come(cursor, s) <= Since(i)
          BY <2>2, <2>9, <4>2
        <5> QED
          BY <2>3, <2>4, <2>5, <2>8, <3>1, <5>1
      <4> QED
        BY <4>1, <4>2
    <3>2. CASE step = 1 /\ Ahead(s)
      <4>1. ~Ahead(s)'
        BY <2>9, <3>2
      <4> QED
        BY <2>2, <2>3, <2>4, <2>5, <2>8, <3>2, <4>1
    <3> QED
      BY <2>7, <3>1, <3>2
  <2> QED
    BY <1>5, <2>1, <2>8, <2>10, <2>11 DEF RefIsBehind
<1> QED
  BY <1>8, <1>9, <1>10 DEF DecoderInv

(* A decoded picture is a reference of those to come, or none; the older   *)
(* references stay, one picture further behind, or the oldest goes.        *)
LEMMA RefsAfter ==
  ASSUME Decoder!SurfacesAssumption, DecoderTyped, target \in Decoder!Slots,
         NEW put \in BOOLEAN, Decoder!Decode(put)
  PROVE  /\ dpb' \in Seq(Decoder!Slots) /\ Len(dpb') \in 0 .. RingKeeps
         /\ \A j \in 1 .. Len(dpb') :
              \/ dpb'[j] = target /\ j = Len(dpb') /\ plain' = 0
              \/ \E i \in 1 .. Len(dpb) :
                   /\ dpb'[j] = dpb[i]
                   /\ \/ Len(dpb') - j = Len(dpb) - i /\ plain' = plain + 1
                      \/ Len(dpb') - j = Len(dpb) - i + 1 /\ plain' = 0
<1>1. dpb' = Decoder!Refs /\ plain' = IF picture = "plain" THEN plain + 1 ELSE 0
  BY DEF Decoder!Decode
<1>2. /\ RingSize \in Nat \ {0} /\ RingKeeps \in Nat \ {0} /\ RingPlain \in Nat
      /\ plain \in 0 .. RingPlain
  BY RingBounds DEF DecoderTyped
<1>3. target \in Decoder!Slots
  OBVIOUS
<1>4. dpb \in Seq(Decoder!Slots) /\ Len(dpb) \in 0 .. RingKeeps
  BY <1>2 DEF DecoderTyped
<1> DEFINE before == IF picture = "idr" THEN <<>> ELSE dpb
           after == IF picture = "plain" THEN before ELSE Append(before, target)
<1>5. /\ before \in Seq(Decoder!Slots) /\ Len(before) \in 0 .. RingKeeps
      /\ (before = dpb \/ before = <<>>)
  BY <1>2, <1>4, NoneQueued
<1>6. dpb' = IF Len(after) > RingKeeps THEN Tail(after) ELSE after
  BY <1>1 DEF Decoder!Refs
<1>7. Len(before) = 0 \/ before = dpb
  BY <1>5, NoneQueued
<1> HIDE DEF before
<1>8. CASE picture = "plain"
  <2>1. dpb' = before /\ plain' = plain + 1
    BY <1>1, <1>2, <1>5, <1>6, <1>8
  <2>2. CASE Len(before) = 0
    BY <1>2, <1>5, <2>1, <2>2
  <2>3. CASE before = dpb
    <3>1. dpb' \in Seq(Decoder!Slots) /\ Len(dpb') \in 0 .. RingKeeps
      BY <1>5, <2>1
    <3>2. \A j \in 1 .. Len(dpb') : dpb'[j] = dpb[j] /\ Len(dpb') - j = Len(dpb) - j /\
            j \in 1 .. Len(dpb)
      BY <2>1, <2>3
    <3> QED
      BY <2>1, <3>1, <3>2
  <2> QED
    BY <1>7, <2>2, <2>3
<1>9. CASE picture # "plain"
  <2>1. /\ after \in Seq(Decoder!Slots) /\ Len(after) = Len(before) + 1 /\ plain' = 0
        /\ \A i \in 1 .. Len(before) : after[i] = before[i]
        /\ after[Len(before) + 1] = target
    BY <1>1, <1>3, <1>5, <1>9, Appended
  <2> HIDE DEF after
  <2>2. CASE Len(after) <= RingKeeps
    <3>1. dpb' = after
      BY <1>2, <1>5, <1>6, <2>1, <2>2
    <3> QED
      BY <1>2, <1>4, <1>5, <1>7, <2>1, <2>2, <3>1
  <2>3. CASE Len(after) > RingKeeps
    <3>1. /\ dpb' = Tail(after) /\ after # <<>> /\ Len(after) = RingKeeps + 1
      BY <1>2, <1>5, <1>6, <2>1, <2>3, NoneQueued
    <3>2. /\ dpb' \in Seq(Decoder!Slots) /\ Len(dpb') = RingKeeps
          /\ \A i \in 1 .. Len(dpb') : dpb'[i] = after[i + 1]
      BY <1>2, <2>1, <3>1, Received
    <3>3. before = dpb /\ Len(dpb) = RingKeeps
      BY <1>2, <1>5, <1>7, <2>1, <3>1
    <3>4. ASSUME NEW j \in 1 .. Len(dpb')
          PROVE  \/ dpb'[j] = target /\ j = Len(dpb') /\ plain' = 0
                 \/ /\ j + 1 \in 1 .. Len(dpb) /\ dpb'[j] = dpb[j + 1]
                    /\ Len(dpb') - j = Len(dpb) - (j + 1) + 1 /\ plain' = 0
      BY <1>2, <2>1, <3>2, <3>3
    <3>5. \A j \in 1 .. Len(dpb') :
            \/ dpb'[j] = target /\ j = Len(dpb') /\ plain' = 0
            \/ \E i \in 1 .. Len(dpb) :
                 /\ dpb'[j] = dpb[i]
                 /\ Len(dpb') - j = Len(dpb) - i + 1 /\ plain' = 0
      BY <3>4
    <3>6. Len(dpb') \in 0 .. RingKeeps
      BY <1>2, <3>2
    <3> QED
      BY <3>2, <3>5, <3>6
  <2> QED
    BY <1>2, <1>5, <2>1, <2>2, <2>3
<1> QED
  BY <1>8, <1>9

LEMMA DecodeKeeps ==
  ASSUME Decoder!SurfacesAssumption, DecoderTyped, HeldByOne,
         \A i \in 1 .. Len(dpb) : RefIsBehind(i),
         NEW put \in BOOLEAN, Decoder!Decode(put), ~destroyed
  PROVE  DecoderInv'
<1>1. /\ picture # "none" /\ dpb' = Decoder!Refs
      /\ plain' = IF picture = "plain" THEN plain + 1 ELSE 0
      /\ blit' = IF put THEN target ELSE Decoder!None
      /\ picture' = "none" /\ target' = Decoder!None
      /\ UNCHANGED <<opened, cursor, taken, painting, destroyed>>
  BY DEF Decoder!Decode
<1>2. /\ RingSize \in Nat \ {0} /\ RingKeeps \in Nat \ {0} /\ RingPlain \in Nat
      /\ plain \in 0 .. RingPlain /\ (picture = "plain" => plain < RingPlain)
      /\ \A s \in Decoder!Slots : s # Decoder!None
  BY RingBounds DEF DecoderTyped
<1>3. target \in Decoder!Slots /\ Come(cursor, target) = 0 /\ target \notin {blit, taken, painting}
  BY <1>1 DEF DecoderTyped, HeldByOne
<1>4. dpb \in Seq(Decoder!Slots) /\ Len(dpb) \in 0 .. RingKeeps
  BY <1>2 DEF DecoderTyped
<1>5. /\ dpb' \in Seq(Decoder!Slots) /\ Len(dpb') \in 0 .. RingKeeps
      /\ \A j \in 1 .. Len(dpb') :
           \/ dpb'[j] = target /\ j = Len(dpb') /\ plain' = 0
           \/ \E i \in 1 .. Len(dpb) :
                /\ dpb'[j] = dpb[i]
                /\ \/ Len(dpb') - j = Len(dpb) - i /\ plain' = plain + 1
                   \/ Len(dpb') - j = Len(dpb) - i + 1 /\ plain' = 0
  BY <1>3, RefsAfter
<1>6. done' = [s \in Decoder!Slots |-> (done[s] \/ (~put /\ s = target)) \/ s = blit]
  BY <1>3 DEF Decoder!Decode, Decoder!Drop, DecoderTyped
<1>7. DecoderTyped'
  <2>1. done' \in [Decoder!Slots -> BOOLEAN]
    BY <1>6
  <2>2. plain' \in 0 .. RingPlain
    BY <1>1, <1>2
  <2>3. blit' \in Decoder!Slots \cup {Decoder!None}
    BY <1>1, <1>3
  <2> QED
    BY <1>1, <1>5, <2>1, <2>2, <2>3 DEF DecoderTyped
<1>8. HeldByOne'
  <2>1. \A s \in Decoder!Slots : ~done[s] <=> s \in {target, blit, taken, painting}
    BY DEF HeldByOne
  <2>2. \A s \in Decoder!Slots : ~done'[s] <=> ~done[s] /\ (put \/ s # target) /\ s # blit
    BY <1>6
  <2>3. \A s \in Decoder!Slots : ~done'[s] <=> s \in {target', blit', taken', painting'}
    BY <1>1, <1>2, <1>3, <2>1, <2>2 DEF HeldByOne
  <2> QED
    BY <1>1, <1>3, <2>3 DEF HeldByOne
<1>9. ASSUME NEW j \in 1 .. Len(dpb')
      PROVE  RefIsBehind(j)'
  <2>1. PICK s \in Decoder!Slots : dpb'[j] = s
    BY <1>5
  <2>2. /\ blit' # Decoder!None => Off(s, blit') <= Come(cursor, s)
        /\ Come(cursor, s) \in Int /\ s # target'
    BY <1>1, <1>2, <1>3, <2>1, Distances, RingBounds DEF DecoderTyped
  <2>3. Since(j)' = (Len(dpb') - j) * (RingPlain + 1) + plain' + 0
    BY <1>1 DEF Since
  <2>4. Come(cursor, s) <= Since(j)' + 1 /\ (Ahead(s) => Come(cursor, s) <= Since(j)')
    <3>1. CASE s = target /\ j = Len(dpb') /\ plain' = 0
      <4>1. Len(dpb') - j = 0 /\ 0 * (RingPlain + 1) = 0
        BY <1>2, <1>5, <3>1
      <4>2. Since(j)' = 0
        BY <2>3, <3>1, <4>1
      <4> QED
        BY <1>3, <3>1, <4>2
    <3>2. ASSUME NEW i \in 1 .. Len(dpb), s = dpb[i],
                 \/ Len(dpb') - j = Len(dpb) - i /\ plain' = plain + 1
                 \/ Len(dpb') - j = Len(dpb) - i + 1 /\ plain' = 0
          PROVE  Come(cursor, s) <= Since(j)' + 1 /\ (Ahead(s) => Come(cursor, s) <= Since(j)')
      <4> DEFINE before == Len(dpb) - i
      <4>1. before \in Nat /\ before * (RingPlain + 1) \in Nat /\ Since(i) \in Nat
        BY SinceBounded
      <4>2. (before + 1) * (RingPlain + 1) = before * (RingPlain + 1) + RingPlain + 1
        BY <1>2, <4>1
      <4>3. Since(i) = before * (RingPlain + 1) + plain + 1
        BY <1>1 DEF Since
      <4>4. Since(j)' >= Since(i) /\ Since(j)' \in Int
        <5> DEFINE product == before * (RingPlain + 1)
        <5>1. \/ Since(j)' = product + plain' + 0 /\ plain' = plain + 1
              \/ Since(j)' = product + RingPlain + 1 + plain' + 0 /\ plain' = 0
          BY <2>3, <3>2, <4>2
        <5> HIDE DEF before
        <5>2. product \in Nat /\ Since(i) = product + plain + 1
          BY <4>1, <4>3
        <5> HIDE DEF product
        <5> QED
          BY <1>2, <5>1, <5>2
      <4>5. Come(cursor, s) <= Since(i) + 1 /\ (Ahead(s) => Come(cursor, s) <= Since(i))
        BY <3>2 DEF RefIsBehind
      <4>6. Come(cursor, s) <= Since(j)' + 1
        BY <2>2, <4>1, <4>4, <4>5
      <4>7. ASSUME Ahead(s)
            PROVE  Come(cursor, s) <= Since(j)'
        <5>1. Come(cursor, s) <= Since(i)
          BY <4>5, <4>7
        <5> QED
          BY <2>2, <4>1, <4>4, <5>1
      <4> QED
        BY <4>6, <4>7
    <3> QED
      BY <1>5, <2>1, <3>1, <3>2
  <2>5. Ahead(s)' <=> Ahead(s)
    BY <1>1 DEF Ahead
  <2> QED
    BY <1>1, <2>1, <2>2, <2>4, <2>5 DEF RefIsBehind
<1> QED
  BY <1>7, <1>8, <1>9 DEF DecoderInv

LEMMA DecoderKept ==
  ASSUME Decoder!SurfacesAssumption, Decoder!RingIsLongEnough, DecoderInv, ~destroyed,
         Decoder!Next
  PROVE  DecoderInv'
<1>1. DecoderTyped /\ HeldByOne /\ \A i \in 1 .. Len(dpb) : RefIsBehind(i)
  BY DEF DecoderInv
<1>2. \A s \in Decoder!Slots : s # Decoder!None
  BY RingBounds
<1> USE DEF Decoder!decoderVars
<1>3. ASSUME \/ Decoder!Layout
             \/ Decoder!Take
             \/ Decoder!Put
             \/ Decoder!Paint
      PROVE  DecoderInv'
  <2>1. /\ UNCHANGED <<opened, cursor, dpb, picture, target, plain, destroyed>>
        /\ \/ /\ blit # Decoder!None /\ done' = Decoder!Drop(done, blit)
              /\ blit' = Decoder!None /\ UNCHANGED <<taken, painting>>
           \/ /\ painting = Decoder!None /\ blit # Decoder!None /\ done' = Decoder!Drop(done, taken)
              /\ taken' = blit /\ blit' = Decoder!None /\ UNCHANGED painting
           \/ /\ painting # Decoder!None /\ done' = Decoder!Drop(done, painting)
              /\ painting' = Decoder!None /\ UNCHANGED <<blit, taken>>
           \/ /\ painting = Decoder!None /\ painting' = taken /\ taken' = Decoder!None
              /\ UNCHANGED <<blit, done>>
    BY <1>3 DEF Decoder!Layout, Decoder!Take, Decoder!Put, Decoder!Paint
  <2>2. /\ blit' \in {blit, Decoder!None}
        /\ taken' \in {taken, blit, Decoder!None} /\ painting' \in {painting, taken, Decoder!None}
        /\ \A b : Decoder!Drop(done, b) \in [Decoder!Slots -> BOOLEAN]
        /\ done' \in [Decoder!Slots -> BOOLEAN]
    <3>1. \A b : Decoder!Drop(done, b) \in [Decoder!Slots -> BOOLEAN]
      BY <1>1 DEF DecoderTyped, Decoder!Drop
    <3> QED
      BY <1>1, <2>1, <3>1 DEF DecoderTyped
  <2>3. DecoderTyped'
    BY <1>1, <2>1, <2>2 DEF DecoderTyped
  <2>4. HeldByOne'
    <3>1. \A s \in Decoder!Slots : ~done[s] <=> s \in {target, blit, taken, painting}
      BY <1>1 DEF HeldByOne
    <3>2. \A b : \A s \in Decoder!Slots : Decoder!Drop(done, b)[s] <=> done[s] \/ s = b
      BY DEF Decoder!Drop
    <3>3. \A s \in Decoder!Slots : ~done'[s] <=> s \in {target', blit', taken', painting'}
      BY <1>1, <1>2, <2>1, <3>1, <3>2 DEF HeldByOne
    <3> QED
      BY <1>1, <2>1, <3>3 DEF HeldByOne
  <2>5. ASSUME NEW i \in 1 .. Len(dpb')
        PROVE  RefIsBehind(i)'
    <3>1. RefIsBehind(i) /\ dpb'[i] = dpb[i]
      BY <1>1, <2>1, <2>5
    <3>2. PICK s \in Decoder!Slots : s = dpb[i]
      BY <1>1, <2>1, <2>5 DEF DecoderTyped
    <3>3. blit # Decoder!None => blit \in Decoder!Slots /\ Off(s, blit) <= Come(cursor, s)
      BY <1>1, <3>1, <3>2 DEF DecoderTyped, RefIsBehind
    <3>4. blit # Decoder!None => ~(Off(s, blit) > Come(cursor, s))
      <4>4. \A h \in Decoder!Slots : Off(s, h) \in Decoder!Slots
        BY Distances, <1>1 DEF DecoderTyped
      <4>1. \A h \in Decoder!Slots : Off(s, h) \in Int
        BY <4>4, RingBounds
      <4>2. Come(cursor, s) \in Decoder!Slots
        BY Distances, <1>1 DEF DecoderTyped
      <4>3. Come(cursor, s) \in Int
        BY <4>2, RingBounds
      <4> QED
        BY <3>3, <4>1, <4>3
    <3>5. Ahead(s)' => Ahead(s)
      BY <2>1, <3>4 DEF Ahead, Off
    <3>6. Since(i)' = Since(i)
      BY <2>1 DEF Since
    <3>7. blit' # Decoder!None => Off(s, blit') <= Come(cursor, s)
      BY <2>2, <3>3
    <3> QED
      BY <2>1, <3>1, <3>2, <3>5, <3>6, <3>7 DEF RefIsBehind
  <2> QED
    BY <2>3, <2>4, <2>5 DEF DecoderInv
<1> QED
  BY <1>1, <1>3, ContextGoes, AllocKeeps, DecodeKeeps DEF Decoder!Next

(* The types alone ask for nothing of the ring.                            *)
DecoderTypes == DecoderTyped /\ (picture # "none" => target \in Decoder!Slots)

LEMMA DecoderTypesKept ==
  ASSUME Decoder!SurfacesAssumption, DecoderTypes, Decoder!Next
  PROVE  DecoderTypes'
<1> USE DEF Decoder!decoderVars, Decoder!canvasVars
<1>1. DecoderTyped
  BY DEF DecoderTypes
<1>2. \A b : Decoder!Drop(done, b) \in [Decoder!Slots -> BOOLEAN]
  BY <1>1 DEF DecoderTyped, Decoder!Drop
<1>3. CASE Decoder!NewContext \/ Decoder!DropDecoder
  <2>1. /\ opened' \in BOOLEAN /\ done' = [s \in Decoder!Slots |-> TRUE] /\ dpb' = <<>>
        /\ cursor' \in {cursor, 0} /\ picture' = "none" /\ target' \in {target, Decoder!None}
        /\ plain' \in {plain, 0} /\ destroyed' = (Decoder!Held # {})
        /\ UNCHANGED <<blit, taken, painting>>
    BY <1>3 DEF Decoder!NewContext, Decoder!DropDecoder
  <2>2. dpb' \in Seq(Decoder!Slots) /\ Len(dpb') = 0 /\ 0 \in Decoder!Slots /\ 0 \in 0 .. RingPlain
    BY <2>1, NoneQueued, RingBounds
  <2> QED
    BY <1>1, <2>1, <2>2, RingBounds DEF DecoderTypes, DecoderTyped
<1>4. ASSUME NEW kind \in Decoder!Pictures, Decoder!Alloc(kind)
      PROVE  DecoderTypes'
  BY <1>1, <1>4, AllocTakes DEF DecoderTypes
<1>5. ASSUME NEW put \in BOOLEAN, Decoder!Decode(put)
      PROVE  DecoderTypes'
  <2>1. /\ picture # "none" /\ target \in Decoder!Slots /\ picture' = "none"
        /\ plain' = IF picture = "plain" THEN plain + 1 ELSE 0
        /\ blit' \in {target, Decoder!None} /\ target' = Decoder!None
        /\ UNCHANGED <<opened, cursor, taken, painting, destroyed>>
    BY <1>5 DEF Decoder!Decode, DecoderTypes
  <2>2. done' \in [Decoder!Slots -> BOOLEAN]
    BY <1>5 DEF Decoder!Decode, Decoder!Drop
  <2>3. dpb' \in Seq(Decoder!Slots) /\ Len(dpb') <= RingKeeps
    BY <1>1, <1>5, <2>1, RefsAfter, RingBounds
  <2>4. plain' \in 0 .. RingPlain
    BY <1>1, <2>1, RingBounds DEF DecoderTyped
  <2> QED
    BY <1>1, <2>1, <2>2, <2>3, <2>4 DEF DecoderTypes, DecoderTyped
<1>6. CASE Decoder!Layout \/ Decoder!Take \/ Decoder!Put \/ Decoder!Paint
  <2>1. /\ UNCHANGED <<opened, cursor, dpb, picture, target, plain, destroyed>>
        /\ blit' \in {blit, Decoder!None} /\ taken' \in {taken, blit, Decoder!None}
        /\ painting' \in {painting, taken, Decoder!None}
    BY <1>6 DEF Decoder!Layout, Decoder!Take, Decoder!Put, Decoder!Paint
  <2>2. done' \in [Decoder!Slots -> BOOLEAN]
    BY <1>1, <1>2, <1>6 DEF Decoder!Layout, Decoder!Take, Decoder!Put, Decoder!Paint, DecoderTyped
  <2> QED
    BY <1>1, <2>1, <2>2 DEF DecoderTypes, DecoderTyped
<1> QED
  BY <1>3, <1>4, <1>5, <1>6 DEF Decoder!Next

LEMMA PaintAlways == ShellSpec => []PaintInv
<1>1. ShellInit => PaintInv
  BY PaintInitially, ShellAssumptions DEF ShellInit
<1>2. PaintInv /\ [ShellNext]_appVars => PaintInv'
  <2> SUFFICES ASSUME PaintInv, [ShellNext]_appVars
               PROVE  PaintInv'
    OBVIOUS
  <2>1. CASE UNCHANGED paintVars
    BY <2>1 DEF paintVars, PaintInv, PaintTyped, Hidden, BootsOnce, CanvasFollows, NoneLeftBehind,
                Paint!PaintIsScheduled, Paint!Queued
  <2>2. CASE Paint!Next
    BY <2>2, PaintKept, ShellAssumptions
  <2> QED
    BY <2>1, <2>2 DEF ShellNext, appVars
<1> QED
  BY <1>1, <1>2, PTL DEF ShellSpec

LEMMA DecoderAlways ==
  ASSUME Decoder!RingIsLongEnough
  PROVE  ShellSpec => []DecoderInv
<1>1. ShellInit => DecoderInv
  BY DecoderInitially, ShellAssumptions DEF ShellInit
<1>2. DecoderInv /\ [ShellNext]_appVars => DecoderInv'
  <2> SUFFICES ASSUME DecoderInv, [ShellNext]_appVars
               PROVE  DecoderInv'
    OBVIOUS
  <2>1. CASE UNCHANGED decoderVars
    BY <2>1 DEF decoderVars, DecoderInv, DecoderTyped, HeldByOne, RefIsBehind, Since, Ahead, Come,
                Off
  <2>2. CASE ~destroyed /\ Decoder!Next
    BY <2>2, DecoderKept, ShellAssumptions
  <2> QED
    BY <2>1, <2>2 DEF ShellNext, appVars
<1> QED
  BY <1>1, <1>2, PTL DEF ShellSpec

LEMMA DecoderTypesAlways == ShellSpec => []DecoderTypes
<1>1. ShellInit => DecoderTypes
  BY DecoderInitially, ShellAssumptions DEF ShellInit, DecoderInv, DecoderTypes, Decoder!Init
<1>2. DecoderTypes /\ [ShellNext]_appVars => DecoderTypes'
  <2> SUFFICES ASSUME DecoderTypes, [ShellNext]_appVars
               PROVE  DecoderTypes'
    OBVIOUS
  <2>1. CASE UNCHANGED decoderVars
    BY <2>1 DEF decoderVars, DecoderTypes, DecoderTyped
  <2>2. CASE Decoder!Next
    BY <2>2, DecoderTypesKept, ShellAssumptions
  <2> QED
    BY <2>1, <2>2 DEF ShellNext, appVars
<1> QED
  BY <1>1, <1>2, PTL DEF ShellSpec

(* When all is drawn the window shows the newest job of its surface: the   *)
(* canvas has it, as its slot is empty.                                    *)
LEMMA PaintInvSuffices ==
  ASSUME Paint!PaintAssumption, PaintInv
  PROVE  Paint!PaintReachesTheScreen /\ Paint!TypeOK
<1>1. Paint!CanvasAtRest
  <2> SUFFICES ASSUME Paint!AllDrawn, canvas # 0
               PROVE  /\ window[canvas].show = newest[canvas].show
                      /\ newest[canvas].show => window[canvas] = newest[canvas]
                      /\ ~left_behind => \A k \in Paint!Surfaces \ {canvas} : ~window[k].show
    BY DEF Paint!CanvasAtRest
  <2>1. canvas \in Paint!Surfaces
    BY DEF PaintInv, PaintTyped, Paint!Surfaces, Paint!PaintAssumption
  <2>2. paint_job[canvas] = Paint!NoJob
    <3>1. ~Paint!Queued
      BY NoneQueued DEF Paint!AllDrawn, Paint!Queued
    <3> QED
      BY <2>1, <3>1 DEF PaintInv, Paint!PaintIsScheduled, Paint!AllDrawn
  <2>3. last = newest[canvas]
    BY <2>2 DEF PaintInv, CanvasFollows
  <2> QED
    BY <2>3 DEF PaintInv, CanvasFollows, NoneLeftBehind, Paint!AllDrawn
<1>2. Paint!TypeOK
  <2>1. posted \in 0 .. PaintPosts + PaintSurfaces
    <3>1. IsFiniteSet(Hidden) /\ Cardinality(Hidden) <= PaintSurfaces
      <4>1. /\ IsFiniteSet(Paint!Surfaces) /\ Cardinality(Paint!Surfaces) = PaintSurfaces
        BY FS_Interval DEF Paint!Surfaces, Paint!PaintAssumption
      <4>2. Hidden \subseteq Paint!Surfaces
        BY DEF Hidden
      <4> QED
        BY <4>1, <4>2, FS_Subset
    <3>2. Cardinality(Hidden) \in Nat
      BY <3>1, FS_CardinalityType
    <3> QED
      BY <3>1, <3>2 DEF PaintInv, PaintTyped, Paint!PaintAssumption
  <2>2. {newest[k] : k \in Paint!Surfaces} \cup {paint_job[k] : k \in Paint!Surfaces} \cup {last}
          \cup {window[k] : k \in Paint!Surfaces} \subseteq Paint!PaintJobs \cup {Paint!NoJob}
    BY DEF PaintInv, PaintTyped
  <2> QED
    BY <2>1, <2>2 DEF PaintInv, PaintTyped, Paint!TypeOK
<1> QED
  BY <1>1, <1>2 DEF PaintInv, Paint!PaintReachesTheScreen

(* No reference is decoded over: the cursor has not come round to it. What *)
(* is held is not decoded over as its flag is down.                        *)
LEMMA DecoderInvSuffices ==
  ASSUME Decoder!SurfacesAssumption, DecoderInv
  PROVE  Decoder!SurfacesAreOwned /\ Decoder!TypeOK
<1>1. Decoder!TargetIsFree
  <2> SUFFICES ASSUME target # Decoder!None, ~destroyed
               PROVE  target \notin Decoder!Held /\ target \notin Decoder!ToSet(dpb)
    BY DEF Decoder!TargetIsFree
  <2>1. target \notin Decoder!Held
    BY DEF DecoderInv, HeldByOne, Decoder!Held
  <2>2. \A i \in 1 .. Len(dpb) : dpb[i] # target
    BY DEF DecoderInv, RefIsBehind
  <2>3. Decoder!ToSet(dpb) = {dpb[i] : i \in 1 .. Len(dpb)}
    BY DEF DecoderInv, DecoderTyped, Decoder!ToSet
  <2> QED
    BY <2>1, <2>2, <2>3
<1>2. Decoder!SurfacesComeBack
  <2> SUFFICES ASSUME ~destroyed
               PROVE  {s \in Decoder!Slots : ~done[s]} =
                        (Decoder!Held \cup {target}) \ {Decoder!None}
    BY DEF Decoder!SurfacesComeBack
  <2>1. \A s \in Decoder!Slots : ~done[s] <=> s \in {target, blit, taken, painting}
    BY DEF DecoderInv, HeldByOne
  <2>2. {target, blit, taken, painting} \subseteq Decoder!Slots \cup {Decoder!None}
    BY DEF DecoderInv, DecoderTyped
  <2>3. Decoder!None \notin Decoder!Slots
    BY RingBounds
  <2> QED
    BY <2>1, <2>2, <2>3 DEF Decoder!Held
<1>3. Decoder!TypeOK
  BY DEF DecoderInv, DecoderTyped, Decoder!TypeOK
<1> QED
  BY <1>1, <1>2, <1>3 DEF Decoder!SurfacesAreOwned

(* PicturesReachTheScreen: what a surface posted last gets to the screen,  *)
(* however many surfaces and jobs there are; and no picture is decoded     *)
(* over one that is still wanted, when the ring has room for the pictures  *)
(* that a picture may refer to. The code asks for no such room: a stream   *)
(* of up to 14 references without a picture between them leaves it.        *)
THEOREM PicturesGetThrough ==
  ASSUME Decoder!RingIsLongEnough
  PROVE  ShellSpec => []PicturesReachTheScreen
<1>1. PaintInv /\ DecoderInv => PicturesReachTheScreen
  BY PaintInvSuffices, DecoderInvSuffices, ShellAssumptions DEF PicturesReachTheScreen
<1>2. ShellSpec => []DecoderInv
  BY DecoderAlways
<1> QED
  BY <1>1, <1>2, PaintAlways, PTL

-----------------------------------------------------------------------------
(* PresentHost                                                             *)

StageTyped ==
  /\ active \in BOOLEAN /\ strayed \in BOOLEAN
  /\ surface \in {Present!NoSurface} \cup Present!Surfaces
  /\ live_bind \in {Present!NoBind} \cup Present!Binds
  /\ last_layout \in {Present!NoLayout} \cup Present!Layouts
  /\ callPc \in [Present!Callers -> {"Idle", "Check", "Ensure", "Store", "Tell", "Send", "Flush",
                                     "Bind", "TakeSurface", "SendShutdown"}]
  /\ layout \in [Present!Callers -> {Present!NoLayout} \cup Present!Layouts]
  /\ created \in [Present!Callers -> BOOLEAN]
  /\ tx \in [Present!Callers -> {Present!NoSurface} \cup Present!Surfaces]
  /\ bind \in [Present!Callers -> {Present!NoBind} \cup Present!Binds]
  /\ thread \in [Present!Surfaces ->
                   {"None", "Starting", "Running", "Leaving", "Gone", "Failed"}]
  /\ stage \in [Present!Surfaces -> [serial : {Present!NoSerial} \cup PageDevices,
                                     bound : {Present!NoBind} \cup Present!Binds]]
  /\ cmds \in [Present!Surfaces -> Seq(Present!Commands)]
  /\ slots \in [PageDevices -> {Present!NoSurface} \cup Present!Surfaces]
  /\ layouts \in 0 .. StageLayouts /\ toggles \in 0 .. StageToggles
  /\ generation \in 0 .. StageBinds /\ ended \in 0 .. StageBinds

(* What a caller has in hand where it needs it. A surface that is about to *)
(* be stored is the caller's own.                                          *)
CallerHolds(c) ==
  /\ callPc[c] \in {"Ensure", "Store", "Tell", "Send"} => layout[c] \in PageDevices
  /\ callPc[c] \in {"Store", "Bind", "SendShutdown"} => tx[c] \in Present!Surfaces
  /\ callPc[c] = "Bind" => bind[c] \in Present!Binds
  /\ created[c] => callPc[c] \in {"Tell", "Send"}
  /\ callPc[c] = "SendShutdown" => tx[c] # surface
  /\ callPc[c] = "Store" =>
       /\ surface # tx[c] /\ thread[tx[c]] \in {"Starting", "Running", "Failed"}
       /\ cmds[tx[c]] = <<>> /\ stage[tx[c]].bound = Present!NoBind
       /\ \A d \in Present!Callers : d # c => tx[d] # tx[c]

SurfaceIsNew(k) ==
  thread[k] = "None" =>
    /\ surface # k /\ \A c \in Present!Callers : tx[c] # k
    /\ cmds[k] = <<>> /\ stage[k].bound = Present!NoBind

(* The surface of the stage has not been told to end.                      *)
StageGoesOn ==
  surface # Present!NoSurface =>
    /\ thread[surface] \in {"Starting", "Running", "Failed"}
    /\ \A i \in 1 .. Len(cmds[surface]) : cmds[surface][i].cmd # "Shutdown"

CallsAreSound ==
  /\ \A c \in Present!Callers : CallerHolds(c)
  /\ \A k \in Present!Surfaces : SurfaceIsNew(k)
  /\ StageGoesOn

(* A window is registered under the device of its stage only, and, unless  *)
(* another surface has taken the slot, it is.                              *)
SlotsFollow ==
  \A s \in PageDevices :
    slots[s] # Present!NoSurface =>
      /\ thread[slots[s]] \in {"Running", "Leaving", "Failed"}
      /\ stage[slots[s]].serial = s

SlotsAreKept ==
  \A k \in Present!Surfaces :
    /\ thread[k] \in {"Starting", "Running", "Leaving", "Failed"} =>
         stage[k].serial \in PageDevices
    /\ ~strayed /\ thread[k] \in {"Running", "Leaving"} => slots[stage[k].serial] = k

(* What a surface that shows `was` shows when the commands of `queue` are  *)
(* through: what it does, or the binding that came last, unless an Unbind  *)
(* for its device comes after.                                             *)
BoundAt(queue, was, i) == IF i = 0 THEN was ELSE queue[i].to

EndsWith(queue, was, i) ==
  IF \E j \in i + 1 .. Len(queue) :
       queue[j].cmd = "Unbind" /\ queue[j].serial = BoundAt(queue, was, i).serial
  THEN Present!NoBind ELSE BoundAt(queue, was, i)

WillShow(queue, was, b) ==
  \E i \in 0 .. Len(queue) :
    /\ i # 0 => queue[i].cmd = "Bind"
    /\ \A j \in i + 1 .. Len(queue) : queue[j].cmd # "Bind"
    /\ b = EndsWith(queue, was, i)

BindComes(k) == \E c \in Present!Callers : callPc[c] = "Bind" /\ tx[c] = k
FlushComes == \E c \in Present!Callers : created[c] \/ callPc[c] = "Flush"

(* The surface of the stage is going to show what is bound, or a call is   *)
(* going to bind it; before its first binding it shows nothing.            *)
StageAgrees ==
  ~strayed /\ surface # Present!NoSurface /\ thread[surface] # "Failed" =>
    \/ WillShow(cmds[surface], stage[surface].bound, live_bind)
    \/ BindComes(surface)
    \/ FlushComes /\ WillShow(cmds[surface], stage[surface].bound, Present!NoBind)

StageIsOff ==
  ~strayed /\ ~active => surface = Present!NoSurface \/ callPc["main"] = "TakeSurface"

PresentInv ==
  StageTyped /\ CallsAreSound /\ SlotsFollow /\ SlotsAreKept /\ StageAgrees /\ StageIsOff

LEMMA Kinds ==
  ASSUME Present!PresentAssumption
  PROVE  /\ \A cmd \in Present!Commands :
              /\ cmd.cmd \in {"Layout", "Bind", "Unbind", "Shutdown"}
              /\ cmd.cmd \in {"Layout", "Unbind"} => cmd.serial \in PageDevices
              /\ cmd.cmd = "Bind" => cmd.to \in Present!Binds
         /\ \A b \in Present!Binds : b.serial \in PageDevices
         /\ \A b \in {Present!NoBind} \cup Present!Binds : b.serial \in PageDevices =>
              b # Present!NoBind
         /\ Present!NoBind.serial \notin PageDevices
         /\ \A k \in Present!Surfaces : k # Present!NoSurface
<1>1. Present!NoBind.serial \notin PageDevices
  BY DEF Present!PresentAssumption, Present!NoBind
<1>2. \A b \in Present!Binds : b.serial \in PageDevices
  BY DEF Present!PresentAssumption, Present!Binds
<1>3. \A k \in Present!Surfaces : k # Present!NoSurface
  BY DEF Present!Surfaces, Present!NoSurface
<1>4. ASSUME NEW cmd \in Present!Commands
      PROVE  /\ cmd.cmd \in {"Layout", "Bind", "Unbind", "Shutdown"}
             /\ cmd.cmd \in {"Layout", "Unbind"} => cmd.serial \in PageDevices
             /\ cmd.cmd = "Bind" => cmd.to \in Present!Binds
  BY DEF Present!Commands
<1> QED
  BY <1>1, <1>2, <1>3, <1>4

(* What a command that is sent changes of what the surface will show.      *)
LEMMA ShownAfterSend ==
  ASSUME Present!PresentAssumption, NEW queue \in Seq(Present!Commands),
         NEW was \in {Present!NoBind} \cup Present!Binds, NEW cmd \in Present!Commands
  PROVE  /\ \A b : cmd.cmd = "Layout" /\ WillShow(queue, was, b) =>
                     WillShow(Append(queue, cmd), was, b)
         /\ cmd.cmd = "Bind" => WillShow(Append(queue, cmd), was, cmd.to)
         /\ \A b : cmd.cmd = "Unbind" /\ WillShow(queue, was, b) =>
                     WillShow(Append(queue, cmd), was,
                              IF b.serial = cmd.serial THEN Present!NoBind ELSE b)
<1> DEFINE longer == Append(queue, cmd)
<1>1. /\ longer \in Seq(Present!Commands) /\ Len(queue) \in Nat /\ Len(longer) = Len(queue) + 1
      /\ \A i \in 1 .. Len(queue) : longer[i] = queue[i]
      /\ longer[Len(queue) + 1] = cmd
  BY Appended
<1> HIDE DEF longer
<1>2. ASSUME NEW b, cmd.cmd = "Layout" \/ cmd.cmd = "Unbind", WillShow(queue, was, b)
      PROVE  WillShow(longer, was, IF cmd.cmd = "Unbind" /\ b.serial = cmd.serial
        THEN Present!NoBind ELSE b)
  <2>1. PICK i \in 0 .. Len(queue) : /\ i # 0 => queue[i].cmd = "Bind"
                                     /\ \A j \in i + 1 .. Len(queue) : queue[j].cmd # "Bind"
                                     /\ b = EndsWith(queue, was, i)
    BY <1>2 DEF WillShow
  <2>2. BoundAt(longer, was, i) = BoundAt(queue, was, i)
    BY <1>1 DEF BoundAt
  <2>3. \A j \in i + 1 .. Len(longer) :
          (j \in i + 1 .. Len(queue) /\ longer[j] = queue[j]) \/ j = Len(queue) + 1
    BY <1>1, <2>1
  <2>4. \A j \in i + 1 .. Len(queue) : j \in i + 1 .. Len(longer) /\ longer[j] = queue[j]
    BY <1>1, <2>1
  <2>5. Len(queue) + 1 \in i + 1 .. Len(longer)
    BY <1>1, <2>1
  <2>6. EndsWith(longer, was, i) =
          IF cmd.cmd = "Unbind" /\ b.serial = cmd.serial THEN Present!NoBind ELSE b
    <3> DEFINE held == BoundAt(queue, was, i)
               Unbound(s) == \E j \in i + 1 .. Len(s) : s[j].cmd = "Unbind" /\
                 s[j].serial = held.serial
    <3>1. b = (IF Unbound(queue) THEN Present!NoBind ELSE held)
          /\ EndsWith(longer, was, i) = IF Unbound(longer) THEN Present!NoBind ELSE held
      BY <2>1, <2>2 DEF EndsWith
    <3>2. Unbound(longer) <=> Unbound(queue) \/ (cmd.cmd = "Unbind" /\ cmd.serial = held.serial)
      BY <1>1, <2>3, <2>4, <2>5
    <3>3. cmd.cmd = "Unbind" => Present!NoBind.serial # cmd.serial
      BY Kinds
    <3> HIDE DEF held, Unbound
    <3> QED
      BY <3>1, <3>2, <3>3
  <2>7. /\ i \in 0 .. Len(longer) /\ (i # 0 => longer[i].cmd = "Bind")
        /\ \A j \in i + 1 .. Len(longer) : longer[j].cmd # "Bind"
    BY <1>1, <1>2, <2>1, <2>3
  <2> QED
    BY <2>6, <2>7 DEF WillShow
<1>3. ASSUME cmd.cmd = "Bind"
      PROVE  WillShow(longer, was, cmd.to)
  <2> DEFINE i == Len(queue) + 1
  <2>1. i \in 0 .. Len(longer) /\ i # 0 /\ i + 1 .. Len(longer) = {} /\ longer[i] = cmd
    BY <1>1
  <2> HIDE DEF i
  <2>2. cmd.to = EndsWith(longer, was, i)
    BY <2>1 DEF EndsWith, BoundAt
  <2> QED
    BY <1>3, <2>1, <2>2 DEF WillShow
<1> QED
  BY <1>2, <1>3 DEF longer

(* What a command changes when the surface comes to it.                    *)
LEMMA ShownAfterStep ==
  ASSUME Present!PresentAssumption, NEW queue \in Seq(Present!Commands), queue # <<>>,
         NEW was \in {Present!NoBind} \cup Present!Binds, NEW b, WillShow(queue, was, b),
         NEW now,
         \/ queue[1].cmd = "Layout" /\ now = was
         \/ queue[1].cmd = "Bind" /\ now = queue[1].to
         \/ /\ queue[1].cmd = "Unbind"
            /\ now = IF was.serial = queue[1].serial THEN Present!NoBind ELSE was
  PROVE  WillShow(Tail(queue), now, b)
<1> DEFINE rest == Tail(queue)
<1>1. /\ rest \in Seq(Present!Commands) /\ Len(queue) \in Nat /\ Len(rest) \in Nat
      /\ Len(rest) = Len(queue) - 1
      /\ \A i \in 1 .. Len(rest) : rest[i] = queue[i + 1]
  BY Received
<1> HIDE DEF rest
<1>2. PICK i \in 0 .. Len(queue) : /\ i # 0 => queue[i].cmd = "Bind"
                                   /\ \A j \in i + 1 .. Len(queue) : queue[j].cmd # "Bind"
                                   /\ b = EndsWith(queue, was, i)
  BY DEF WillShow
<1> DEFINE place == IF i = 0 THEN 0 ELSE i - 1
<1>3. /\ place \in 0 .. Len(rest) /\ (place # 0 => rest[place].cmd = "Bind")
      /\ \A j \in place + 1 .. Len(rest) : rest[j].cmd # "Bind"
  <2>1. place \in 0 .. Len(rest) /\ (place # 0 => rest[place] = queue[i])
    BY <1>1, <1>2
  <2>2. \A j \in place + 1 .. Len(rest) : j + 1 \in i + 1 .. Len(queue) /\ rest[j] = queue[j + 1]
    BY <1>1, <1>2
  <2>3. place # 0 => i # 0
    OBVIOUS
  <2> HIDE DEF place
  <2> QED
    BY <1>2, <2>1, <2>2, <2>3
<1>4. EndsWith(rest, now, place) = EndsWith(queue, was, i)
  <2> DEFINE held == BoundAt(queue, was, i)
             Unbound(s, n, h) == \E j \in n + 1 .. Len(s) : s[j].cmd = "Unbind" /\
               s[j].serial = h.serial
  <2>1. EndsWith(queue, was, i) = IF Unbound(queue, i, held) THEN Present!NoBind ELSE held
    BY DEF EndsWith
  <2>2. EndsWith(rest, now, place) =
          IF Unbound(rest, place, BoundAt(rest, now, place)) THEN Present!NoBind
            ELSE BoundAt(rest, now, place)
    BY DEF EndsWith
  <2>3. CASE i # 0
    <3>1. BoundAt(rest, now, place) = held
      BY <1>1, <1>2, <2>3 DEF BoundAt
    <3>2. Unbound(rest, place, held) <=> Unbound(queue, i, held)
      <4>1. \A j \in place + 1 .. Len(rest) : j + 1 \in i + 1 .. Len(queue) /\
              rest[j] = queue[j + 1]
        BY <1>1, <1>2, <2>3
      <4>2. \A j \in i + 1 .. Len(queue) : j - 1 \in place + 1 .. Len(rest) /\
              rest[j - 1] = queue[j]
        BY <1>1, <1>2, <2>3
      <4> HIDE DEF place, held
      <4>3. ASSUME Unbound(rest, place, held)
            PROVE  Unbound(queue, i, held)
        <5>1. PICK j \in place + 1 .. Len(rest) : rest[j].cmd = "Unbind" /\
                rest[j].serial = held.serial
          BY <4>3
        <5>2. j + 1 \in i + 1 .. Len(queue) /\ rest[j] = queue[j + 1]
          BY <4>1
        <5> QED
          BY <5>1, <5>2
      <4>4. ASSUME Unbound(queue, i, held)
            PROVE  Unbound(rest, place, held)
        <5>1. PICK j \in i + 1 .. Len(queue) : queue[j].cmd = "Unbind" /\
                queue[j].serial = held.serial
          BY <4>4
        <5>2. j - 1 \in place + 1 .. Len(rest) /\ rest[j - 1] = queue[j]
          BY <4>2
        <5> QED
          BY <5>1, <5>2
      <4> QED
        BY <4>3, <4>4
    <3> QED
      BY <2>1, <2>2, <3>1, <3>2
  <2>4. CASE i = 0
    <3>1. BoundAt(rest, now, place) = now /\ held = was /\ place = 0
      BY <2>4 DEF BoundAt
    <3>2. \A h : Unbound(queue, 0, h) <=>
            Unbound(rest, 0, h) \/ (queue[1].cmd = "Unbind" /\ queue[1].serial = h.serial)
      <4>1. \A j \in 1 .. Len(rest) : j + 1 \in 1 .. Len(queue) /\ rest[j] = queue[j + 1]
        BY <1>1
      <4>2. \A j \in 1 .. Len(queue) : j = 1 \/ (j - 1 \in 1 .. Len(rest) /\ rest[j - 1] = queue[j])
        BY <1>1
      <4>3. 1 \in 1 .. Len(queue)
        BY <1>1
      <4>4. ASSUME NEW h, Unbound(rest, 0, h)
            PROVE  Unbound(queue, 0, h)
        <5>1. PICK j \in 1 .. Len(rest) : rest[j].cmd = "Unbind" /\ rest[j].serial = h.serial
          BY <4>4
        <5>2. j + 1 \in 1 .. Len(queue) /\ rest[j] = queue[j + 1]
          BY <4>1
        <5> QED
          BY <5>1, <5>2
      <4>5. ASSUME NEW h, Unbound(queue, 0, h)
            PROVE  Unbound(rest, 0, h) \/ (queue[1].cmd = "Unbind" /\ queue[1].serial = h.serial)
        <5>1. PICK j \in 1 .. Len(queue) : queue[j].cmd = "Unbind" /\ queue[j].serial = h.serial
          BY <4>5
        <5>2. j = 1 \/ (j - 1 \in 1 .. Len(rest) /\ rest[j - 1] = queue[j])
          BY <4>2
        <5> QED
          BY <5>1, <5>2
      <4>6. ASSUME NEW h, queue[1].cmd = "Unbind", queue[1].serial = h.serial
            PROVE  Unbound(queue, 0, h)
        BY <4>3, <4>6
      <4> HIDE DEF Unbound
      <4> QED
        BY <4>4, <4>5, <4>6
    <3>3. queue[1].cmd # "Bind"
      BY <1>1, <1>2, <2>4
    <3>4. ~Unbound(rest, 0, Present!NoBind)
      BY <1>1, Kinds
    <3> HIDE DEF Unbound
    <3> QED
      BY <2>1, <2>2, <2>4, <3>1, <3>2, <3>3, <3>4
  <2> QED
    BY <2>3, <2>4
<1> QED
  BY <1>2, <1>3, <1>4 DEF WillShow, rest

LEMMA ShownOnceThrough ==
  ASSUME NEW queue, queue = <<>>, NEW was, NEW b
  PROVE  WillShow(queue, was, b) <=> b = was
<1>1. queue \in Seq(Present!Commands) /\ Len(queue) = 0
  BY NoneQueued
<1>2. EndsWith(queue, was, 0) = was
  BY <1>1 DEF EndsWith, BoundAt
<1> QED
  BY <1>1, <1>2 DEF WillShow

LEMMA PresentInitially ==
  ASSUME Present!PresentAssumption, Present!Init
  PROVE  PresentInv
<1> USE DEF Present!Init
<1>1. /\ StageLayouts \in Nat /\ StageToggles \in Nat /\ StageBinds \in Nat
      /\ \A k \in Present!Surfaces : cmds[k] \in Seq(Present!Commands)
  BY NoneQueued DEF Present!PresentAssumption
<1>2. cmds \in [Present!Surfaces -> Seq(Present!Commands)]
  BY <1>1
<1>3. StageTyped
  <2>1. /\ callPc \in [Present!Callers -> {"Idle", "Check", "Ensure", "Store", "Tell", "Send",
                                           "Flush", "Bind", "TakeSurface", "SendShutdown"}]
        /\ layout \in [Present!Callers -> {Present!NoLayout} \cup Present!Layouts]
        /\ created \in [Present!Callers -> BOOLEAN]
        /\ tx \in [Present!Callers -> {Present!NoSurface} \cup Present!Surfaces]
        /\ bind \in [Present!Callers -> {Present!NoBind} \cup Present!Binds]
    OBVIOUS
  <2>2. /\ thread \in [Present!Surfaces ->
                   {"None", "Starting", "Running", "Leaving", "Gone", "Failed"}]
        /\ stage \in [Present!Surfaces -> [serial : {Present!NoSerial} \cup PageDevices,
                                     bound : {Present!NoBind} \cup Present!Binds]]
        /\ slots \in [PageDevices -> {Present!NoSurface} \cup Present!Surfaces]
    OBVIOUS
  <2>3. /\ surface \in {Present!NoSurface} \cup Present!Surfaces
        /\ live_bind \in {Present!NoBind} \cup Present!Binds
        /\ active \in BOOLEAN /\ strayed \in BOOLEAN
        /\ last_layout \in {Present!NoLayout} \cup Present!Layouts
    OBVIOUS
  <2>4. /\ layouts \in 0 .. StageLayouts /\ toggles \in 0 .. StageToggles
        /\ generation \in 0 .. StageBinds /\ ended \in 0 .. StageBinds
    BY <1>1
  <2> HIDE DEF Present!Init
  <2> QED
    BY <1>2, <2>1, <2>2, <2>3, <2>4 DEF StageTyped
<1>4. CallsAreSound
  BY Kinds DEF CallsAreSound, CallerHolds, SurfaceIsNew, StageGoesOn
<1> QED
  BY <1>3, <1>4 DEF PresentInv, SlotsFollow, SlotsAreKept, StageAgrees, StageIsOff

(* A command is queued, or nobody will read it; the surface of the stage   *)
(* reads it.                                                               *)
LEMMA Posted ==
  ASSUME Present!PresentAssumption, StageTyped, StageGoesOn, NEW k \in Present!Surfaces,
         NEW cmd \in Present!Commands, Present!Post(k, cmd)
  PROVE  /\ cmds' \in [Present!Surfaces -> Seq(Present!Commands)]
         /\ \A h \in Present!Surfaces : h # k => cmds'[h] = cmds[h]
         /\ k = surface /\ thread[k] # "Failed" => cmds'[k] = Append(cmds[k], cmd)
         /\ k = surface /\ cmd.cmd # "Shutdown" =>
              \A i \in 1 .. Len(cmds'[k]) : cmds'[k][i].cmd # "Shutdown"
<1>1. cmds \in [Present!Surfaces -> Seq(Present!Commands)] /\ cmds[k] \in Seq(Present!Commands)
  BY DEF StageTyped
<1>2. Present!Deaf(k) => \/ thread[k] \in {"Leaving", "Gone", "Failed"}
                         \/ \E i \in 1 .. Len(cmds[k]) : cmds[k][i].cmd = "Shutdown"
  BY DEF Present!Deaf, Present!Contains
<1>3. k = surface => /\ surface # Present!NoSurface
                     /\ thread[k] \in {"Starting", "Running", "Failed"}
                     /\ \A i \in 1 .. Len(cmds[k]) : cmds[k][i].cmd # "Shutdown"
  BY Kinds DEF StageGoesOn
<1>4. cmds' = IF Present!Deaf(k) THEN cmds ELSE [cmds EXCEPT ![k] = Append(cmds[k], cmd)]
  BY DEF Present!Post
<1> DEFINE longer == Append(cmds[k], cmd)
<1>5. /\ longer \in Seq(Present!Commands) /\ Len(cmds[k]) \in Nat
      /\ Len(longer) = Len(cmds[k]) + 1
      /\ \A i \in 1 .. Len(cmds[k]) : longer[i] = cmds[k][i]
      /\ longer[Len(cmds[k]) + 1] = cmd
  BY <1>1, Appended
<1>6. cmds' = IF Present!Deaf(k) THEN cmds ELSE [cmds EXCEPT ![k] = longer]
  BY <1>4
<1> HIDE DEF longer
<1>7. CASE Present!Deaf(k)
  BY <1>1, <1>2, <1>3, <1>6, <1>7
<1>8. CASE ~Present!Deaf(k)
  <2>1. cmds'[k] = longer /\ \A h \in Present!Surfaces : h # k => cmds'[h] = cmds[h]
    BY <1>1, <1>6, <1>8
  <2>2. cmds' \in [Present!Surfaces -> Seq(Present!Commands)]
    BY <1>1, <1>5, <1>6, <1>8
  <2>3. k = surface /\ cmd.cmd # "Shutdown" =>
          \A i \in 1 .. Len(longer) : longer[i].cmd # "Shutdown"
    BY <1>3, <1>5
  <2> QED
    BY <2>1, <2>2, <2>3 DEF longer
<1> QED
  BY <1>7, <1>8

(* The calls. Those that send nothing.                                     *)
LEMMA QuietCallsKeep ==
  ASSUME Present!PresentAssumption, PresentInv,
         \/ Present!SetActive
         \/ Present!Layout
         \/ \E c \in Present!Callers : Present!Check(c) \/ Present!Tell(c) \/ Present!TakeSurface(c)
  PROVE  PresentInv'
<1> USE DEF Present!innerVars, Present!callVars, Present!surfaceVars, Present!countVars,
            Present!Goto, Present!Hold, Present!Forget, Present!Stray
<1>1. StageTyped /\ CallsAreSound /\ SlotsFollow /\ SlotsAreKept /\ StageAgrees /\ StageIsOff
  BY DEF PresentInv
<1>2. {"main", "view", "start"} = Present!Callers /\ Present!Layouts = PageDevices
      /\ \A l \in PageDevices : l # Present!NoLayout
  BY DEF Present!Callers, Present!Layouts, Present!NoLayout, Present!PresentAssumption
<1>3. ASSUME UNCHANGED <<thread, stage, cmds, slots>>, UNCHANGED strayed
      PROVE  SlotsFollow' /\ SlotsAreKept'
  BY <1>1, <1>3 DEF SlotsFollow, SlotsAreKept
<1>4. CASE Present!SetActive
  <2>1. /\ callPc["main"] = "Idle" /\ active' = ~active
        /\ callPc' \in {callPc, [callPc EXCEPT !["main"] = "Check"],
             [callPc EXCEPT !["main"] = "TakeSurface"]}
        /\ active => callPc' = [callPc EXCEPT !["main"] = "TakeSurface"]
        /\ layout' \in {layout, [layout EXCEPT !["main"] = last_layout]}
        /\ toggles < StageToggles /\ toggles' = toggles + 1
        /\ UNCHANGED <<surface, live_bind, last_layout, created, tx, bind, thread, stage, cmds,
                       slots, layouts, generation, ended, strayed>>
    BY <1>4 DEF Present!SetActive
  <2>2. StageTyped'
    <3>1. callPc' \in [Present!Callers -> {"Idle", "Check", "Ensure", "Store", "Tell", "Send",
                                           "Flush", "Bind", "TakeSurface", "SendShutdown"}]
      BY <1>1, <1>2, <2>1 DEF StageTyped
    <3>2. layout' \in [Present!Callers -> {Present!NoLayout} \cup Present!Layouts]
      BY <1>1, <1>2, <2>1 DEF StageTyped
    <3>3. active' \in BOOLEAN /\ layouts' \in 0 .. StageLayouts /\ toggles' \in 0 .. StageToggles
      BY <1>1, <2>1 DEF StageTyped, Present!PresentAssumption
    <3> QED
      BY <1>1, <2>1, <3>1, <3>2, <3>3 DEF StageTyped
  <2>3. CallsAreSound'
    BY <1>1, <1>2, <2>1 DEF StageTyped, CallsAreSound, CallerHolds, SurfaceIsNew, StageGoesOn
  <2>4. StageAgrees' /\ StageIsOff'
    BY <1>1, <1>2, <2>1 DEF StageTyped, StageAgrees, StageIsOff, BindComes, FlushComes
  <2> QED
    BY <1>3, <2>1, <2>2, <2>3, <2>4 DEF PresentInv
<1>5. CASE Present!Layout
  <2>1. /\ callPc["view"] = "Idle" /\ callPc' = [callPc EXCEPT !["view"] = "Check"]
        /\ \E l \in {Present!NoLayout} \cup Present!Layouts :
             layout' = [layout EXCEPT !["view"] = l]
        /\ layouts < StageLayouts /\ layouts' = layouts + 1
        /\ UNCHANGED <<active, surface, live_bind, last_layout, created, tx, bind, thread, stage,
                       cmds, slots, toggles, generation, ended, strayed>>
    BY <1>5 DEF Present!Layout
  <2>2. StageTyped'
    <3>1. callPc' \in [Present!Callers -> {"Idle", "Check", "Ensure", "Store", "Tell", "Send",
                                           "Flush", "Bind", "TakeSurface", "SendShutdown"}]
      BY <1>1, <1>2, <2>1 DEF StageTyped
    <3>2. layout' \in [Present!Callers -> {Present!NoLayout} \cup Present!Layouts]
      BY <1>1, <1>2, <2>1 DEF StageTyped
    <3>3. active' \in BOOLEAN /\ layouts' \in 0 .. StageLayouts /\ toggles' \in 0 .. StageToggles
      BY <1>1, <2>1 DEF StageTyped, Present!PresentAssumption
    <3> QED
      BY <1>1, <2>1, <3>1, <3>2, <3>3 DEF StageTyped
  <2>3. CallsAreSound'
    BY <1>1, <1>2, <2>1 DEF StageTyped, CallsAreSound, CallerHolds, SurfaceIsNew, StageGoesOn
  <2>4. StageAgrees' /\ StageIsOff'
    BY <1>1, <1>2, <2>1 DEF StageTyped, StageAgrees, StageIsOff, BindComes, FlushComes
  <2> QED
    BY <1>3, <2>1, <2>2, <2>3, <2>4 DEF PresentInv
<1>6. ASSUME NEW c \in Present!Callers, Present!Check(c)
      PROVE  PresentInv'
  <2>1. /\ callPc[c] = "Check"
        /\ \E label \in {"Idle", "Ensure", "TakeSurface"} :
             /\ callPc' = [callPc EXCEPT ![c] = label]
             /\ label = "Ensure" => layout[c] # Present!NoLayout /\ UNCHANGED layout
        /\ layout' \in {layout, [layout EXCEPT ![c] = Present!NoLayout]}
        /\ last_layout' \in {last_layout, layout[c]}
        /\ UNCHANGED <<active, surface, live_bind, created, tx, bind, thread, stage, cmds, slots,
                       layouts, toggles, generation, ended, strayed>>
    BY <1>6 DEF Present!Check
  <2>2. StageTyped'
    <3>1. callPc' \in [Present!Callers -> {"Idle", "Check", "Ensure", "Store", "Tell", "Send",
                                           "Flush", "Bind", "TakeSurface", "SendShutdown"}]
      BY <1>1, <1>2, <2>1 DEF StageTyped
    <3>2. /\ layout' \in [Present!Callers -> {Present!NoLayout} \cup Present!Layouts]
          /\ last_layout' \in {Present!NoLayout} \cup Present!Layouts
      BY <1>1, <1>2, <2>1 DEF StageTyped
    <3> QED
      BY <1>1, <2>1, <3>1, <3>2 DEF StageTyped
  <2>3. CallsAreSound'
    BY <1>1, <1>2, <2>1 DEF StageTyped, CallsAreSound, CallerHolds, SurfaceIsNew, StageGoesOn
  <2>4. StageAgrees' /\ StageIsOff'
    BY <1>1, <1>2, <2>1 DEF StageTyped, StageAgrees, StageIsOff, BindComes, FlushComes
  <2> QED
    BY <1>3, <2>1, <2>2, <2>3, <2>4 DEF PresentInv
<1>7. ASSUME NEW c \in Present!Callers, Present!Tell(c)
      PROVE  PresentInv'
  <2>1. /\ callPc[c] = "Tell" /\ callPc' = [callPc EXCEPT ![c] = "Send"]
        /\ tx' = [tx EXCEPT ![c] = surface]
        /\ UNCHANGED <<active, surface, live_bind, last_layout, layout, created, bind, thread,
                       stage, cmds, slots, layouts, toggles, generation, ended, strayed>>
    BY <1>7 DEF Present!Tell
  <2>2. StageTyped'
    BY <1>1, <1>2, <2>1 DEF StageTyped, Present!PresentAssumption
  <2>3. CallsAreSound'
    BY <1>1, <1>2, <2>1 DEF StageTyped, CallsAreSound, CallerHolds, SurfaceIsNew, StageGoesOn
  <2>4. StageAgrees' /\ StageIsOff'
    BY <1>1, <1>2, <2>1 DEF StageTyped, StageAgrees, StageIsOff, BindComes, FlushComes
  <2> QED
    BY <1>3, <2>1, <2>2, <2>3, <2>4 DEF PresentInv
<1>8. ASSUME NEW c \in Present!Callers, Present!TakeSurface(c)
      PROVE  PresentInv'
  <2>1. /\ callPc[c] = "TakeSurface" /\ surface' = Present!NoSurface
        /\ tx' = [tx EXCEPT ![c] = surface]
        /\ callPc' = [callPc EXCEPT ![c] = IF surface = Present!NoSurface THEN "Idle"
             ELSE "SendShutdown"]
        /\ UNCHANGED <<active, live_bind, last_layout, layout, created, bind, thread, stage, cmds,
                       slots, layouts, toggles, generation, ended, strayed>>
    BY <1>8 DEF Present!TakeSurface
  <2>2. StageTyped'
    BY <1>1, <1>2, <2>1 DEF StageTyped, Present!PresentAssumption
  <2>3. CallsAreSound'
    BY <1>1, <1>2, <2>1, Kinds DEF StageTyped, CallsAreSound, CallerHolds, SurfaceIsNew, StageGoesOn
  <2>4. StageAgrees' /\ StageIsOff'
    BY <1>1, <1>2, <2>1 DEF StageTyped, StageAgrees, StageIsOff, BindComes, FlushComes
  <2> QED
    BY <1>3, <2>1, <2>2, <2>3, <2>4 DEF PresentInv
<1> QED
  BY <1>4, <1>5, <1>6, <1>7, <1>8

(* The calls that make a surface, send to one, or bind.                    *)
LEMMA CallsKeep ==
  ASSUME Present!PresentAssumption, PresentInv, NEW c \in Present!Callers,
         \/ Present!Ensure(c)
         \/ Present!Store(c)
         \/ Present!Send(c)
         \/ Present!Flush(c)
         \/ Present!SendBind(c)
         \/ Present!SendShutdown(c)
  PROVE  PresentInv'
<1> USE DEF Present!innerVars, Present!callVars, Present!surfaceVars, Present!countVars,
            Present!Goto, Present!Hold, Present!Forget, Present!Stray
<1>1. StageTyped /\ CallsAreSound /\ SlotsFollow /\ SlotsAreKept /\ StageAgrees /\ StageIsOff
  BY DEF PresentInv
<1>2. {"main", "view", "start"} = Present!Callers /\ Present!Layouts = PageDevices
      /\ (\A l \in PageDevices : l # Present!NoLayout)
      /\ \A k \in Present!Surfaces : k # Present!NoSurface
  BY Kinds DEF Present!Callers, Present!Layouts, Present!NoLayout, Present!PresentAssumption
<1>3. ASSUME UNCHANGED <<thread, stage, slots>>, strayed' \in BOOLEAN, strayed => strayed'
      PROVE  SlotsFollow' /\ SlotsAreKept'
  BY <1>1, <1>3 DEF SlotsFollow, SlotsAreKept
<1>4. CASE Present!Ensure(c)
  <2>1. /\ callPc[c] = "Ensure"
        /\ UNCHANGED <<active, surface, live_bind, last_layout, layout, created, bind, cmds, slots,
                       layouts, toggles, generation, ended, strayed>>
        /\ \/ /\ \E label \in {"Tell", "Idle"} : callPc' = [callPc EXCEPT ![c] = label]
              /\ UNCHANGED <<tx, thread, stage>>
           \/ \E k \in Present!Surfaces :
                /\ thread[k] = "None" /\ thread' = [thread EXCEPT ![k] = "Starting"]
                /\ stage' = [stage EXCEPT ![k].serial = layout[c]]
                /\ tx' = [tx EXCEPT ![c] = k] /\ callPc' = [callPc EXCEPT ![c] = "Store"]
    BY <1>4 DEF Present!Ensure
  <2>2. CASE /\ \E label \in {"Tell", "Idle"} : callPc' = [callPc EXCEPT ![c] = label]
             /\ UNCHANGED <<tx, thread, stage>>
    <3>2. StageTyped'
      BY <1>1, <2>1, <2>2 DEF StageTyped
    <3>3. CallsAreSound'
      BY <1>1, <2>1, <2>2 DEF StageTyped, CallsAreSound, CallerHolds, SurfaceIsNew, StageGoesOn
    <3>4. StageAgrees' /\ StageIsOff'
      BY <1>1, <2>1, <2>2 DEF StageTyped, StageAgrees, StageIsOff, BindComes, FlushComes
    <3>5. SlotsFollow' /\ SlotsAreKept'
      BY <1>1, <2>1, <2>2 DEF SlotsFollow, SlotsAreKept
    <3> QED
      BY <3>2, <3>3, <3>4, <3>5 DEF PresentInv
  <2>3. CASE \E k \in Present!Surfaces :
               /\ thread[k] = "None" /\ thread' = [thread EXCEPT ![k] = "Starting"]
               /\ stage' = [stage EXCEPT ![k].serial = layout[c]]
               /\ tx' = [tx EXCEPT ![c] = k] /\ callPc' = [callPc EXCEPT ![c] = "Store"]
    <3>1. PICK k \in Present!Surfaces :
                /\ thread[k] = "None" /\ thread' = [thread EXCEPT ![k] = "Starting"]
                /\ stage' = [stage EXCEPT ![k].serial = layout[c]]
                /\ tx' = [tx EXCEPT ![c] = k] /\ callPc' = [callPc EXCEPT ![c] = "Store"]
      BY <2>3
    <3>2. /\ layout[c] \in PageDevices /\ surface # k /\ cmds[k] = <<>>
          /\ stage[k].bound = Present!NoBind
          /\ \A d \in Present!Callers : tx[d] # k
      BY <1>1, <2>1, <3>1 DEF CallsAreSound, CallerHolds, SurfaceIsNew
    <3>3. /\ stage'[k].serial = layout[c] /\ stage'[k].bound = Present!NoBind
          /\ \A h \in Present!Surfaces : h # k => stage'[h] = stage[h] /\ thread'[h] = thread[h]
          /\ thread'[k] = "Starting"
      BY <1>1, <3>1, <3>2 DEF StageTyped
    <3>4. StageTyped'
      <4>1. stage' \in [Present!Surfaces -> [serial : {Present!NoSerial} \cup PageDevices,
                                     bound : {Present!NoBind} \cup Present!Binds]]
        BY <1>1, <3>1, <3>2 DEF StageTyped
      <4>2. /\ thread' \in [Present!Surfaces -> {"None", "Starting", "Running", "Leaving", "Gone",
                                                 "Failed"}]
            /\ tx' \in [Present!Callers -> {Present!NoSurface} \cup Present!Surfaces]
        BY <1>1, <3>1 DEF StageTyped
      <4>3. callPc' \in [Present!Callers -> {"Idle", "Check", "Ensure", "Store", "Tell", "Send",
                                             "Flush", "Bind", "TakeSurface", "SendShutdown"}]
        BY <1>1, <3>1 DEF StageTyped
      <4> QED
        BY <1>1, <2>1, <4>1, <4>2, <4>3 DEF StageTyped
    <3>5. CallsAreSound'
      BY <1>1, <1>2, <2>1, <3>1, <3>2, <3>3
      DEF StageTyped, CallsAreSound, CallerHolds, SurfaceIsNew, StageGoesOn
    <3>6. StageAgrees' /\ StageIsOff'
      BY <1>1, <2>1, <3>1, <3>2, <3>3 DEF StageTyped, StageAgrees, StageIsOff, BindComes, FlushComes
    <3>7. SlotsFollow' /\ SlotsAreKept'
      BY <1>1, <1>2, <2>1, <3>1, <3>2, <3>3 DEF SlotsFollow, SlotsAreKept, StageTyped
    <3> QED
      BY <3>4, <3>5, <3>6, <3>7 DEF PresentInv
  <2> QED
    BY <2>1, <2>2, <2>3
<1>5. CASE Present!Store(c)
  <2>1. /\ callPc[c] = "Store" /\ callPc' = [callPc EXCEPT ![c] = "Tell"] /\ surface' = tx[c]
        /\ tx' = [tx EXCEPT ![c] = Present!NoSurface] /\ created' = [created EXCEPT ![c] = TRUE]
        /\ strayed' = (strayed \/ (~active \/ surface # Present!NoSurface))
        /\ UNCHANGED <<active, live_bind, last_layout, layout, bind, thread, stage, cmds, slots,
                       layouts, toggles, generation, ended>>
    BY <1>5 DEF Present!Store
  <2>2. /\ tx[c] \in Present!Surfaces /\ thread[tx[c]] \in {"Starting", "Running", "Failed"}
        /\ cmds[tx[c]] = <<>> /\ stage[tx[c]].bound = Present!NoBind
        /\ \A d \in Present!Callers : d # c => tx[d] # tx[c]
    BY <1>1, <2>1 DEF CallsAreSound, CallerHolds
  <2>3. strayed' \in BOOLEAN /\ (strayed => strayed') /\ (~active => strayed')
    BY <1>1, <2>1, Zenon DEF StageTyped
  <2>4. StageTyped'
    BY <1>1, <2>1, <2>2, <2>3 DEF StageTyped
  <2>5. CallsAreSound'
    <3>1. Len(cmds[tx[c]]) = 0
      BY <2>2, NoneQueued
    <3> QED
      BY <1>1, <1>2, <2>1, <2>2, <3>1 DEF StageTyped, CallsAreSound, CallerHolds, SurfaceIsNew,
         StageGoesOn
  <2>6. StageAgrees' /\ StageIsOff'
    <3>1. WillShow(cmds'[surface'], stage'[surface'].bound, Present!NoBind)
      BY <2>1, <2>2, ShownOnceThrough
    <3>2. FlushComes'
      BY <1>1, <2>1 DEF FlushComes, StageTyped
    <3> QED
      BY <1>1, <2>1, <2>3, <3>1, <3>2 DEF StageAgrees, StageIsOff
  <2> QED
    BY <1>3, <2>1, <2>3, <2>4, <2>5, <2>6 DEF PresentInv
<1>6. CASE Present!Send(c)
  <2> DEFINE cmd == [cmd |-> "Layout", serial |-> layout[c]]
  <2>1. /\ callPc[c] = "Send" /\ tx' = [tx EXCEPT ![c] = Present!NoSurface]
        /\ callPc' = [callPc EXCEPT ![c] = IF created[c] THEN "Flush" ELSE "Idle"]
        /\ created' = [created EXCEPT ![c] = FALSE]
        /\ layout' = [layout EXCEPT ![c] = Present!NoLayout]
        /\ \/ tx[c] = Present!NoSurface /\ UNCHANGED cmds
           \/ tx[c] # Present!NoSurface /\ Present!Post(tx[c], cmd)
        /\ UNCHANGED <<active, surface, live_bind, last_layout, bind, thread, stage, slots, layouts,
                       toggles, generation, ended, strayed>>
    BY <1>6 DEF Present!Send
  <2>2. cmd \in Present!Commands /\ cmd.cmd = "Layout"
    BY <1>1, <2>1 DEF CallsAreSound, CallerHolds, Present!Commands
  <2>3. tx[c] # Present!NoSurface => tx[c] \in Present!Surfaces
    BY <1>1 DEF StageTyped
  <2> HIDE DEF cmd
  <2>4. /\ cmds' \in [Present!Surfaces -> Seq(Present!Commands)]
        /\ \A h \in Present!Surfaces : h # tx[c] => cmds'[h] = cmds[h]
        /\ tx[c] = surface /\ surface # Present!NoSurface /\ thread[surface] # "Failed" =>
             cmds'[surface] = Append(cmds[surface], cmd)
        /\ tx[c] = surface /\ surface # Present!NoSurface =>
             \A i \in 1 .. Len(cmds'[surface]) : cmds'[surface][i].cmd # "Shutdown"
    BY <1>1, <2>1, <2>2, <2>3, Posted DEF CallsAreSound, StageTyped
  <2>5. StageTyped'
    <3>1. callPc' \in [Present!Callers -> {"Idle", "Check", "Ensure", "Store", "Tell", "Send",
                                           "Flush", "Bind", "TakeSurface", "SendShutdown"}]
      BY <1>1, <2>1 DEF StageTyped
    <3>2. /\ layout' \in [Present!Callers -> {Present!NoLayout} \cup Present!Layouts]
          /\ tx' \in [Present!Callers -> {Present!NoSurface} \cup Present!Surfaces]
          /\ created' \in [Present!Callers -> BOOLEAN]
      BY <1>1, <2>1 DEF StageTyped
    <3> QED
      BY <1>1, <2>1, <2>4, <3>1, <3>2 DEF StageTyped
  <2>6. CallsAreSound'
    BY <1>1, <1>2, <2>1, <2>3, <2>4 DEF StageTyped, CallsAreSound, CallerHolds, SurfaceIsNew,
       StageGoesOn
  <2>7. FlushComes => FlushComes'
    BY <1>1, <2>1 DEF StageTyped, FlushComes
  <2>8. BindComes(surface) => BindComes(surface)'
    BY <1>1, <2>1 DEF StageTyped, BindComes
  <2>9. StageAgrees'
    <3> SUFFICES ASSUME ~strayed, surface # Present!NoSurface, thread[surface] # "Failed"
                 PROVE  StageAgrees'
      BY <2>1 DEF StageAgrees
    <3>1. /\ cmds[surface] \in Seq(Present!Commands) /\ surface \in Present!Surfaces
          /\ stage[surface].bound \in {Present!NoBind} \cup Present!Binds
      BY <1>1 DEF StageTyped
    <3>2. \A b : WillShow(cmds[surface], stage[surface].bound, b) =>
                   WillShow(cmds'[surface], stage[surface].bound, b)
      <4>1. CASE tx[c] = surface
        BY <2>2, <2>4, <3>1, <4>1, ShownAfterSend
      <4>2. CASE tx[c] # surface
        BY <2>4, <3>1, <4>2
      <4> QED
        BY <4>1, <4>2
    <3> QED
      BY <1>1, <2>1, <2>7, <2>8, <3>2 DEF StageAgrees
  <2>10. StageIsOff'
    BY <1>1, <2>1 DEF StageIsOff, StageTyped
  <2> QED
    BY <1>1, <1>3, <2>1, <2>5, <2>6, <2>9, <2>10 DEF PresentInv, StageTyped
<1>7. CASE Present!Flush(c)
  <2>1. /\ callPc[c] = "Flush"
        /\ \/ /\ surface = Present!NoSurface \/ live_bind = Present!NoBind
              /\ callPc' = [callPc EXCEPT ![c] = "Idle"] /\ UNCHANGED <<tx, bind>>
           \/ /\ surface # Present!NoSurface /\ live_bind # Present!NoBind
              /\ callPc' = [callPc EXCEPT ![c] = "Bind"] /\ tx' = [tx EXCEPT ![c] = surface]
              /\ bind' = [bind EXCEPT ![c] = live_bind]
        /\ UNCHANGED <<active, surface, live_bind, last_layout, layout, created, thread, stage,
                       cmds, slots, layouts, toggles, generation, ended, strayed>>
    BY <1>7 DEF Present!Flush
  <2>2. StageTyped'
    <3>1. callPc' \in [Present!Callers -> {"Idle", "Check", "Ensure", "Store", "Tell", "Send",
                                           "Flush", "Bind", "TakeSurface", "SendShutdown"}]
      BY <1>1, <2>1, ZenonT(40) DEF StageTyped
    <3>2. tx' \in [Present!Callers -> {Present!NoSurface} \cup Present!Surfaces]
      BY <1>1, <2>1 DEF StageTyped
    <3>3. bind' \in [Present!Callers -> {Present!NoBind} \cup Present!Binds]
      BY <1>1, <2>1 DEF StageTyped
    <3> QED
      BY <1>1, <2>1, <3>1, <3>2, <3>3 DEF StageTyped
  <2>3. CallsAreSound'
    BY <1>1, <1>2, <2>1 DEF StageTyped, CallsAreSound, CallerHolds, SurfaceIsNew, StageGoesOn
  <2>4. StageAgrees' /\ StageIsOff'
    <3>4. callPc["main"] = "TakeSurface" => callPc'["main"] = "TakeSurface"
      BY <1>1, <1>2, <2>1 DEF StageTyped
    <3>1. StageIsOff'
      BY <1>1, <2>1, <3>4 DEF StageIsOff
    <3>2. surface # Present!NoSurface /\ live_bind # Present!NoBind => BindComes(surface)'
      BY <1>1, <2>1 DEF StageTyped, BindComes
    <3>3. BindComes(surface) => BindComes(surface)'
      BY <1>1, <2>1 DEF StageTyped, BindComes
    <3> QED
      BY <1>1, <2>1, <3>1, <3>2, <3>3 DEF StageAgrees
  <2>5. SlotsFollow' /\ SlotsAreKept'
    BY <1>1, <2>1 DEF SlotsFollow, SlotsAreKept
  <2> QED
    BY <2>2, <2>3, <2>4, <2>5 DEF PresentInv
<1>8. CASE Present!SendBind(c)
  <2> DEFINE cmd == [cmd |-> "Bind", to |-> bind[c]]
  <2>1. /\ callPc[c] = "Bind" /\ tx' = [tx EXCEPT ![c] = Present!NoSurface]
        /\ callPc' = [callPc EXCEPT ![c] = "Idle"] /\ bind' = [bind EXCEPT ![c] = Present!NoBind]
        /\ Present!Post(tx[c], cmd)
        /\ strayed' = (strayed \/ bind[c] # live_bind)
        /\ UNCHANGED <<active, surface, live_bind, last_layout, layout, created, thread, stage,
                       slots, layouts, toggles, generation, ended>>
    BY <1>8 DEF Present!SendBind
  <2>2. tx[c] \in Present!Surfaces /\ bind[c] \in Present!Binds
    BY <1>1, <2>1 DEF CallsAreSound, CallerHolds
  <2>3. cmd \in Present!Commands /\ cmd.cmd = "Bind" /\ cmd.to = bind[c]
    BY <2>2 DEF Present!Commands
  <2>4. strayed' \in BOOLEAN /\ (strayed => strayed') /\ (bind[c] # live_bind => strayed')
    BY <1>1, <2>1, Zenon DEF StageTyped
  <2> HIDE DEF cmd
  <2>5. /\ cmds' \in [Present!Surfaces -> Seq(Present!Commands)]
        /\ \A h \in Present!Surfaces : h # tx[c] => cmds'[h] = cmds[h]
        /\ tx[c] = surface /\ thread[surface] # "Failed" =>
             cmds'[surface] = Append(cmds[surface], cmd)
        /\ tx[c] = surface =>
             \A i \in 1 .. Len(cmds'[surface]) : cmds'[surface][i].cmd # "Shutdown"
    BY <1>1, <2>1, <2>2, <2>3, Posted DEF CallsAreSound
  <2>6. StageTyped'
    <3>1. /\ callPc' \in [Present!Callers -> {"Idle", "Check", "Ensure", "Store", "Tell", "Send",
                                              "Flush", "Bind", "TakeSurface", "SendShutdown"}]
          /\ tx' \in [Present!Callers -> {Present!NoSurface} \cup Present!Surfaces]
          /\ bind' \in [Present!Callers -> {Present!NoBind} \cup Present!Binds]
      BY <1>1, <2>1 DEF StageTyped
    <3> QED
      BY <1>1, <2>1, <2>4, <2>5, <3>1 DEF StageTyped
  <2>7. CallsAreSound'
    BY <1>1, <1>2, <2>1, <2>2, <2>5 DEF StageTyped, CallsAreSound, CallerHolds, SurfaceIsNew,
       StageGoesOn
  <2>8. FlushComes => FlushComes'
    BY <1>1, <2>1 DEF StageTyped, FlushComes
  <2>9. tx[c] # surface /\ BindComes(surface) => BindComes(surface)'
    BY <1>1, <2>1 DEF StageTyped, BindComes
  <2>10. StageAgrees'
    <3> SUFFICES ASSUME ~strayed', surface # Present!NoSurface, thread[surface] # "Failed"
                 PROVE  StageAgrees'
      BY <2>1 DEF StageAgrees
    <3>1. /\ cmds[surface] \in Seq(Present!Commands) /\ surface \in Present!Surfaces
          /\ stage[surface].bound \in {Present!NoBind} \cup Present!Binds
      BY <1>1 DEF StageTyped
    <3>2. ~strayed /\ bind[c] = live_bind
      BY <2>4
    <3>3. CASE tx[c] = surface
      <4>1. WillShow(cmds'[surface], stage[surface].bound, live_bind)
        BY <2>3, <2>5, <3>1, <3>2, <3>3, ShownAfterSend
      <4> QED
        BY <2>1, <4>1 DEF StageAgrees
    <3>4. CASE tx[c] # surface
      <4>1. cmds'[surface] = cmds[surface]
        BY <2>5, <3>1, <3>4
      <4> QED
        BY <1>1, <2>1, <2>8, <2>9, <3>2, <3>4, <4>1 DEF StageAgrees
    <3> QED
      BY <3>3, <3>4
  <2>11. StageIsOff'
    BY <1>1, <2>1, <2>4 DEF StageIsOff, StageTyped
  <2> QED
    BY <1>3, <2>1, <2>4, <2>6, <2>7, <2>10, <2>11 DEF PresentInv
<1>9. CASE Present!SendShutdown(c)
  <2> DEFINE cmd == [cmd |-> "Shutdown"]
  <2>1. /\ callPc[c] = "SendShutdown" /\ tx' = [tx EXCEPT ![c] = Present!NoSurface]
        /\ callPc' = [callPc EXCEPT ![c] = "Idle"]
        /\ Present!Post(tx[c], cmd)
        /\ UNCHANGED <<active, surface, live_bind, last_layout, layout, created, bind, thread,
                       stage, slots, layouts, toggles, generation, ended, strayed>>
    BY <1>9 DEF Present!SendShutdown
  <2>2. tx[c] \in Present!Surfaces /\ tx[c] # surface
    BY <1>1, <2>1 DEF CallsAreSound, CallerHolds
  <2>3. cmd \in Present!Commands
    BY DEF Present!Commands
  <2> HIDE DEF cmd
  <2>4. /\ cmds' \in [Present!Surfaces -> Seq(Present!Commands)]
        /\ \A h \in Present!Surfaces : h # tx[c] => cmds'[h] = cmds[h]
    BY <1>1, <2>1, <2>2, <2>3, Posted DEF CallsAreSound
  <2>5. surface # Present!NoSurface => cmds'[surface] = cmds[surface]
    BY <1>1, <2>2, <2>4 DEF StageTyped
  <2>6. StageTyped'
    <3>1. /\ callPc' \in [Present!Callers -> {"Idle", "Check", "Ensure", "Store", "Tell", "Send",
                                              "Flush", "Bind", "TakeSurface", "SendShutdown"}]
          /\ tx' \in [Present!Callers -> {Present!NoSurface} \cup Present!Surfaces]
      BY <1>1, <2>1 DEF StageTyped
    <3> QED
      BY <1>1, <2>1, <2>4, <3>1 DEF StageTyped
  <2>7. CallsAreSound'
    BY <1>1, <1>2, <2>1, <2>2, <2>4, <2>5
    DEF StageTyped, CallsAreSound, CallerHolds, SurfaceIsNew, StageGoesOn
  <2>8. StageAgrees' /\ StageIsOff'
    BY <1>1, <2>1, <2>5 DEF StageTyped, StageAgrees, StageIsOff, BindComes, FlushComes
  <2> QED
    BY <1>1, <1>3, <2>1, <2>6, <2>7, <2>8 DEF PresentInv, StageTyped
<1> QED
  BY <1>4, <1>5, <1>6, <1>7, <1>8, <1>9

(* A session is attached, or one of a device is over.                      *)
LEMMA BindingsKeep ==
  ASSUME Present!PresentAssumption, PresentInv,
         Present!Attach \/ \E s \in Mirrored : Present!Unbind(s)
  PROVE  PresentInv'
<1> USE DEF Present!innerVars, Present!callVars, Present!surfaceVars, Present!countVars,
            Present!Goto, Present!Hold, Present!Forget, Present!Stray
<1>1. StageTyped /\ CallsAreSound /\ SlotsFollow /\ SlotsAreKept /\ StageAgrees /\ StageIsOff
  BY DEF PresentInv
<1>2. /\ {"main", "view", "start"} = Present!Callers /\ Mirrored \subseteq PageDevices
      /\ \A k \in Present!Surfaces : k # Present!NoSurface
      /\ StageBinds \in Nat
  BY Kinds DEF Present!Callers, Present!PresentAssumption
<1>3. ASSUME UNCHANGED <<thread, stage, slots, strayed>>
      PROVE  SlotsFollow' /\ SlotsAreKept'
  BY <1>1, <1>3 DEF SlotsFollow, SlotsAreKept
<1>4. CASE Present!Attach
  <2>1. /\ callPc["start"] = "Idle" /\ generation < StageBinds /\ generation' = generation + 1
        /\ \E s \in Mirrored : live_bind' = [serial |-> s, generation |-> generation']
        /\ \/ surface = Present!NoSurface /\ UNCHANGED <<callPc, tx, bind>>
           \/ /\ surface # Present!NoSurface /\ callPc' = [callPc EXCEPT !["start"] = "Bind"]
              /\ tx' = [tx EXCEPT !["start"] = surface]
              /\ bind' = [bind EXCEPT !["start"] = live_bind']
        /\ UNCHANGED <<active, surface, last_layout, layout, created, thread, stage, cmds, slots,
                       layouts, toggles, ended, strayed>>
    BY <1>4 DEF Present!Attach
  <2>2. live_bind' \in Present!Binds
    BY <1>1, <1>2, <2>1 DEF Present!Binds, StageTyped
  <2>3. StageTyped'
    <3>1. callPc' \in [Present!Callers -> {"Idle", "Check", "Ensure", "Store", "Tell", "Send",
                                           "Flush", "Bind", "TakeSurface", "SendShutdown"}]
      BY <1>1, <2>1 DEF StageTyped
    <3>2. tx' \in [Present!Callers -> {Present!NoSurface} \cup Present!Surfaces]
      BY <1>1, <2>1 DEF StageTyped
    <3>3. bind' \in [Present!Callers -> {Present!NoBind} \cup Present!Binds]
      <4>1. UNCHANGED bind \/ \E b \in Present!Binds : bind' = [bind EXCEPT !["start"] = b]
        BY <2>1, <2>2
      <4> QED
        BY <1>1, <4>1 DEF StageTyped
    <3>4. generation' \in 0 .. StageBinds
      BY <1>1, <1>2, <2>1 DEF StageTyped
    <3> QED
      BY <1>1, <2>1, <2>2, <3>1, <3>2, <3>3, <3>4 DEF StageTyped
  <2>4. CallsAreSound'
    BY <1>1, <1>2, <2>1, <2>2 DEF StageTyped, CallsAreSound, CallerHolds, SurfaceIsNew, StageGoesOn
  <2>5. surface # Present!NoSurface => BindComes(surface)'
    BY <1>1, <1>2, <2>1 DEF StageTyped, BindComes
  <2>6. callPc["main"] = callPc'["main"]
    BY <1>1, <1>2, <2>1 DEF StageTyped
  <2>7. StageAgrees' /\ StageIsOff'
    BY <1>1, <2>1, <2>5, <2>6 DEF StageAgrees, StageIsOff
  <2> QED
    BY <1>3, <2>1, <2>3, <2>4, <2>7 DEF PresentInv
<1>5. ASSUME NEW s \in Mirrored, Present!Unbind(s)
      PROVE  PresentInv'
  <2> DEFINE cmd == [cmd |-> "Unbind", serial |-> s]
  <2>1. /\ ended < generation /\ ended' = ended + 1
        /\ live_bind' = IF live_bind.serial = s THEN Present!NoBind ELSE live_bind
        /\ \/ surface = Present!NoSurface /\ UNCHANGED cmds
           \/ surface # Present!NoSurface /\ Present!Post(surface, cmd)
        /\ UNCHANGED <<active, surface, last_layout, callPc, layout, created, tx, bind, thread,
                       stage, slots, layouts, toggles, generation, strayed>>
    BY <1>5 DEF Present!Unbind
  <2>2. cmd \in Present!Commands /\ cmd.cmd = "Unbind" /\ cmd.serial = s
    BY <1>2 DEF Present!Commands
  <2>3. surface # Present!NoSurface => surface \in Present!Surfaces
    BY <1>1 DEF StageTyped
  <2> HIDE DEF cmd
  <2>4. /\ cmds' \in [Present!Surfaces -> Seq(Present!Commands)]
        /\ \A h \in Present!Surfaces : h # surface => cmds'[h] = cmds[h]
        /\ surface # Present!NoSurface =>
             /\ thread[surface] # "Failed" => cmds'[surface] = Append(cmds[surface], cmd)
             /\ \A i \in 1 .. Len(cmds'[surface]) : cmds'[surface][i].cmd # "Shutdown"
    BY <1>1, <2>1, <2>2, <2>3, Posted DEF CallsAreSound, StageTyped
  <2>5. StageTyped'
    <3>1. live_bind' \in {Present!NoBind} \cup Present!Binds
      BY <1>1, <2>1 DEF StageTyped
    <3>2. ended' \in 0 .. StageBinds
      BY <1>1, <1>2, <2>1 DEF StageTyped
    <3> QED
      BY <1>1, <2>1, <2>4, <3>1, <3>2 DEF StageTyped
  <2>6. CallsAreSound'
    BY <1>1, <1>2, <2>1, <2>3, <2>4 DEF StageTyped, CallsAreSound, CallerHolds, SurfaceIsNew,
       StageGoesOn
  <2>7. StageAgrees'
    <3> SUFFICES ASSUME ~strayed, surface # Present!NoSurface, thread[surface] # "Failed"
                 PROVE  StageAgrees'
      BY <2>1 DEF StageAgrees
    <3>1. /\ cmds[surface] \in Seq(Present!Commands) /\ surface \in Present!Surfaces
          /\ stage[surface].bound \in {Present!NoBind} \cup Present!Binds
      BY <1>1 DEF StageTyped
    <3>2. \A b : WillShow(cmds[surface], stage[surface].bound, b) =>
                   WillShow(cmds'[surface], stage[surface].bound,
                            IF b.serial = s THEN Present!NoBind ELSE b)
      BY <2>2, <2>4, <3>1, ShownAfterSend
    <3>3. WillShow(cmds[surface], stage[surface].bound, Present!NoBind) =>
            WillShow(cmds'[surface], stage[surface].bound, Present!NoBind)
      BY <3>2
    <3>4. WillShow(cmds[surface], stage[surface].bound, live_bind) =>
            WillShow(cmds'[surface], stage[surface].bound, live_bind')
      BY <2>1, <3>2
    <3>5. (BindComes(surface) => BindComes(surface)') /\ (FlushComes => FlushComes')
      BY <2>1 DEF BindComes, FlushComes
    <3> QED
      BY <1>1, <2>1, <3>3, <3>4, <3>5 DEF StageAgrees
  <2>8. StageIsOff'
    BY <1>1, <2>1 DEF StageIsOff
  <2> QED
    BY <1>3, <2>1, <2>5, <2>6, <2>7, <2>8 DEF PresentInv
<1> QED
  BY <1>4, <1>5

(* A window that is registered: the slots of the other surfaces stay, or   *)
(* one of them was taken.                                                  *)
LEMMA SurfacesKeep ==
  ASSUME Present!PresentAssumption, PresentInv, NEW k \in Present!Surfaces, Present!SurfaceStep(k)
  PROVE  PresentInv'
<1> USE DEF Present!innerVars, Present!callVars, Present!surfaceVars, Present!countVars,
            Present!Stray
<1>1. StageTyped /\ CallsAreSound /\ SlotsFollow /\ SlotsAreKept /\ StageAgrees /\ StageIsOff
  BY DEF PresentInv
<1>2. /\ \A h \in Present!Surfaces : h # Present!NoSurface
      /\ Present!NoBind.serial \notin PageDevices
      /\ Present!NoBind \in [serial : {Present!NoSerial}, generation : {0}]
  BY Kinds DEF Present!NoBind
<1>3. CASE Present!Begin(k)
  <2>1. /\ thread[k] = "Starting"
        /\ \/ /\ slots' = [slots EXCEPT ![stage[k].serial] = k]
              /\ \E end \in {"Running", "Failed"} : thread' = [thread EXCEPT ![k] = end]
              /\ strayed' = (strayed \/ Present!Taken(k, stage[k].serial))
           \/ thread' = [thread EXCEPT ![k] = "Failed"] /\ UNCHANGED <<slots, strayed>>
        /\ cmds' = [cmds EXCEPT ![k] = IF thread'[k] = "Failed" THEN <<>> ELSE cmds[k]]
        /\ UNCHANGED <<active, surface, live_bind, last_layout, callPc, layout, created, tx, bind,
                       stage, layouts, toggles, generation, ended>>
    BY <1>3 DEF Present!Begin
  <2>2. stage[k].serial \in PageDevices
    BY <1>1, <2>1 DEF SlotsAreKept
  <2>3. strayed' \in BOOLEAN /\ (strayed => strayed')
    BY <1>1, <2>1, Zenon DEF StageTyped
  <2>4. /\ thread'[k] \in {"Running", "Failed"} /\ cmds'[k] \in Seq(Present!Commands)
        /\ cmds'[k] = cmds[k] \/ (cmds'[k] = <<>> /\ thread'[k] = "Failed")
        /\ \A h \in Present!Surfaces : h # k => thread'[h] = thread[h] /\ cmds'[h] = cmds[h]
    BY <1>1, <2>1, NoneQueued DEF StageTyped
  <2>5. StageTyped'
    <3>1. thread' \in [Present!Surfaces -> {"None", "Starting", "Running", "Leaving", "Gone",
                                            "Failed"}]
      BY <1>1, <2>1 DEF StageTyped
    <3>2. cmds' \in [Present!Surfaces -> Seq(Present!Commands)]
      BY <1>1, <2>1, <2>4 DEF StageTyped
    <3>3. slots' \in [PageDevices -> {Present!NoSurface} \cup Present!Surfaces]
      BY <1>1, <2>1 DEF StageTyped
    <3> QED
      BY <1>1, <2>1, <2>3, <3>1, <3>2, <3>3 DEF StageTyped
  <2>6. CallsAreSound'
    <3>1. cmds'[k] = <<>> => Len(cmds'[k]) = 0
      BY NoneQueued
    <3> QED
      BY <1>1, <1>2, <2>1, <2>4, <3>1 DEF StageTyped, CallsAreSound, CallerHolds, SurfaceIsNew,
         StageGoesOn
  <2>7. SlotsFollow'
    <3>1. \A s \in PageDevices : slots[s] # k
      BY <1>1, <1>2, <2>1 DEF SlotsFollow
    <3>2. \A s \in PageDevices : slots'[s] = slots[s] \/ (slots'[s] = k /\ s = stage[k].serial)
      BY <1>1, <2>1, <2>2 DEF StageTyped
    <3>3. \A s \in PageDevices : slots[s] # Present!NoSurface => slots[s] \in Present!Surfaces
      BY <1>1 DEF StageTyped
    <3> QED
      BY <1>1, <2>1, <2>4, <3>1, <3>2, <3>3 DEF SlotsFollow
  <2>8. SlotsAreKept'
    <3>1. CASE slots' = [slots EXCEPT ![stage[k].serial] = k] /\
            strayed' = (strayed \/ Present!Taken(k, stage[k].serial))
      <4>1. ~strayed' => ~strayed /\ slots[stage[k].serial] \in {k, Present!NoSurface}
        BY <3>1 DEF Present!Taken
      <4> QED
        BY <1>1, <1>2, <2>1, <2>2, <2>4, <3>1, <4>1 DEF SlotsAreKept, StageTyped
    <3>2. CASE thread'[k] = "Failed" /\ UNCHANGED <<slots, strayed>>
      BY <1>1, <2>1, <2>2, <2>4, <3>2 DEF SlotsAreKept
    <3>3. thread' = [thread EXCEPT ![k] = "Failed"] => thread'[k] = "Failed"
      BY <1>1 DEF StageTyped
    <3> QED
      BY <2>1, <3>1, <3>2, <3>3
  <2>9. StageAgrees' /\ StageIsOff'
    <3>1. (BindComes(surface) => BindComes(surface)') /\ (FlushComes => FlushComes')
      BY <2>1 DEF BindComes, FlushComes
    <3>2. surface # Present!NoSurface /\ thread'[surface] # "Failed" =>
            cmds'[surface] = cmds[surface] /\ thread[surface] # "Failed"
      BY <1>1, <2>1, <2>4 DEF StageTyped
    <3> QED
      BY <1>1, <2>1, <2>3, <3>1, <3>2 DEF StageAgrees, StageIsOff
  <2> QED
    BY <2>5, <2>6, <2>7, <2>8, <2>9 DEF PresentInv
<1>4. CASE Present!Disconnect(k)
  <2>1. /\ thread[k] = "Running" /\ surface # k /\ \A c \in Present!Callers : tx[c] # k
        /\ thread' = [thread EXCEPT ![k] = "Leaving"]
        /\ UNCHANGED <<active, surface, live_bind, last_layout, callPc, layout, created, tx, bind,
                       stage, cmds, slots, layouts, toggles, generation, ended, strayed>>
    BY <1>4 DEF Present!Disconnect, Present!Disconnected
  <2>2. StageTyped'
    BY <1>1, <2>1 DEF StageTyped
  <2>3. CallsAreSound'
    <3>1. thread'[k] = "Leaving" /\ \A h \in Present!Surfaces : h # k => thread'[h] = thread[h]
      BY <1>1, <2>1 DEF StageTyped
    <3>2. \A c \in Present!Callers : CallerHolds(c)'
      BY <1>1, <2>1, <3>1 DEF CallsAreSound, CallerHolds
    <3>3. \A h \in Present!Surfaces : SurfaceIsNew(h)'
      BY <1>1, <2>1, <3>1 DEF CallsAreSound, SurfaceIsNew
    <3>4. StageGoesOn'
      BY <1>1, <2>1, <3>1 DEF CallsAreSound, StageGoesOn, StageTyped
    <3> QED
      BY <3>2, <3>3, <3>4 DEF CallsAreSound
  <2>4. SlotsFollow' /\ SlotsAreKept'
    BY <1>1, <2>1 DEF SlotsFollow, SlotsAreKept, StageTyped
  <2>5. StageAgrees' /\ StageIsOff'
    BY <1>1, <2>1 DEF StageAgrees, StageIsOff, StageTyped, BindComes, FlushComes
  <2> QED
    BY <2>2, <2>3, <2>4, <2>5 DEF PresentInv
<1>5. CASE Present!Leave(k)
  <2>1. /\ thread[k] = "Leaving" /\ thread' = [thread EXCEPT ![k] = "Gone"]
        /\ slots' = [slots EXCEPT ![stage[k].serial] = Present!NoSurface]
        /\ strayed' = (strayed \/ Present!Taken(k, stage[k].serial))
        /\ cmds' = [cmds EXCEPT ![k] = <<>>]
        /\ stage' = [stage EXCEPT ![k] = [serial |-> Present!NoSerial, bound |-> Present!NoBind]]
        /\ UNCHANGED <<active, surface, live_bind, last_layout, callPc, layout, created, tx, bind,
                       layouts, toggles, generation, ended>>
    BY <1>5 DEF Present!Leave
  <2>2. stage[k].serial \in PageDevices
    BY <1>1, <2>1 DEF SlotsAreKept
  <2>3. /\ strayed' \in BOOLEAN /\ (strayed => strayed')
        /\ ~strayed' => slots[stage[k].serial] \in {k, Present!NoSurface}
    BY <1>1, <2>1, Zenon DEF StageTyped, Present!Taken
  <2>4. /\ thread'[k] = "Gone" /\ cmds'[k] = <<>>
        /\ \A h \in Present!Surfaces : h # k =>
             thread'[h] = thread[h] /\ cmds'[h] = cmds[h] /\ stage'[h] = stage[h]
    BY <1>1, <2>1 DEF StageTyped
  <2>5. StageTyped'
    <3>1. thread' \in [Present!Surfaces -> {"None", "Starting", "Running", "Leaving", "Gone",
                                            "Failed"}]
      BY <1>1, <2>1 DEF StageTyped
    <3>2. cmds' \in [Present!Surfaces -> Seq(Present!Commands)]
      <4>1. <<>> \in Seq(Present!Commands)
        BY NoneQueued
      <4> QED
        BY <1>1, <2>1, <4>1 DEF StageTyped
    <3>3. slots' \in [PageDevices -> {Present!NoSurface} \cup Present!Surfaces]
      BY <1>1, <2>1 DEF StageTyped
    <3>4. stage' \in [Present!Surfaces -> [serial : {Present!NoSerial} \cup PageDevices,
                                     bound : {Present!NoBind} \cup Present!Binds]]
      BY <1>1, <2>1 DEF StageTyped
    <3> QED
      BY <1>1, <2>1, <2>3, <3>1, <3>2, <3>3, <3>4 DEF StageTyped
  <2>6. surface # k
    BY <1>1, <1>2, <2>1 DEF CallsAreSound, StageGoesOn
  <2>7. CallsAreSound'
    BY <1>1, <1>2, <2>1, <2>4, <2>6 DEF StageTyped, CallsAreSound, CallerHolds, SurfaceIsNew,
       StageGoesOn
  <2>8. SlotsFollow'
    BY <1>1, <1>2, <2>1, <2>2, <2>4 DEF SlotsFollow, StageTyped
  <2>9. SlotsAreKept'
    BY <1>1, <1>2, <2>1, <2>2, <2>3, <2>4 DEF SlotsAreKept, StageTyped
  <2>10. StageAgrees' /\ StageIsOff'
    <3>1. (BindComes(surface) => BindComes(surface)') /\ (FlushComes => FlushComes')
      BY <2>1 DEF BindComes, FlushComes
    <3>2. surface # Present!NoSurface =>
            /\ cmds'[surface] = cmds[surface] /\ thread'[surface] = thread[surface]
                                         /\ stage'[surface] = stage[surface]
      BY <1>1, <2>4, <2>6 DEF StageTyped
    <3> QED
      BY <1>1, <2>1, <2>3, <3>1, <3>2 DEF StageAgrees, StageIsOff
  <2> QED
    BY <2>5, <2>7, <2>8, <2>9, <2>10 DEF PresentInv
<1>6. CASE Present!Step(k)
  <2> DEFINE rest == Tail(cmds[k])
  <2> DEFINE cmd == cmds[k][1]
  <2>1. /\ thread[k] = "Running" /\ cmds[k] # <<>> /\ cmds' = [cmds EXCEPT ![k] = rest]
        /\ Present!Apply(k, Head(cmds[k]))
        /\ UNCHANGED <<active, surface, live_bind, last_layout, callPc, layout, created, tx, bind,
                       layouts, toggles, generation, ended>>
    BY <1>6 DEF Present!Step
  <2>2. cmds[k] \in Seq(Present!Commands)
    BY <1>1 DEF StageTyped
  <2>3. /\ Head(cmds[k]) = cmd /\ cmd \in Present!Commands /\ Len(cmds[k]) \in Nat \ {0}
        /\ rest \in Seq(Present!Commands) /\ Len(rest) = Len(cmds[k]) - 1
        /\ \A i \in 1 .. Len(rest) : rest[i] = cmds[k][i + 1]
    BY <2>1, <2>2, Received
  <2> HIDE DEF rest
  <2>4. cmds'[k] = rest /\ \A h \in Present!Surfaces : h # k => cmds'[h] = cmds[h]
    BY <1>1, <2>1 DEF StageTyped
  <2>5. cmds' \in [Present!Surfaces -> Seq(Present!Commands)]
    BY <1>1, <2>1, <2>3 DEF StageTyped
  <2>6. k = surface => cmd.cmd # "Shutdown" /\ \A i \in 1 .. Len(rest) : rest[i].cmd # "Shutdown"
    <3>1. k = surface => \A i \in 1 .. Len(cmds[k]) : cmds[k][i].cmd # "Shutdown"
      BY <1>1, <1>2 DEF CallsAreSound, StageGoesOn
    <3>2. 1 \in 1 .. Len(cmds[k]) /\ \A i \in 1 .. Len(rest) : i + 1 \in 1 .. Len(cmds[k])
      BY <2>3
    <3> QED
      BY <2>3, <3>1, <3>2
  <2> DEFINE Moves(serial) ==
               \/ stage[k].serial = serial /\ UNCHANGED <<slots, strayed>>
               \/ /\ stage[k].serial # serial
                  /\ slots' = [slots EXCEPT ![stage[k].serial] = Present!NoSurface, ![serial] = k]
                  /\ strayed' = (strayed \/ (Present!Taken(k, stage[k].serial) \/
                       Present!Taken(k, serial)))
  <2>7. \/ /\ cmd.cmd = "Layout" /\ Moves(cmd.serial) /\ UNCHANGED thread
           /\ stage' = [stage EXCEPT ![k].serial = cmd.serial]
        \/ /\ cmd.cmd = "Bind" /\ Moves(cmd.to.serial) /\ UNCHANGED thread
           /\ stage' = [stage EXCEPT ![k] = [serial |-> cmd.to.serial, bound |-> cmd.to]]
        \/ /\ cmd.cmd = "Unbind" /\ UNCHANGED <<thread, slots>>
           /\ stage' = IF stage[k].serial = cmd.serial
                THEN [stage EXCEPT ![k].bound = Present!NoBind]
                       ELSE stage
           /\ strayed' = (strayed \/ /\ stage[k].bound # Present!NoBind
                                     /\ stage[k].serial # stage[k].bound.serial
                                     /\ cmd.serial \in {stage[k].serial, stage[k].bound.serial})
        \/ /\ cmd.cmd = "Shutdown" /\ thread' = [thread EXCEPT ![k] = "Leaving"]
           /\ UNCHANGED <<stage, slots, strayed>>
    BY <2>1, <2>3 DEF Present!Apply, Present!Move
  <2>8. strayed' \in BOOLEAN /\ (strayed => strayed')
    <3>1. \/ UNCHANGED strayed
          \/ \E how \in BOOLEAN : strayed' = (strayed \/ how)
      BY <2>7, Zenon
    <3> QED
      BY <1>1, <3>1, Zenon DEF StageTyped
  <2>9. /\ \A serial : Moves(serial) /\ ~strayed' /\ stage[k].serial # serial =>
             /\ slots[stage[k].serial] \in {k, Present!NoSurface}
             /\ slots[serial] \in {k, Present!NoSurface}
    BY Zenon DEF Present!Taken
  <2>10. /\ cmd.cmd \in {"Layout", "Bind", "Unbind", "Shutdown"}
         /\ cmd.cmd \in {"Layout", "Unbind"} => cmd.serial \in PageDevices
         /\ cmd.cmd = "Bind" => cmd.to \in Present!Binds /\ cmd.to.serial \in PageDevices
    BY <2>3, Kinds
  <2>11. stage[k] \in [serial : {Present!NoSerial} \cup PageDevices,
                       bound : {Present!NoBind} \cup Present!Binds] /\
                         stage[k].serial \in PageDevices
    BY <1>1, <2>1 DEF StageTyped, SlotsAreKept
  (* What the command comes to.                                            *)
  <2>12. /\ stage'[k] \in [serial : PageDevices, bound : {Present!NoBind} \cup Present!Binds]
         /\ \A h \in Present!Surfaces : h # k => stage'[h] = stage[h]
         /\ stage' \in [Present!Surfaces -> [serial : {Present!NoSerial} \cup PageDevices,
                                             bound : {Present!NoBind} \cup Present!Binds]]
    <3>1. \E now \in [serial : PageDevices, bound : {Present!NoBind} \cup Present!Binds] :
            stage' = [stage EXCEPT ![k] = now]
      <4>1. stage \in [Present!Surfaces -> [serial : {Present!NoSerial} \cup PageDevices,
                                           bound : {Present!NoBind} \cup Present!Binds]]
        BY <1>1 DEF StageTyped
      <4>2. CASE cmd.cmd = "Layout"
        <5>1. stage' = [stage EXCEPT ![k] = [serial |-> cmd.serial, bound |-> stage[k].bound]]
          BY <2>7, <4>1, <4>2
        <5> QED
          BY <2>10, <2>11, <4>2, <5>1
      <4>3. CASE cmd.cmd = "Bind"
        <5>1. stage' = [stage EXCEPT ![k] = [serial |-> cmd.to.serial, bound |-> cmd.to]]
          BY <2>7, <4>3
        <5> QED
          BY <2>10, <4>3, <5>1
      <4>4. CASE cmd.cmd = "Unbind"
        <5>1. \/ stage' = [stage EXCEPT ![k] = stage[k]]
              \/ stage' = [stage EXCEPT ![k] =
                   [serial |-> stage[k].serial, bound |-> Present!NoBind]]
          BY <2>7, <4>1, <4>4
        <5> QED
          BY <2>11, <5>1
      <4>5. CASE cmd.cmd = "Shutdown"
        <5>1. stage' = [stage EXCEPT ![k] = stage[k]]
          BY <2>7, <4>1, <4>5
        <5> QED
          BY <2>11, <5>1
      <4> QED
        BY <2>10, <4>2, <4>3, <4>4, <4>5
    <3>2. PICK now \in [serial : PageDevices, bound : {Present!NoBind} \cup Present!Binds] :
            stage' = [stage EXCEPT ![k] = now]
      BY <3>1
    <3> QED
      BY <1>1, <3>2 DEF StageTyped
  <2>13. /\ thread'[k] = (IF cmd.cmd = "Shutdown" THEN "Leaving" ELSE "Running")
         /\ \A h \in Present!Surfaces : h # k => thread'[h] = thread[h]
         /\ thread' \in [Present!Surfaces -> {"None", "Starting", "Running", "Leaving", "Gone",
                                              "Failed"}]
    BY <1>1, <2>1, <2>7, <2>10 DEF StageTyped
  <2>14. \/ stage'[k].serial = stage[k].serial /\ UNCHANGED slots
         \/ /\ slots' = [slots EXCEPT ![stage[k].serial] = Present!NoSurface,
                 ![stage'[k].serial] = k]
            /\ ~strayed' => /\ slots[stage[k].serial] \in {k, Present!NoSurface}
                            /\ slots[stage'[k].serial] \in {k, Present!NoSurface}
    <3>1. stage \in [Present!Surfaces -> [serial : {Present!NoSerial} \cup PageDevices,
                                         bound : {Present!NoBind} \cup Present!Binds]]
      BY <1>1 DEF StageTyped
    <3>2. \/ Moves(stage'[k].serial)
          \/ stage'[k].serial = stage[k].serial /\ UNCHANGED slots
      <4>1. CASE cmd.cmd = "Layout"
        <5>1. stage'[k].serial = cmd.serial
          BY <2>7, <2>11, <3>1, <4>1
        <5> QED
          BY <2>7, <4>1, <5>1
      <4>2. CASE cmd.cmd = "Bind"
        <5>1. stage'[k].serial = cmd.to.serial
          BY <2>7, <2>11, <3>1, <4>2
        <5> QED
          BY <2>7, <4>2, <5>1
      <4>3. CASE cmd.cmd \in {"Unbind", "Shutdown"}
        BY <2>7, <2>11, <3>1, <4>3
      <4> QED
        BY <2>10, <4>1, <4>2, <4>3
    <3> QED
      BY <2>9, <3>2
  <2>15. StageTyped'
    <3>1. slots' \in [PageDevices -> {Present!NoSurface} \cup Present!Surfaces]
      <4>1. slots \in [PageDevices -> {Present!NoSurface} \cup Present!Surfaces]
        BY <1>1 DEF StageTyped
      <4>2. \A r, t : [slots EXCEPT ![r] = Present!NoSurface, ![t] = k]
                       \in [PageDevices -> {Present!NoSurface} \cup Present!Surfaces]
        BY <4>1
      <4> QED
        BY <2>14, <4>1, <4>2
    <3> QED
      BY <1>1, <2>1, <2>5, <2>8, <2>12, <2>13, <3>1 DEF StageTyped
  <2>16. CallsAreSound'
    <3>1. ASSUME NEW c \in Present!Callers, callPc[c] = "Store"
          PROVE  tx[c] # k
      <4>1. cmds[k] # <<>>
        BY <2>1
      <4> QED
        BY <1>1, <3>1, <4>1 DEF CallsAreSound, CallerHolds
    <3>2. \A c \in Present!Callers : CallerHolds(c)'
      BY <1>1, <2>1, <2>4, <2>12, <2>13, <3>1 DEF CallsAreSound, CallerHolds
    <3>3. \A h \in Present!Surfaces : SurfaceIsNew(h)'
      BY <1>1, <2>1, <2>4, <2>12, <2>13 DEF CallsAreSound, SurfaceIsNew
    <3>4. StageGoesOn'
      BY <1>1, <2>1, <2>4, <2>6, <2>13 DEF CallsAreSound, StageGoesOn, StageTyped
    <3> QED
      BY <3>2, <3>3, <3>4 DEF CallsAreSound
  <2>17. SlotsFollow'
    <3>1. \A s \in PageDevices : slots[s] = k => s = stage[k].serial
      BY <1>1, <1>2 DEF SlotsFollow
    <3>2. \A s \in PageDevices : slots[s] # Present!NoSurface => slots[s] \in Present!Surfaces
      BY <1>1 DEF StageTyped
    <3>3. \A s \in PageDevices : \/ slots'[s] = Present!NoSurface
                                 \/ slots'[s] = k /\ s = stage'[k].serial
                                 \/ slots'[s] = slots[s] /\ slots[s] # k
      BY <1>1, <2>11, <2>12, <2>14, <3>1 DEF StageTyped
    <3> QED
      BY <1>1, <2>12, <2>13, <3>2, <3>3 DEF SlotsFollow
  <2>18. SlotsAreKept'
    <3>1. ASSUME NEW h \in Present!Surfaces, ~strayed', thread'[h] \in {"Running", "Leaving"}
          PROVE  slots'[stage'[h].serial] = h
      <4>1. /\ ~strayed /\ thread[h] \in {"Running", "Leaving"} /\ slots[stage[h].serial] = h
            /\ stage[h].serial \in PageDevices
        BY <1>1, <2>1, <2>8, <2>13, <3>1 DEF SlotsAreKept
      <4>2. CASE h = k
        BY <1>1, <2>11, <2>12, <2>14, <4>1, <4>2 DEF StageTyped
      <4>3. CASE h # k
        <5>1. stage'[h].serial = stage[h].serial /\ h \notin {k, Present!NoSurface}
          BY <1>2, <2>12, <4>3
        <5>2. \/ UNCHANGED slots
              \/ /\ slots' = [slots EXCEPT ![stage[k].serial] = Present!NoSurface,
                      ![stage'[k].serial] = k]
                 /\ stage[h].serial \notin {stage[k].serial, stage'[k].serial}
          BY <2>14, <3>1, <4>1, <5>1
        <5> QED
          BY <1>1, <4>1, <5>1, <5>2 DEF StageTyped
      <4> QED
        BY <4>2, <4>3
    <3>2. \A h \in Present!Surfaces : thread'[h] \in {"Starting", "Running", "Leaving", "Failed"} =>
            stage'[h].serial \in PageDevices
      BY <1>1, <2>12, <2>13 DEF SlotsAreKept
    <3> QED
      BY <3>1, <3>2 DEF SlotsAreKept
  <2>19. StageAgrees'
    <3> SUFFICES ASSUME ~strayed', surface # Present!NoSurface, thread[surface] # "Failed"
                 PROVE  StageAgrees'
      BY <1>1, <2>1, <2>13 DEF StageAgrees, StageTyped
    <3>1. surface \in Present!Surfaces /\ ~strayed
      BY <1>1, <2>8 DEF StageTyped
    <3>2. (BindComes(surface) => BindComes(surface)') /\ (FlushComes => FlushComes')
      BY <2>1 DEF BindComes, FlushComes
    <3>3. \A b : WillShow(cmds[surface], stage[surface].bound, b) =>
                   WillShow(cmds'[surface], stage'[surface].bound, b)
      <4>1. CASE surface = k
        <5>1. \/ cmd.cmd = "Layout" /\ stage'[k].bound = stage[k].bound
              \/ cmd.cmd = "Bind" /\ stage'[k].bound = cmd.to
              \/ /\ cmd.cmd = "Unbind"
                 /\ stage'[k].bound =
                      IF stage[k].bound.serial = cmd.serial THEN Present!NoBind ELSE stage[k].bound
          <6>1. stage \in [Present!Surfaces -> [serial : {Present!NoSerial} \cup PageDevices,
                                               bound : {Present!NoBind} \cup Present!Binds]]
            BY <1>1 DEF StageTyped
          <6>2. CASE cmd.cmd = "Layout" \/ cmd.cmd = "Bind"
            BY <2>7, <6>1, <6>2
          <6>3. CASE cmd.cmd = "Unbind"
            <7>1. stage'[k].bound = IF stage[k].serial = cmd.serial THEN Present!NoBind
                    ELSE stage[k].bound
              BY <2>7, <6>1, <6>3
            <7>2. \/ stage[k].bound = Present!NoBind
                  \/ stage[k].serial = stage[k].bound.serial
                  \/ cmd.serial \notin {stage[k].serial, stage[k].bound.serial}
              BY <2>7, <6>3, Zenon
            <7> QED
              BY <1>2, <2>10, <6>3, <7>1, <7>2
          <6>4. cmd.cmd # "Shutdown"
            BY <2>6, <4>1
          <6> QED
            BY <2>10, <6>2, <6>3, <6>4
        <5>2. \A b : WillShow(cmds[k], stage[k].bound, b) =>
                WillShow(Tail(cmds[k]), stage'[k].bound, b)
          BY <2>1, <2>2, <2>11, <5>1, ShownAfterStep
        <5> QED
          BY <2>4, <4>1, <5>2 DEF rest
      <4>2. CASE surface # k
        BY <2>4, <2>12, <3>1, <4>2
      <4> QED
        BY <4>1, <4>2
    <3> QED
      BY <1>1, <2>1, <3>1, <3>2, <3>3 DEF StageAgrees
  <2>20. StageIsOff'
    BY <1>1, <2>1, <2>8 DEF StageIsOff
  <2> QED
    BY <2>15, <2>16, <2>17, <2>18, <2>19, <2>20 DEF PresentInv
<1> QED
  BY <1>3, <1>4, <1>5, <1>6 DEF Present!SurfaceStep

LEMMA PresentAlways == ShellSpec => []PresentInv
<1>1. ShellInit => PresentInv
  BY PresentInitially, ShellAssumptions DEF ShellInit
<1>2. PresentInv /\ [ShellNext]_appVars => PresentInv'
  <2> SUFFICES ASSUME PresentInv, [ShellNext]_appVars
               PROVE  PresentInv'
    OBVIOUS
  <2>1. CASE UNCHANGED presentVars
    <3>1. UNCHANGED StageTyped
      BY <2>1 DEF presentVars, StageTyped
    <3>2. UNCHANGED <<CallsAreSound, SlotsFollow, SlotsAreKept>>
      BY <2>1 DEF presentVars, CallsAreSound, CallerHolds, SurfaceIsNew, StageGoesOn, SlotsFollow,
         SlotsAreKept
    <3>3. UNCHANGED <<StageAgrees, StageIsOff>>
      BY <2>1 DEF presentVars, StageAgrees, StageIsOff, BindComes, FlushComes
    <3> QED
      BY <3>1, <3>2, <3>3 DEF PresentInv
  <2>2. CASE Present!Next
    BY <2>2, QuietCallsKeep, CallsKeep, BindingsKeep, SurfacesKeep, ShellAssumptions
    DEF Present!Next, Present!CallStep
  <2> QED
    BY <2>1, <2>2 DEF ShellNext, appVars
<1> QED
  BY <1>1, <1>2, PTL DEF ShellSpec

(* StageAtRest: whatever the order of calls, commands and ends of older    *)
(* surfaces, and however many there are, the stage shows what is bound     *)
(* once they are through, and GeomHost has no window that is gone.         *)
THEOREM StageShowsWhatIsBound == ShellSpec => []StageAtRest
<1>1. PresentInv => StageAtRest
  <2> SUFFICES ASSUME PresentInv
               PROVE  Present!StageAtRest
    BY DEF StageAtRest
  <2>1. StageTyped /\ CallsAreSound /\ SlotsFollow /\ SlotsAreKept /\ StageAgrees /\ StageIsOff
    BY DEF PresentInv
  <2>2. \A s \in PageDevices : slots[s] # Present!NoSurface => thread[slots[s]] # "Gone"
    BY <2>1 DEF SlotsFollow
  <2>3. ASSUME Present!AtRest, ~strayed
        PROVE  /\ ~active => surface = Present!NoSurface
               /\ surface # Present!NoSurface /\ thread[surface] = "Running" =>
                    /\ stage[surface].bound = live_bind
                    /\ slots[stage[surface].serial] = surface
    <3>1. \A c \in Present!Callers : callPc[c] = "Idle" /\ ~created[c]
      BY <2>1, <2>3 DEF Present!AtRest, CallsAreSound, CallerHolds
    <3>2. ~active => surface = Present!NoSurface
      <4>1. callPc["main"] # "TakeSurface"
        BY <3>1 DEF Present!Callers
      <4> QED
        BY <2>1, <2>3, <4>1, Zenon DEF StageIsOff
    <3>3. ASSUME surface # Present!NoSurface, thread[surface] = "Running"
          PROVE  /\ stage[surface].bound = live_bind
                 /\ slots[stage[surface].serial] = surface
      <4>1. surface \in Present!Surfaces /\ cmds[surface] = <<>>
        BY <2>1, <2>3, <3>3 DEF Present!AtRest, StageTyped
      <4>2. WillShow(cmds[surface], stage[surface].bound, live_bind)
        BY <2>1, <2>3, <3>1, <3>3 DEF StageAgrees, BindComes, FlushComes
      <4>3. stage[surface].bound = live_bind
        BY <4>1, <4>2, ShownOnceThrough
      <4>4. slots[stage[surface].serial] = surface
        BY <2>1, <2>3, <3>3, <4>1 DEF SlotsAreKept
      <4> QED
        BY <4>3, <4>4
    <3> QED
      BY <3>2, <3>3
  <2> QED
    BY <2>2, <2>3 DEF Present!StageAtRest
<1> QED
  BY <1>1, PresentAlways, PTL

-----------------------------------------------------------------------------
(* LinuxSeat                                                               *)

SeatFrameSet == [keyframe : BOOLEAN, config : 1 .. SeatConfigs]
SeatCommands ==
  [cmd : {"Layout"}, paused : BOOLEAN] \cup [cmd : {"Bind"}, pipe : Seat!Sessions]
    \cup [cmd : {"Unbind", "Shutdown"}]
SeatRecords ==
  [pipe : 0 .. SeatBinds, va_tried : BOOLEAN, decoder : {"none", "libva", "OpenH264"},
   failed : {"none"} \cup Seat!Failures, last_config : 0 .. SeatConfigs,
   headers : 0 .. SeatConfigs, bound : BOOLEAN, has_frame : BOOLEAN, paused : BOOLEAN,
   published : {"none"} \cup Seat!Binds]

SeatTyped ==
  /\ pipes \in [Seat!Sessions -> [last_config : 0 .. SeatConfigs, pending : BOOLEAN,
                                  queue : Seq(SeatFrameSet)]]
  /\ pushed \in 0 .. SeatFrames /\ changes \in 0 .. SeatChanges
  /\ vld \in BOOLEAN /\ enabled \in BOOLEAN /\ installed \in BOOLEAN /\ paused \in BOOLEAN
  /\ gone_astray \in BOOLEAN
  /\ seat_bind \in 0 .. SeatBinds /\ seat_generation \in 0 .. SeatBinds
  /\ seat_bind # 0 => seat_bind = seat_generation
  /\ seat_surface \in 0 .. SeatSurfaces
  /\ present_bind \in Seat!Binds
  /\ seatThread \in [Seat!Surfaces -> {"None", "Running", "Gone"}]
  /\ seatCmds \in [Seat!Surfaces -> Seq(SeatCommands)]
  /\ seatPc \in [Seat!Surfaces -> {"Recv", "Feed"}]
  /\ batch \in [Seat!Surfaces -> Seq(SeatFrameSet)]
  /\ seat \in [Seat!Surfaces -> SeatRecords]

(* What a seat said last is true of it, but for a failure that OpenH264    *)
(* has been opened over.                                                   *)
SeatSays(s) ==
  /\ ~s.bound => /\ s.published \in {"none", "Idle"} /\ s.decoder = "none" /\ s.failed = "none"
                 /\ ~s.has_frame /\ s.pipe = Seat!Nothing
  /\ s.bound /\ s.failed = "none" => s.published \in {"Loading", "Video", "Paused"}
  /\ s.bound /\ s.failed # "none" /\ s.decoder = "none" => s.published = s.failed
  /\ s.decoder = "libva" => s.failed = "none"

SeatIs(k) ==
  /\ SeatSays(seat[k])
  /\ seatThread[k] = "None" => seat[k] = Seat!NewSeat /\ seatPc[k] = "Recv"
  /\ seatPc[k] = "Feed" => seat[k].bound /\ batch[k] # <<>>

(* What the client was told is what the surface of the page said last, or  *)
(* what the one before left.                                               *)
ClientWasTold ==
  IF seat_surface = 0 THEN present_bind = "Idle"
  ELSE seatThread[seat_surface] = "Running" =>
         \/ present_bind = seat[seat_surface].published
         \/ seat[seat_surface].published = "none" /\ present_bind = "Idle"

SeatInv ==
  /\ SeatTyped
  /\ ~gone_astray => (\A k \in Seat!Surfaces : SeatIs(k)) /\ ClientWasTold

LEMMA NewSeatIsSeat ==
  ASSUME Seat!SeatAssumption
  PROVE  Seat!NewSeat \in SeatRecords /\ SeatSays(Seat!NewSeat)
<1>1. SeatBinds \in Nat /\ SeatConfigs \in Nat
  BY DEF Seat!SeatAssumption
<1>2. Seat!NewSeat \in SeatRecords
  BY <1>1 DEF Seat!NewSeat, SeatRecords, Seat!Nothing
<1>3. SeatSays(Seat!NewSeat)
  BY DEF Seat!NewSeat, SeatSays, Seat!Nothing
<1> QED
  BY <1>2, <1>3

LEMMA SeatInitially ==
  ASSUME Seat!SeatAssumption, Seat!Init
  PROVE  SeatInv
<1> USE DEF Seat!Init
<1>1. /\ SeatSurfaces \in Nat /\ SeatBinds \in Nat /\ SeatConfigs \in Nat /\ SeatFrames \in Nat
      /\ SeatChanges \in Nat
  BY DEF Seat!SeatAssumption
<1>2. \A S : <<>> \in Seq(S)
  BY NoneQueued
<1>3. /\ seatCmds \in [Seat!Surfaces -> Seq(SeatCommands)]
      /\ batch \in [Seat!Surfaces -> Seq(SeatFrameSet)]
  BY <1>2
<1>4. pipes \in [Seat!Sessions -> [last_config : 0 .. SeatConfigs, pending : BOOLEAN,
                                   queue : Seq(SeatFrameSet)]]
  <2>1. Seat!EmptyPipe \in [last_config : 0 .. SeatConfigs, pending : BOOLEAN,
                            queue : Seq(SeatFrameSet)]
    BY <1>1, <1>2 DEF Seat!EmptyPipe, Seat!Nothing
  <2> QED
    BY <2>1
<1>5. seat \in [Seat!Surfaces -> SeatRecords] /\ \A k \in Seat!Surfaces : seat[k] = Seat!NewSeat
  BY NewSeatIsSeat
<1>6. /\ vld \in BOOLEAN /\ enabled \in BOOLEAN /\ installed \in BOOLEAN /\ paused \in BOOLEAN
      /\ gone_astray \in BOOLEAN /\ present_bind \in Seat!Binds
      /\ seatThread \in [Seat!Surfaces -> {"None", "Running", "Gone"}]
      /\ seatPc \in [Seat!Surfaces -> {"Recv", "Feed"}]
  BY DEF Seat!Binds
<1>7. /\ pushed = 0 /\ changes = 0 /\ seat_bind = 0 /\ seat_generation = 0 /\ seat_surface = 0
      /\ present_bind = "Idle" /\ \A k \in Seat!Surfaces : seatPc[k] = "Recv"
  BY DEF Seat!Nothing
<1> HIDE DEF Seat!Init
<1>8. SeatTyped
  BY <1>1, <1>3, <1>4, <1>5, <1>6, <1>7 DEF SeatTyped
<1>9. (\A k \in Seat!Surfaces : SeatIs(k)) /\ ClientWasTold
  BY <1>5, <1>7, NewSeatIsSeat DEF SeatIs, ClientWasTold
<1> QED
  BY <1>8, <1>9 DEF SeatInv

(* What ensure_decoder leaves: a decoder and no failure, or a failure it   *)
(* tells of, or the failure there was.                                     *)
LEMMA Ensured ==
  ASSUME Seat!SeatAssumption, SeatTyped, NEW s \in SeatRecords
  PROVE  LET out == Seat!ensure_decoder(s)
         IN /\ out.seat \in SeatRecords
            /\ out.seat.pipe = s.pipe /\ out.seat.bound = s.bound
            /\ out.seat.has_frame = s.has_frame /\ out.seat.paused = s.paused
            /\ out.seat.published = s.published
            /\ \/ /\ out.seat.decoder # "none" /\ out.seat.failed = "none"
                  /\ \/ out.says = "Loading"
                     \/ /\ out.says = Seat!Silent /\ s.failed = "none"
                        /\ out.seat.decoder = s.decoder
               \/ /\ out.seat.decoder = "none" /\ out.seat.failed \in Seat!Failures
                  /\ out.says = out.seat.failed
               \/ /\ s.decoder = "none" /\ s.failed # "none"
                  /\ out.seat = s /\ out.says = Seat!Silent
<1>1. /\ s.decoder \in {"none", "libva", "OpenH264"} /\ s.failed \in {"none"} \cup Seat!Failures
      /\ s.va_tried \in BOOLEAN /\ 0 \in 0 .. SeatConfigs
  BY DEF SeatRecords, Seat!SeatAssumption
<1> DEFINE Good(out, r) ==
             /\ out.seat \in SeatRecords
             /\ out.seat.pipe = r.pipe /\ out.seat.bound = r.bound
             /\ out.seat.has_frame = r.has_frame /\ out.seat.paused = r.paused
             /\ out.seat.published = r.published
<1>2. ASSUME NEW r \in SeatRecords, NEW failure \in Seat!Failures
      PROVE  LET out == Seat!Fail(r, failure)
             IN Good(out, r) /\ out.seat.decoder = "none" /\ out.seat.failed = failure /\
               out.says = failure
  BY DEF Seat!Fail, SeatRecords
<1>3. ASSUME NEW r \in SeatRecords, NEW decoder \in {"libva", "OpenH264"}
      PROVE  LET out == Seat!Opened(r, decoder)
             IN Good(out, r) /\ out.seat.decoder = decoder /\ out.seat.failed = "none" /\
               out.says = "Loading"
  BY <1>1 DEF Seat!Opened, SeatRecords, Seat!Nothing
<1>4. ASSUME NEW r \in SeatRecords
      PROVE  LET out == Seat!Soft(r)
             IN /\ Good(out, r)
                /\ \/ out.seat.decoder # "none" /\ out.seat.failed = "none" /\ out.says = "Loading"
                   \/ /\ out.seat.decoder = "none" /\ out.seat.failed \in Seat!Failures
                      /\ out.says = out.seat.failed
  <2>1. /\ ~enabled => Seat!Soft(r) = Seat!Fail(r, "Disabled")
        /\ enabled /\ installed => Seat!Soft(r) = Seat!Opened(r, "OpenH264")
        /\ enabled /\ ~installed => Seat!Soft(r) = Seat!Fail(r, "Missing")
    BY DEF Seat!Soft
  <2>2. {"Disabled", "Missing"} = Seat!Failures
    BY DEF Seat!Failures
  <2> HIDE DEF Good
  <2>3. CASE Seat!Soft(r) = Seat!Fail(r, "Disabled")
    BY <1>2, <2>2, <2>3
  <2>4. CASE Seat!Soft(r) = Seat!Fail(r, "Missing")
    BY <1>2, <2>2, <2>4
  <2>5. CASE Seat!Soft(r) = Seat!Opened(r, "OpenH264")
    BY <1>3, <2>5
  <2> QED
    BY <2>1, <2>3, <2>4, <2>5
<1> DEFINE tried == [s EXCEPT !.va_tried = TRUE]
<1>5. /\ tried \in SeatRecords
      /\ tried.pipe = s.pipe /\ tried.bound = s.bound /\ tried.has_frame = s.has_frame
      /\ tried.paused = s.paused /\ tried.published = s.published
  BY DEF SeatRecords
<1> DEFINE kept == [seat |-> [s EXCEPT !.failed = "none"],
                    says |-> IF s.failed = "none" THEN Seat!Silent ELSE "Loading"]
           same == [seat |-> s, says |-> Seat!Silent]
<1>6. CASE Seat!Ready(s)
  <2>1. Seat!ensure_decoder(s) = kept
    BY <1>6 DEF Seat!ensure_decoder, Seat!Ready
  <2>2. kept.seat.decoder = s.decoder /\ kept.seat.failed = "none" /\ Good(kept, s)
    BY DEF SeatRecords
  <2>3. s.decoder # "none"
    BY <1>6 DEF Seat!Ready
  <2> QED
    BY <2>1, <2>2, <2>3
<1>7. CASE s.decoder = "OpenH264" /\ ~enabled
  <2>1. Seat!ensure_decoder(s) = Seat!Fail(s, "Disabled")
    BY <1>7 DEF Seat!ensure_decoder, Seat!Ready
  <2>2. "Disabled" \in Seat!Failures
    BY DEF Seat!Failures
  <2> QED
    BY <1>2, <2>1, <2>2
<1>8. CASE s.decoder = "none" /\ ~Seat!Retries(s)
  <2>1. Seat!ensure_decoder(s) = same
    BY <1>8 DEF Seat!ensure_decoder, Seat!Ready
  <2>2. s.failed # "none"
    BY <1>8 DEF Seat!Retries
  <2> QED
    BY <1>8, <2>1, <2>2
<1>9. CASE s.decoder = "none" /\ Seat!Retries(s)
  <2>1. \/ Seat!ensure_decoder(s) = Seat!Opened(tried, "libva")
        \/ Seat!ensure_decoder(s) = Seat!Soft(tried)
    BY <1>9 DEF Seat!ensure_decoder, Seat!Ready
  <2> HIDE DEF tried
  <2>2. CASE Seat!ensure_decoder(s) = Seat!Opened(tried, "libva")
    BY <1>3, <1>5, <2>2
  <2>3. CASE Seat!ensure_decoder(s) = Seat!Soft(tried)
    BY <1>4, <1>5, <2>3
  <2> QED
    BY <2>1, <2>2, <2>3
<1>10. \/ Seat!Ready(s) \/ (s.decoder = "OpenH264" /\ ~enabled)
       \/ (s.decoder = "none" /\ ~Seat!Retries(s)) \/ (s.decoder = "none" /\ Seat!Retries(s))
  BY <1>1 DEF Seat!Ready
<1> QED
  BY <1>6, <1>7, <1>8, <1>9, <1>10

(* What publish does: the seat keeps what it says, and the client is told, *)
(* unless that is what this surface has said last.                         *)
Says(s, says) == [s EXCEPT !.published = IF says = Seat!Silent THEN s.published ELSE says]

LEMMA Published ==
  ASSUME SeatTyped, NEW k \in Seat!Surfaces, NEW s \in SeatRecords, NEW says, NEW astray \in
    BOOLEAN,
         says \in Seat!Binds \cup {Seat!Silent}, s.published = seat[k].published,
         Seat!Publish(k, s, says, astray)
  PROVE  /\ gone_astray' \in BOOLEAN /\ (gone_astray => gone_astray') /\ (astray => gone_astray')
         /\ seat' = [seat EXCEPT ![k] = Says(s, says)]
         /\ Says(s, says) \in SeatRecords
         /\ seat' \in [Seat!Surfaces -> SeatRecords]
         /\ seat'[k] = Says(s, says)
         /\ \A h \in Seat!Surfaces : h # k => seat'[h] = seat[h]
         /\ present_bind' \in Seat!Binds
         /\ ~gone_astray' =>
              \/ present_bind' = present_bind /\ seat'[k].published = seat[k].published
              \/ seat_surface = k /\ present_bind' = seat'[k].published
<1>1. Says(s, says) \in SeatRecords
  BY DEF Says, SeatRecords
<1>2. CASE says \in {Seat!Silent, s.published}
  <2>1. /\ seat' = [seat EXCEPT ![k] = s] /\ gone_astray' = (gone_astray \/ astray)
        /\ present_bind' = present_bind
    BY <1>2 DEF Seat!Publish, Seat!Stray
  <2>2. Says(s, says) = s
    BY <1>2 DEF Says, SeatRecords
  <2>3. /\ seat' \in [Seat!Surfaces -> SeatRecords] /\ seat'[k] = s
        /\ \A h \in Seat!Surfaces : h # k => seat'[h] = seat[h]
    BY <2>1 DEF SeatTyped
  <2>4. gone_astray' \in BOOLEAN /\ (gone_astray => gone_astray') /\ (astray => gone_astray')
    BY <2>1, Zenon
  <2> QED
    BY <1>1, <2>1, <2>2, <2>3, <2>4 DEF SeatTyped
<1>3. CASE says \notin {Seat!Silent, s.published}
  <2>1. /\ seat' = [seat EXCEPT ![k] = [s EXCEPT !.published = says]] /\ present_bind' = says
        /\ gone_astray' = (gone_astray \/ (astray \/ seat_surface # k))
    BY <1>3 DEF Seat!Publish, Seat!Stray
  <2>2. Says(s, says) = [s EXCEPT !.published = says] /\ Says(s, says).published = says
    BY <1>3 DEF Says, SeatRecords
  <2>3. /\ seat' \in [Seat!Surfaces -> SeatRecords] /\ seat'[k] = Says(s, says)
        /\ \A h \in Seat!Surfaces : h # k => seat'[h] = seat[h]
    BY <1>1, <2>1, <2>2 DEF SeatTyped
  <2>4. gone_astray' \in BOOLEAN /\ (gone_astray => gone_astray') /\ (astray => gone_astray')
        /\ (~gone_astray' => seat_surface = k)
    BY <2>1, Zenon
  <2> QED
    BY <1>1, <1>3, <2>1, <2>2, <2>3, <2>4
<1> QED
  BY <1>2, <1>3

(* The page and the device. None of these touches a seat.                  *)
LEMMA NewestIsConfig ==
  ASSUME Seat!SeatAssumption, SeatTyped, seat_bind # Seat!Nothing
  PROVE  Seat!Newest \in 0 .. SeatConfigs
<1>1. SeatConfigs \in Nat /\ Seat!Configs \in SUBSET (0 .. SeatConfigs)
  BY DEF Seat!SeatAssumption, SeatTyped, Seat!Configs
<1>2. pipes[seat_bind].last_config \in Seat!Configs
  BY DEF SeatTyped, Seat!Configs, Seat!Sessions, Seat!Nothing, Seat!SeatAssumption
<1>3. \E m \in Seat!Configs : \A j \in Seat!Configs : j <= m
  BY <1>1, <1>2, Extremes
<1>4. Seat!Newest \in Seat!Configs
  BY <1>3 DEF Seat!Newest
<1> QED
  BY <1>1, <1>4

LEMMA DeviceKeeps ==
  ASSUME Seat!SeatAssumption, SeatInv,
         Seat!PushConfig \/ \E keyframe \in BOOLEAN : Seat!PushFrame(keyframe)
  PROVE  SeatInv'
<1> USE DEF Seat!machineVars, Seat!pageVars, Seat!surfaceVars
<1>1. SeatTyped
  BY DEF SeatInv
<1>2. /\ UNCHANGED <<changes, vld, enabled, installed, paused, gone_astray, seat_bind,
                     seat_generation, seat_surface, present_bind, seatThread, seatCmds, seatPc,
                     batch, seat>>
      /\ seat_bind # Seat!Nothing
  BY DEF Seat!PushConfig, Seat!PushFrame
<1>3. seat_bind \in Seat!Sessions
  BY <1>1, <1>2 DEF SeatTyped, Seat!Sessions, Seat!Nothing, Seat!SeatAssumption
<1>4. pushed' \in 0 .. SeatFrames
  <2>1. UNCHANGED pushed \/ (pushed < SeatFrames /\ pushed' = pushed + 1)
    BY DEF Seat!PushConfig, Seat!PushFrame
  <2> QED
    BY <1>1, <2>1 DEF SeatTyped, Seat!SeatAssumption
<1> DEFINE Pipe == [last_config : 0 .. SeatConfigs, pending : BOOLEAN, queue : Seq(SeatFrameSet)]
<1>5. pipes' \in [Seat!Sessions -> Pipe]
  <2>1. pipes \in [Seat!Sessions -> Pipe] /\ pipes[seat_bind] \in Pipe
    BY <1>1, <1>3 DEF SeatTyped
  <2>2. CASE Seat!PushConfig
    <3>1. Seat!Newest + 1 \in 0 .. SeatConfigs
      BY <1>1, <1>2, <2>2, NewestIsConfig DEF Seat!PushConfig, Seat!SeatAssumption
    <3>2. pipes' = [pipes EXCEPT ![seat_bind] =
                      [[pipes[seat_bind] EXCEPT !.last_config =
                        Seat!Newest + 1] EXCEPT !.pending = TRUE]]
      BY <1>3, <2>1, <2>2 DEF Seat!PushConfig
    <3>3. [[pipes[seat_bind] EXCEPT !.last_config = Seat!Newest + 1] EXCEPT !.pending = TRUE] \in
            Pipe
      BY <2>1, <3>1
    <3> HIDE DEF Pipe
    <3> QED
      BY <2>1, <3>2, <3>3
  <2>3. ASSUME NEW keyframe \in BOOLEAN, Seat!PushFrame(keyframe)
        PROVE  pipes' \in [Seat!Sessions -> Pipe]
    <3> DEFINE frame == [keyframe |-> keyframe, config |-> pipes[seat_bind].last_config]
    <3>1. frame \in SeatFrameSet
      BY <2>1, <2>3 DEF Seat!PushFrame, SeatFrameSet, Seat!Nothing, Seat!SeatAssumption
    <3>2. pipes' = [pipes EXCEPT ![seat_bind] =
                      [pipes[seat_bind] EXCEPT !.queue = Append(pipes[seat_bind].queue, frame)]]
      BY <1>3, <2>1, <2>3 DEF Seat!PushFrame
    <3> HIDE DEF frame
    <3>3. Append(pipes[seat_bind].queue, frame) \in Seq(SeatFrameSet)
      BY <2>1, <3>1, Appended
    <3>4. [pipes[seat_bind] EXCEPT !.queue = Append(pipes[seat_bind].queue, frame)] \in Pipe
      BY <2>1, <3>3
    <3> HIDE DEF Pipe
    <3> QED
      BY <2>1, <3>2, <3>4
  <2> QED
    BY <2>2, <2>3
<1>6. SeatTyped'
  BY <1>1, <1>2, <1>4, <1>5 DEF SeatTyped
<1> QED
  BY <1>2, <1>6 DEF SeatInv, SeatIs, ClientWasTold

LEMMA PageKeeps ==
  ASSUME Seat!SeatAssumption, SeatInv, ~gone_astray,
         \/ Seat!Attach
         \/ Seat!Unbind
         \/ Seat!Pause
         \/ Seat!Shutdown
         \/ Seat!ChangeMachine
         \/ \E k \in Seat!Surfaces : Seat!Open(k)
  PROVE  SeatInv'
<1> USE DEF Seat!machineVars, Seat!pageVars, Seat!surfaceVars
<1>1. SeatTyped /\ (\A k \in Seat!Surfaces : SeatIs(k)) /\ ClientWasTold
  BY DEF SeatInv
<1>2. /\ SeatSurfaces \in Nat /\ SeatBinds \in Nat /\ SeatChanges \in Nat
      /\ \A n : n \in 0 .. SeatSurfaces /\ n # Seat!Nothing => n \in Seat!Surfaces
      /\ \A n : n \in 0 .. SeatBinds /\ n # Seat!Nothing => n \in Seat!Sessions
      /\ \A k \in Seat!Surfaces : k # Seat!Nothing /\ k \in 0 .. SeatSurfaces
  BY DEF Seat!SeatAssumption, Seat!Surfaces, Seat!Sessions, Seat!Nothing
<1>3. ASSUME NEW cmd \in SeatCommands, Seat!Post(seat_surface, cmd)
      PROVE  seatCmds' \in [Seat!Surfaces -> Seq(SeatCommands)]
  <2>1. seatCmds \in [Seat!Surfaces -> Seq(SeatCommands)] /\ seat_surface \in 0 .. SeatSurfaces
    BY <1>1 DEF SeatTyped
  <2>2. CASE seat_surface = Seat!Nothing
    BY <1>3, <2>1, <2>2 DEF Seat!Post
  <2>3. CASE seat_surface # Seat!Nothing
    <3>1. seat_surface \in Seat!Surfaces
      BY <1>2, <2>1, <2>3
    <3>2. Append(seatCmds[seat_surface], cmd) \in Seq(SeatCommands)
      BY <2>1, <3>1, Appended
    <3> QED
      BY <1>3, <2>1, <2>3, <3>2 DEF Seat!Post
  <2> QED
    BY <2>2, <2>3
<1>4. ASSUME UNCHANGED <<gone_astray, seat, seatThread, seatPc, batch, seat_surface, present_bind>>
      PROVE  (\A k \in Seat!Surfaces : SeatIs(k)') /\ ClientWasTold'
  BY <1>1, <1>4 DEF SeatIs, ClientWasTold
<1>5. CASE Seat!Attach
  <2>1. /\ \/ seat_bind = Seat!Nothing /\ seat_generation < SeatBinds /\
                seat_generation' = seat_generation + 1
           \/ seat_bind # Seat!Nothing /\ UNCHANGED seat_generation
        /\ changes' = changes \/ (changes < SeatChanges /\ changes' = changes + 1)
        /\ seat_bind' = seat_generation'
        /\ Seat!Post(seat_surface, [cmd |-> "Bind", pipe |-> seat_bind'])
        /\ UNCHANGED <<pipes, pushed, vld, enabled, installed, paused, seat_surface, present_bind,
                       seatThread, seat, seatPc, batch, gone_astray>>
    BY <1>5 DEF Seat!Attach
  <2>2. seat_generation' \in Seat!Sessions /\ seat_generation' \in 0 .. SeatBinds
    BY <1>1, <1>2, <2>1 DEF SeatTyped, Seat!Sessions, Seat!Nothing
  <2>3. [cmd |-> "Bind", pipe |-> seat_bind'] \in SeatCommands
    BY <2>1, <2>2 DEF SeatCommands
  <2>4. seatCmds' \in [Seat!Surfaces -> Seq(SeatCommands)]
    BY <1>3, <2>1, <2>3
  <2>5. changes' \in 0 .. SeatChanges
    BY <1>1, <1>2, <2>1 DEF SeatTyped
  <2>6. SeatTyped'
    BY <1>1, <2>1, <2>2, <2>4, <2>5 DEF SeatTyped
  <2> QED
    BY <1>4, <2>1, <2>6 DEF SeatInv
<1>6. CASE Seat!Unbind
  <2>1. /\ seat_bind' = Seat!Nothing /\ Seat!Post(seat_surface, [cmd |-> "Unbind"])
        /\ UNCHANGED <<pipes, pushed, changes, vld, enabled, installed, paused, seat_generation,
                       seat_surface, present_bind, seatThread, seat, seatPc, batch, gone_astray>>
    BY <1>6 DEF Seat!Unbind
  <2>2. [cmd |-> "Unbind"] \in SeatCommands
    BY DEF SeatCommands
  <2>3. seatCmds' \in [Seat!Surfaces -> Seq(SeatCommands)]
    BY <1>3, <2>1, <2>2
  <2>4. SeatTyped'
    BY <1>1, <1>2, <2>1, <2>3 DEF SeatTyped, Seat!Nothing
  <2> QED
    BY <1>4, <2>1, <2>4 DEF SeatInv
<1>7. CASE Seat!Pause
  <2>1. /\ changes < SeatChanges /\ changes' = changes + 1 /\ paused' = ~paused
        /\ Seat!Post(seat_surface, [cmd |-> "Layout", paused |-> paused'])
        /\ UNCHANGED <<pipes, pushed, vld, enabled, installed, seat_bind, seat_generation,
                       seat_surface, present_bind, seatThread, seat, seatPc, batch, gone_astray>>
    BY <1>7 DEF Seat!Pause
  <2>2. paused' \in BOOLEAN /\ changes' \in 0 .. SeatChanges
    BY <1>1, <1>2, <2>1 DEF SeatTyped
  <2>3. [cmd |-> "Layout", paused |-> paused'] \in SeatCommands
    BY <2>2 DEF SeatCommands
  <2>4. seatCmds' \in [Seat!Surfaces -> Seq(SeatCommands)]
    BY <1>3, <2>1, <2>3
  <2>5. SeatTyped'
    BY <1>1, <2>1, <2>2, <2>4 DEF SeatTyped
  <2> QED
    BY <1>4, <2>1, <2>5 DEF SeatInv
<1>8. CASE Seat!ChangeMachine
  <2>1. /\ changes < SeatChanges /\ changes' = changes + 1
        /\ enabled' \in BOOLEAN /\ installed' \in BOOLEAN
        /\ UNCHANGED <<pipes, pushed, vld, paused, seat_bind, seat_generation, seat_surface,
                       present_bind, seatThread, seatCmds, seat, seatPc, batch, gone_astray>>
    BY <1>1, <1>8 DEF Seat!ChangeMachine, SeatTyped
  <2>2. changes' \in 0 .. SeatChanges
    BY <1>1, <1>2, <2>1 DEF SeatTyped
  <2>3. SeatTyped'
    BY <1>1, <2>1, <2>2 DEF SeatTyped
  <2> QED
    BY <1>4, <2>1, <2>3 DEF SeatInv
<1>9. CASE Seat!Shutdown
  <2>1. /\ seat_surface' = Seat!Nothing /\ present_bind' = "Idle"
        /\ Seat!Post(seat_surface, [cmd |-> "Shutdown"])
        /\ UNCHANGED <<pipes, pushed, changes, vld, enabled, installed, paused, seat_bind,
                       seat_generation, seatThread, seat, seatPc, batch, gone_astray>>
    BY <1>9 DEF Seat!Shutdown
  <2>2. [cmd |-> "Shutdown"] \in SeatCommands
    BY DEF SeatCommands
  <2>3. seatCmds' \in [Seat!Surfaces -> Seq(SeatCommands)]
    BY <1>3, <2>1, <2>2
  <2>4. SeatTyped'
    BY <1>1, <1>2, <2>1, <2>3 DEF SeatTyped, Seat!Nothing, Seat!Binds
  <2> QED
    BY <1>1, <2>1, <2>4 DEF SeatInv, SeatIs, ClientWasTold, Seat!Nothing
<1>10. ASSUME NEW k \in Seat!Surfaces, Seat!Open(k)
       PROVE  SeatInv'
  <2> DEFINE queue == <<[cmd |-> "Layout", paused |-> paused]>>
                        \o IF seat_bind = Seat!Nothing THEN << >>
                           ELSE <<[cmd |-> "Bind", pipe |-> seat_bind]>>
  <2>1. /\ seat_surface = Seat!Nothing /\ seatThread[k] = "None" /\ seat_surface' = k
        /\ seatThread' = [seatThread EXCEPT ![k] = "Running"]
        /\ seatCmds' = [seatCmds EXCEPT ![k] = queue]
        /\ UNCHANGED <<pipes, pushed, changes, vld, enabled, installed, paused, seat_bind,
                       seat_generation, present_bind, seat, seatPc, batch, gone_astray>>
    BY <1>10 DEF Seat!Open
  <2>2. queue \in Seq(SeatCommands)
    <3>1. [cmd |-> "Layout", paused |-> paused] \in SeatCommands
      BY <1>1 DEF SeatCommands, SeatTyped
    <3>2. CASE seat_bind = Seat!Nothing
      BY <3>1, <3>2
    <3>3. CASE seat_bind # Seat!Nothing
      <4>1. [cmd |-> "Bind", pipe |-> seat_bind] \in SeatCommands
        BY <1>1, <1>2, <3>3 DEF SeatCommands, SeatTyped
      <4> QED
        BY <3>1, <3>3, <4>1
    <3> QED
      BY <3>2, <3>3
  <2> HIDE DEF queue
  <2>3. /\ seatCmds' \in [Seat!Surfaces -> Seq(SeatCommands)]
        /\ seatThread' \in [Seat!Surfaces -> {"None", "Running", "Gone"}]
        /\ seatThread'[k] = "Running" /\ \A h \in Seat!Surfaces : h # k =>
             seatThread'[h] = seatThread[h]
    BY <1>1, <2>1, <2>2 DEF SeatTyped
  <2>4. SeatTyped'
    BY <1>1, <1>2, <2>1, <2>3 DEF SeatTyped
  <2>5. \A h \in Seat!Surfaces : SeatIs(h)'
    BY <1>1, <2>1, <2>3 DEF SeatIs
  <2>6. seat[k].published = "none"
    BY <1>1, <2>1 DEF SeatIs, Seat!NewSeat
  <2>7. ClientWasTold'
    BY <1>1, <1>2, <2>1, <2>6 DEF ClientWasTold, Seat!Nothing
  <2> QED
    BY <2>4, <2>5, <2>7 DEF SeatInv
<1> QED
  BY <1>5, <1>6, <1>7, <1>8, <1>9, <1>10

(* A seat that has changed, and what it said.                              *)
LEMMA SeatChanged ==
  ASSUME Seat!SeatAssumption, SeatTyped, \A h \in Seat!Surfaces : SeatIs(h), ClientWasTold,
         NEW k \in Seat!Surfaces, NEW s \in SeatRecords, NEW says, NEW astray \in BOOLEAN,
         says \in Seat!Binds \cup {Seat!Silent}, s.published = seat[k].published,
         Seat!Publish(k, s, says, astray), UNCHANGED <<seatThread, seat_surface>>,
         seatThread[k] # "None", ~astray => SeatSays(Says(s, says)), ~gone_astray',
         seatPc'[k] = "Feed" => s.bound /\ batch'[k] # <<>>,
         \A h \in Seat!Surfaces : h # k => seatPc'[h] = seatPc[h] /\ batch'[h] = batch[h]
  PROVE  (\A h \in Seat!Surfaces : SeatIs(h)') /\ ClientWasTold'
<1>1. /\ ~astray /\ seat'[k] = Says(s, says) /\ \A h \in Seat!Surfaces : h # k => seat'[h] = seat[h]
      /\ \/ present_bind' = present_bind /\ seat'[k].published = seat[k].published
         \/ seat_surface = k /\ present_bind' = seat'[k].published
  <2>1. \/ gone_astray' = (gone_astray \/ astray)
        \/ gone_astray' = (gone_astray \/ (astray \/ seat_surface # k))
    BY DEF Seat!Publish, Seat!Stray
  <2>2. ~astray
    BY <2>1, Zenon
  <2>3. seat'[k] = Says(s, says) /\ \A h \in Seat!Surfaces : h # k => seat'[h] = seat[h]
    BY Published
  <2>4. \/ present_bind' = present_bind /\ seat'[k].published = seat[k].published
        \/ seat_surface = k /\ present_bind' = seat'[k].published
    BY Published
  <2> QED
    BY <2>2, <2>3, <2>4
<1>2. Says(s, says).bound = s.bound
  BY DEF Says, SeatRecords
<1>3. ASSUME NEW h \in Seat!Surfaces
      PROVE  SeatIs(h)'
  <2>1. CASE h = k
    BY <1>1, <1>2, <2>1 DEF SeatIs
  <2>2. CASE h # k
    BY <1>1, <2>2 DEF SeatIs
  <2> QED
    BY <2>1, <2>2
<1>4. ClientWasTold'
  <2>1. seat_surface = 0 \/ seat_surface \in Seat!Surfaces
    BY DEF SeatTyped, Seat!Surfaces, Seat!SeatAssumption
  <2>2. k # 0
    BY DEF Seat!Surfaces
  <2> QED
    BY <1>1, <2>1, <2>2 DEF ClientWasTold
<1> QED
  BY <1>3, <1>4

(* The commands.                                                           *)
LEMMA StepKeeps ==
  ASSUME Seat!SeatAssumption, SeatInv, ~gone_astray, NEW k \in Seat!Surfaces, Seat!Step(k)
  PROVE  SeatInv'
<1> USE DEF Seat!machineVars, Seat!pageVars, Seat!surfaceVars
<1>1. SeatTyped /\ (\A h \in Seat!Surfaces : SeatIs(h)) /\ ClientWasTold
  BY DEF SeatInv
<1> DEFINE cmd == Head(seatCmds[k])
<1>2. /\ seatThread[k] = "Running" /\ seatPc[k] = "Recv" /\ seatCmds[k] # << >>
      /\ seatCmds' = [seatCmds EXCEPT ![k] = IF cmd.cmd = "Shutdown" THEN << >>
           ELSE Tail(seatCmds[k])]
      /\ Seat!Dispatch(k, cmd)
      /\ UNCHANGED <<pipes, pushed, changes, vld, enabled, installed, paused, seat_bind,
                     seat_generation, seat_surface, seatPc, batch>>
  BY DEF Seat!Step
<1>3. seatCmds[k] \in Seq(SeatCommands) /\ seat[k] \in SeatRecords
  BY <1>1 DEF SeatTyped
<1>4. cmd \in SeatCommands /\ Tail(seatCmds[k]) \in Seq(SeatCommands)
  BY <1>2, <1>3, Received
<1> HIDE DEF cmd
<1>5. seatCmds' \in [Seat!Surfaces -> Seq(SeatCommands)]
  <2>1. << >> \in Seq(SeatCommands)
    BY NoneQueued
  <2> QED
    BY <1>1, <1>2, <1>4, <2>1 DEF SeatTyped
<1>6. /\ cmd.cmd \in {"Layout", "Bind", "Unbind", "Shutdown"}
      /\ cmd.cmd = "Layout" => cmd.paused \in BOOLEAN
      /\ cmd.cmd = "Bind" => cmd.pipe \in Seat!Sessions
  BY <1>4 DEF SeatCommands
<1>7. /\ seatPc'[k] # "Feed"
      /\ \A h \in Seat!Surfaces : h # k => seatPc'[h] = seatPc[h] /\ batch'[h] = batch[h]
  BY <1>2
<1>8. SeatIs(k)
  BY <1>1
<1>9. ASSUME seat' \in [Seat!Surfaces -> SeatRecords], present_bind' \in Seat!Binds,
        gone_astray' \in BOOLEAN,
             seatThread' \in [Seat!Surfaces -> {"None", "Running", "Gone"}]
      PROVE  SeatTyped'
  BY <1>1, <1>2, <1>5, <1>9 DEF SeatTyped
<1>10. ASSUME NEW s \in SeatRecords, NEW says \in Seat!Binds \cup {Seat!Silent}, NEW astray \in
         BOOLEAN,
              s.published = seat[k].published, Seat!Publish(k, s, says, astray),
                UNCHANGED seatThread,
              ~astray => SeatSays(Says(s, says))
       PROVE  SeatInv'
  <2>1. /\ seat' \in [Seat!Surfaces -> SeatRecords] /\ present_bind' \in Seat!Binds
        /\ gone_astray' \in BOOLEAN
    BY <1>1, <1>10, Published
  <2>2. SeatTyped'
    BY <1>1, <1>9, <1>10, <2>1 DEF SeatTyped
  <2>3. ASSUME ~gone_astray'
        PROVE  (\A h \in Seat!Surfaces : SeatIs(h)') /\ ClientWasTold'
    BY <1>1, <1>2, <1>7, <1>10, <2>3, SeatChanged
  <2> QED
    BY <2>2, <2>3 DEF SeatInv
<1>11. CASE cmd.cmd = "Layout"
  <2> DEFINE s == [seat[k] EXCEPT !.paused = cmd.paused]
             says == IF s.has_frame THEN Seat!AfterFrame(s) ELSE Seat!Silent
             astray == s.has_frame /\ s.failed # "none"
  <2>1. Seat!Publish(k, s, says, astray) /\ UNCHANGED seatThread
    BY <1>2, <1>11 DEF Seat!Dispatch
  <2>2. /\ s \in SeatRecords /\ s.published = seat[k].published /\ s.decoder = seat[k].decoder
        /\ s.failed = seat[k].failed /\ s.bound = seat[k].bound /\ s.has_frame = seat[k].has_frame
        /\ s.pipe = seat[k].pipe
    BY <1>3, <1>6, <1>11 DEF SeatRecords
  <2>3. Seat!AfterFrame(s) \in {"Video", "Paused"}
    BY DEF Seat!AfterFrame
  <2>4. says \in Seat!Binds \cup {Seat!Silent} /\ (s.has_frame => says \in {"Video", "Paused"})
        /\ (~s.has_frame => says = Seat!Silent)
    BY <2>3 DEF Seat!Binds
  <2>5. astray \in BOOLEAN /\ (~astray /\ s.has_frame => s.failed = "none")
    BY <2>2 DEF SeatRecords
  <2> HIDE DEF s, says, astray
  <2>6. "Video" # Seat!Silent /\ "Paused" # Seat!Silent
    BY DEF Seat!Silent
  <2>7. ASSUME ~astray
        PROVE  SeatSays(Says(s, says))
    <3>1. /\ Says(s, says).pipe = s.pipe /\ Says(s, says).decoder = s.decoder
          /\ Says(s, says).failed = s.failed
          /\ Says(s, says).bound = s.bound /\ Says(s, says).has_frame = s.has_frame
          /\ Says(s, says).published = IF says = Seat!Silent THEN s.published ELSE says
      BY <2>2 DEF Says, SeatRecords
    <3> QED
      BY <1>8, <2>2, <2>4, <2>5, <2>6, <2>7, <3>1 DEF SeatIs, SeatSays
  <2> QED
    BY <1>10, <2>1, <2>2, <2>4, <2>5, <2>7
<1>12. CASE cmd.cmd = "Bind"
  <2> DEFINE s == [seat[k] EXCEPT !.pipe = cmd.pipe, !.failed = "none", !.bound = TRUE,
    !.has_frame = FALSE]
             out == Seat!ensure_decoder(s)
             astray == seat[k].decoder # "none" /\ seat[k].failed # "none"
  <2>1. Seat!Publish(k, out.seat, out.says, astray) /\ UNCHANGED seatThread
    BY <1>2, <1>12 DEF Seat!Dispatch
  <2>2. /\ s \in SeatRecords /\ s.published = seat[k].published /\ s.decoder = seat[k].decoder
        /\ s.failed = "none" /\ s.bound = TRUE
    <3>1. cmd.pipe \in 0 .. SeatBinds
      BY <1>6, <1>12 DEF Seat!Sessions, Seat!SeatAssumption
    <3> QED
      BY <1>3, <3>1 DEF SeatRecords
  <2> HIDE DEF s
  <2>3. /\ out.seat \in SeatRecords /\ out.seat.published = s.published /\ out.seat.bound = s.bound
        /\ \/ /\ out.seat.decoder # "none" /\ out.seat.failed = "none"
              /\ \/ out.says = "Loading"
                 \/ out.says = Seat!Silent /\ out.seat.decoder = s.decoder
           \/ /\ out.seat.decoder = "none" /\ out.seat.failed \in Seat!Failures
              /\ out.says = out.seat.failed
    BY <1>1, <2>2, Ensured
  <2> HIDE DEF out
  <2>4. /\ out.says \in Seat!Binds \cup {Seat!Silent} /\ "Loading" # Seat!Silent
        /\ Seat!Silent \notin Seat!Failures
        /\ "none" \notin Seat!Failures
    BY <2>3 DEF Seat!Binds, Seat!Silent, Seat!Failures
  <2>5. astray \in BOOLEAN
    OBVIOUS
  <2>6. ASSUME ~astray
        PROVE  SeatSays(Says(out.seat, out.says))
    <3>1. /\ Says(out.seat, out.says).pipe = out.seat.pipe
          /\ Says(out.seat, out.says).decoder = out.seat.decoder
          /\ Says(out.seat, out.says).failed = out.seat.failed
          /\ Says(out.seat, out.says).bound = out.seat.bound
          /\ Says(out.seat, out.says).published =
               IF out.says = Seat!Silent THEN out.seat.published ELSE out.says
      BY <2>3 DEF Says, SeatRecords
    <3>2. out.says = Seat!Silent => out.seat.published \in {"Loading", "Video", "Paused"}
      BY <1>8, <2>2, <2>3, <2>4, <2>6 DEF SeatIs, SeatSays
    <3> QED
      BY <2>2, <2>3, <2>4, <3>1, <3>2 DEF SeatSays
  <2> QED
    BY <1>10, <2>1, <2>2, <2>3, <2>4, <2>5, <2>6
<1>13. CASE cmd.cmd = "Unbind"
  <2> DEFINE s == [Seat!NewSeat EXCEPT !.paused = seat[k].paused, !.published = seat[k].published]
  <2>1. Seat!Publish(k, s, "Idle", FALSE) /\ UNCHANGED seatThread
    BY <1>2, <1>13 DEF Seat!Dispatch
  <2>2. /\ s \in SeatRecords /\ s.published = seat[k].published
    BY <1>3, NewSeatIsSeat DEF SeatRecords
  <2>3. SeatSays(Says(s, "Idle")) /\ "Idle" \in Seat!Binds
    BY DEF Says, SeatSays, Seat!NewSeat, Seat!Nothing, Seat!Silent, Seat!Binds
  <2> HIDE DEF s
  <2> QED
    BY <1>10, <2>1, <2>2, <2>3
<1>14. CASE cmd.cmd = "Shutdown"
  <2>1. /\ seatThread' = [seatThread EXCEPT ![k] = "Gone"]
        /\ seat' = [seat EXCEPT ![k] = Seat!NewSeat]
        /\ UNCHANGED <<present_bind, gone_astray>>
    BY <1>2, <1>14 DEF Seat!Dispatch
  <2>2. /\ seat' \in [Seat!Surfaces -> SeatRecords] /\ seat'[k] = Seat!NewSeat
        /\ seatThread' \in [Seat!Surfaces -> {"None", "Running", "Gone"}] /\ seatThread'[k] = "Gone"
        /\ \A h \in Seat!Surfaces : h # k => seat'[h] = seat[h] /\ seatThread'[h] = seatThread[h]
    BY <1>1, <2>1, NewSeatIsSeat DEF SeatTyped
  <2>3. SeatTyped'
    BY <1>1, <1>9, <2>1, <2>2 DEF SeatTyped
  <2>4. \A h \in Seat!Surfaces : SeatIs(h)'
    BY <1>1, <1>2, <1>7, <2>2, NewSeatIsSeat DEF SeatIs
  <2>5. ClientWasTold'
    <3>1. seat_surface = 0 \/ seat_surface \in Seat!Surfaces
      BY <1>1 DEF SeatTyped, Seat!Surfaces, Seat!SeatAssumption
    <3> QED
      BY <1>1, <1>2, <2>1, <2>2, <3>1 DEF ClientWasTold
  <2> QED
    BY <2>3, <2>4, <2>5 DEF SeatInv
<1> QED
  BY <1>6, <1>11, <1>12, <1>13, <1>14

(* A turn of the loop.                                                     *)
LEMMA TurnKeeps ==
  ASSUME Seat!SeatAssumption, SeatInv, ~gone_astray, NEW k \in Seat!Surfaces, Seat!Turn(k)
  PROVE  SeatInv'
<1> USE DEF Seat!machineVars, Seat!pageVars, Seat!surfaceVars
<1>1. SeatTyped /\ (\A h \in Seat!Surfaces : SeatIs(h)) /\ ClientWasTold
  BY DEF SeatInv
<1> DEFINE out == Seat!ensure_decoder(seat[k])
           s == Seat!drain_ready(out.seat)
           pipe == seat[k].pipe
           Pipe == [last_config : 0 .. SeatConfigs, pending : BOOLEAN, queue : Seq(SeatFrameSet)]
<1>2. /\ seatThread[k] = "Running" /\ pipe # Seat!Nothing
      /\ Seat!Publish(k, s, out.says, FALSE)
      /\ batch' = [batch EXCEPT ![k] = pipes[pipe].queue]
      /\ pipes' = [pipes EXCEPT ![pipe].pending = FALSE, ![pipe].queue = << >>]
      /\ seatPc' = [seatPc EXCEPT ![k] = IF batch'[k] = << >> THEN "Recv" ELSE "Feed"]
      /\ UNCHANGED <<pushed, changes, vld, enabled, installed, paused, seat_bind, seat_surface,
                     seat_generation, seatThread, seatCmds>>
  BY DEF Seat!Turn
<1>3. seat[k] \in SeatRecords /\ pipes \in [Seat!Sessions -> Pipe]
  BY <1>1 DEF SeatTyped
<1>4. pipe \in Seat!Sessions
  BY <1>2, <1>3 DEF SeatRecords, Seat!Sessions, Seat!Nothing, Seat!SeatAssumption
<1>5. SeatSays(seat[k]) /\ seat[k].bound
  BY <1>1, <1>2 DEF SeatIs, SeatSays
<1> HIDE DEF pipe
<1>6. pipes' = [pipes EXCEPT ![pipe] =
        [[pipes[pipe] EXCEPT !.pending = FALSE] EXCEPT !.queue = << >>]]
  BY <1>2, <1>3, <1>4
<1>7. [[pipes[pipe] EXCEPT !.pending = FALSE] EXCEPT !.queue = << >>] \in Pipe
  <2>1. pipes[pipe] \in Pipe /\ << >> \in Seq(SeatFrameSet)
    BY <1>3, <1>4, NoneQueued
  <2> QED
    BY <2>1
<1>8. pipes' \in [Seat!Sessions -> Pipe] /\ pipes[pipe] \in Pipe
  <2> HIDE DEF Pipe
  <2> QED
    BY <1>3, <1>4, <1>6, <1>7
<1>9. /\ batch' \in [Seat!Surfaces -> Seq(SeatFrameSet)]
      /\ seatPc' \in [Seat!Surfaces -> {"Recv", "Feed"}]
      /\ (seatPc'[k] = "Feed" => batch'[k] # << >>)
      /\ \A h \in Seat!Surfaces : h # k => seatPc'[h] = seatPc[h] /\ batch'[h] = batch[h]
  BY <1>1, <1>2, <1>8 DEF SeatTyped
<1>10. /\ out.seat \in SeatRecords /\ out.seat.published = seat[k].published
       /\ out.seat.bound = seat[k].bound /\ out.seat.pipe = seat[k].pipe
       /\ \/ /\ out.seat.decoder # "none" /\ out.seat.failed = "none"
             /\ \/ out.says = "Loading"
                \/ out.says = Seat!Silent /\ seat[k].failed = "none"
          \/ /\ out.seat.decoder = "none" /\ out.seat.failed \in Seat!Failures
             /\ out.says = out.seat.failed
          \/ /\ out.seat = seat[k] /\ out.says = Seat!Silent
  BY <1>1, <1>3, Ensured
<1> HIDE DEF out
<1>11. /\ s \in SeatRecords /\ s.published = out.seat.published /\ s.bound = out.seat.bound
       /\ s.decoder = out.seat.decoder /\ s.failed = out.seat.failed
       /\ s.has_frame = out.seat.has_frame
       /\ s.pipe = out.seat.pipe
  <2>1. s = out.seat \/ s = [out.seat EXCEPT !.last_config = pipes[pipe].last_config]
    BY <1>10 DEF Seat!drain_ready, pipe
  <2>2. pipes[pipe].last_config \in 0 .. SeatConfigs
    BY <1>8
  <2> HIDE DEF s
  <2> QED
    BY <1>10, <2>1, <2>2 DEF SeatRecords
<1> HIDE DEF s
<1>12. /\ out.says \in Seat!Binds \cup {Seat!Silent} /\ "Loading" # Seat!Silent
       /\ Seat!Silent \notin Seat!Failures
       /\ "none" \notin Seat!Failures
  BY <1>10 DEF Seat!Binds, Seat!Silent, Seat!Failures
<1>13. SeatSays(Says(s, out.says))
  <2>1. /\ Says(s, out.says).decoder = s.decoder /\ Says(s, out.says).failed = s.failed
        /\ Says(s, out.says).bound = s.bound
        /\ Says(s, out.says).published = IF out.says = Seat!Silent THEN s.published ELSE out.says
    BY <1>11 DEF Says, SeatRecords
  <2> QED
    BY <1>5, <1>10, <1>11, <1>12, <2>1 DEF SeatSays
<1>14. /\ seat' \in [Seat!Surfaces -> SeatRecords] /\ present_bind' \in Seat!Binds
       /\ gone_astray' \in BOOLEAN
  BY <1>1, <1>2, <1>10, <1>11, <1>12, Published
<1>15. SeatTyped'
  BY <1>1, <1>2, <1>8, <1>9, <1>14 DEF SeatTyped
<1>16. ASSUME ~gone_astray'
       PROVE  (\A h \in Seat!Surfaces : SeatIs(h)') /\ ClientWasTold'
  <2>1. s \in SeatRecords /\ s.published = seat[k].published
    BY <1>10, <1>11
  <2>2. seatPc'[k] = "Feed" => s.bound /\ batch'[k] # << >>
    <3>1. s.bound = seat[k].bound
      BY <1>10, <1>11
    <3> QED
      BY <1>5, <1>9, <3>1
  <2>3. \A h \in Seat!Surfaces : h # k => seatPc'[h] = seatPc[h] /\ batch'[h] = batch[h]
    BY <1>9
  <2>4. out.says \in Seat!Binds \cup {Seat!Silent}
    BY <1>12
  <2>5. /\ Seat!Publish(k, s, out.says, FALSE) /\ UNCHANGED <<seatThread, seat_surface>>
        /\ seatThread[k] # "None"
    BY <1>2
  <2> QED
    BY <1>1, <1>13, <1>16, <2>1, <2>2, <2>3, <2>4, <2>5, SeatChanged
<1> QED
  BY <1>15, <1>16 DEF SeatInv

(* A frame is fed.                                                         *)
LEMMA FeedKeeps ==
  ASSUME Seat!SeatAssumption, SeatInv, ~gone_astray, NEW k \in Seat!Surfaces, Seat!Feed(k)
  PROVE  SeatInv'
<1> USE DEF Seat!machineVars, Seat!pageVars, Seat!surfaceVars
<1>1. SeatTyped /\ (\A h \in Seat!Surfaces : SeatIs(h)) /\ ClientWasTold
  BY DEF SeatInv
<1> DEFINE frame == Head(batch[k])
           s == seat[k]
<1>2. /\ seatPc[k] = "Feed"
      /\ \E d \in Seat!Decoded(s, frame) :
           Seat!Publish(k, IF d.picture THEN Seat!Taken(d.seat) ELSE d.seat,
                        IF d.picture /\ Seat!Mode(s) # "Paused" THEN Seat!AfterFrame(Seat!Taken(s))
                        ELSE Seat!Silent, FALSE)
      /\ batch' = [batch EXCEPT ![k] = Tail(batch[k])]
      /\ seatPc' = [seatPc EXCEPT ![k] = IF batch'[k] = << >> THEN "Recv" ELSE "Feed"]
      /\ UNCHANGED <<pipes, pushed, changes, vld, enabled, installed, paused, seat_bind,
                     seat_surface, seat_generation, seatThread, seatCmds>>
  BY DEF Seat!Feed
<1>3. seat[k] \in SeatRecords /\ batch[k] \in Seq(SeatFrameSet) /\ s.bound /\ batch[k] # << >>
      /\ SeatSays(s) /\ seatThread[k] # "None"
  BY <1>1, <1>2 DEF SeatTyped, SeatIs
<1>4. frame \in SeatFrameSet /\ Tail(batch[k]) \in Seq(SeatFrameSet)
  BY <1>3, Received
<1>5. /\ batch' \in [Seat!Surfaces -> Seq(SeatFrameSet)]
      /\ seatPc' \in [Seat!Surfaces -> {"Recv", "Feed"}]
      /\ (seatPc'[k] = "Feed" => batch'[k] # << >>)
      /\ \A h \in Seat!Surfaces : h # k => seatPc'[h] = seatPc[h] /\ batch'[h] = batch[h]
  BY <1>1, <1>2, <1>4 DEF SeatTyped
<1>6. PICK d \in Seat!Decoded(s, frame) :
           Seat!Publish(k, IF d.picture THEN Seat!Taken(d.seat) ELSE d.seat,
                        IF d.picture /\ Seat!Mode(s) # "Paused" THEN Seat!AfterFrame(Seat!Taken(s))
                        ELSE Seat!Silent, FALSE)
  BY <1>2
<1> HIDE DEF frame
<1> DEFINE Like(v) == /\ v \in SeatRecords /\ v.pipe = s.pipe /\ v.bound = s.bound
                      /\ v.failed = s.failed
                      /\ v.has_frame = s.has_frame /\ v.published = s.published
<1>7. ASSUME NEW v \in SeatRecords
      PROVE  /\ Seat!WithConfig(v, frame) \in SeatRecords
             /\ Seat!WithConfig(v, frame) = v \/
                  Seat!WithConfig(v, frame) = [v EXCEPT !.headers = v.last_config]
  BY DEF Seat!WithConfig, SeatRecords
<1>8. /\ Seat!OpenSoft(s) \in SeatRecords
      /\ \/ Seat!OpenSoft(s) = s /\ s.decoder = "OpenH264"
         \/ /\ s.decoder # "OpenH264"
            /\ \E decoder \in {"none", "OpenH264"} :
                 Seat!OpenSoft(s) = [s EXCEPT !.decoder = decoder, !.headers = Seat!Nothing]
  <2>1. \A decoder \in {"none", "OpenH264"} :
          [s EXCEPT !.decoder = decoder, !.headers = Seat!Nothing] \in SeatRecords
    <3>1. SeatConfigs \in Nat /\ Seat!Nothing \in 0 .. SeatConfigs
      BY DEF Seat!SeatAssumption, Seat!Nothing
    <3>2. \A decoder \in {"none", "OpenH264"} : [s EXCEPT !.decoder = decoder] \in SeatRecords
      BY <1>3 DEF SeatRecords
    <3>3. \A v \in SeatRecords : [v EXCEPT !.headers = Seat!Nothing] \in SeatRecords
      BY <3>1 DEF SeatRecords
    <3> QED
      BY <3>2, <3>3
  <2>2. \/ Seat!OpenSoft(s) = s /\ s.decoder = "OpenH264"
        \/ /\ s.decoder # "OpenH264"
           /\ \E decoder \in {"none", "OpenH264"} :
                Seat!OpenSoft(s) = [s EXCEPT !.decoder = decoder, !.headers = Seat!Nothing]
    BY DEF Seat!OpenSoft
  <2> QED
    BY <1>3, <2>1, <2>2
<1>9. LET va == Seat!WithConfig(s, frame)
          soft == Seat!WithConfig(Seat!OpenSoft(s), frame)
      IN /\ Like(va) /\ va.decoder = s.decoder
         /\ Like(soft) /\ soft.decoder \in {"none", "OpenH264"}
  <2>1. Like(Seat!WithConfig(s, frame)) /\ Seat!WithConfig(s, frame).decoder = s.decoder
    BY <1>3, <1>7, ZenonT(40) DEF SeatRecords
  <2>2. Like(Seat!OpenSoft(s)) /\ Seat!OpenSoft(s).decoder \in {"none", "OpenH264"}
    BY <1>3, <1>8 DEF SeatRecords
  <2>3. \A v \in SeatRecords : Like(v) => /\ Like(Seat!WithConfig(v, frame))
                                          /\ Seat!WithConfig(v, frame).decoder = v.decoder
    BY <1>7 DEF SeatRecords
  <2> QED
    BY <1>8, <2>1, <2>2, <2>3
<1>10. /\ Like(d.seat) /\ d.picture \in BOOLEAN
       /\ d.picture => d.seat.decoder # "none"
       /\ \/ s.decoder = "libva" /\ d.seat.decoder = "libva"
          \/ d.seat.decoder \in {"none", "OpenH264"}
       /\ d.seat.decoder = "none" => s.decoder # "OpenH264"
  <2> DEFINE va == Seat!WithConfig(s, frame)
             soft == Seat!WithConfig(Seat!OpenSoft(s), frame)
  <2>1. \/ d = [seat |-> va, picture |-> TRUE] /\ s.decoder = "libva"
        \/ \E p \in BOOLEAN : d = [seat |-> soft, picture |-> p] /\ (p => soft.decoder = "OpenH264")
    BY DEF Seat!Decoded
  <2>2. Like(va) /\ va.decoder = s.decoder /\ Like(soft) /\ soft.decoder \in {"none", "OpenH264"}
    BY <1>9
  <2>3. soft.decoder = "none" => s.decoder # "OpenH264"
    BY <1>3, <1>7, <1>8, ZenonT(40) DEF SeatRecords
  <2> HIDE DEF va, soft, Like
  <2>4. CASE d = [seat |-> va, picture |-> TRUE] /\ s.decoder = "libva"
    <3>1. d.seat = va /\ d.picture = TRUE
      BY <2>4
    <3> QED
      BY <2>2, <2>4, <3>1
  <2>5. ASSUME NEW p \in BOOLEAN, d = [seat |-> soft, picture |-> p], p => soft.decoder = "OpenH264"
        PROVE  /\ Like(d.seat) /\ d.picture \in BOOLEAN
               /\ d.picture => d.seat.decoder # "none"
               /\ d.seat.decoder \in {"none", "OpenH264"}
               /\ d.seat.decoder = "none" => s.decoder # "OpenH264"
    <3>1. d.seat = soft /\ d.picture = p
      BY <2>5
    <3>2. p => soft.decoder # "none"
      BY <2>5
    <3>3. d.picture => d.seat.decoder # "none"
      BY <3>1, <3>2, Zenon
    <3>4. d.picture \in BOOLEAN
      BY <3>1
    <3> QED
      BY <2>2, <2>3, <3>1, <3>3, <3>4
  <2> QED
    BY <2>1, <2>4, <2>5
<1> DEFINE after == IF d.picture THEN Seat!Taken(d.seat) ELSE d.seat
           says == IF d.picture /\ Seat!Mode(s) # "Paused" THEN Seat!AfterFrame(Seat!Taken(s))
                   ELSE Seat!Silent
<1>11. /\ after \in SeatRecords /\ after.pipe = s.pipe /\ after.bound = s.bound
       /\ after.failed = s.failed
       /\ after.published = s.published /\ after.decoder = d.seat.decoder
  BY <1>10 DEF Seat!Taken, SeatRecords
<1>12. Seat!AfterFrame(Seat!Taken(s)) \in {"Video", "Paused"}
  BY DEF Seat!AfterFrame
<1>13. /\ says \in Seat!Binds \cup {Seat!Silent}
       /\ (says # Seat!Silent => d.picture /\ says \in {"Video", "Paused"})
  BY <1>12 DEF Seat!Binds
<1>14. Seat!Publish(k, after, says, FALSE)
  BY <1>6
<1> HIDE DEF after, says
<1>15. SeatSays(Says(after, says))
  <2>1. /\ Says(after, says).decoder = after.decoder /\ Says(after, says).failed = after.failed
        /\ Says(after, says).bound = after.bound
        /\ Says(after, says).published = IF says = Seat!Silent THEN after.published ELSE says
    BY <1>11 DEF Says, SeatRecords
  <2>2. s.decoder \in {"none", "libva", "OpenH264"}
    BY <1>3 DEF SeatRecords
  <2> QED
    BY <1>3, <1>10, <1>11, <1>13, <2>1, <2>2 DEF SeatSays
<1>16. /\ seat' \in [Seat!Surfaces -> SeatRecords] /\ present_bind' \in Seat!Binds
       /\ gone_astray' \in BOOLEAN
  BY <1>1, <1>11, <1>13, <1>14, Published
<1>17. SeatTyped'
  BY <1>1, <1>2, <1>5, <1>16 DEF SeatTyped
<1>18. ASSUME ~gone_astray'
       PROVE  (\A h \in Seat!Surfaces : SeatIs(h)') /\ ClientWasTold'
  <2>1. after \in SeatRecords /\ after.published = seat[k].published
    BY <1>11
  <2>2. seatPc'[k] = "Feed" => after.bound /\ batch'[k] # << >>
    BY <1>3, <1>5, <1>11
  <2>3. \A h \in Seat!Surfaces : h # k => seatPc'[h] = seatPc[h] /\ batch'[h] = batch[h]
    BY <1>5
  <2>4. says \in Seat!Binds \cup {Seat!Silent}
    BY <1>13
  <2>5. UNCHANGED <<seatThread, seat_surface>> /\ seatThread[k] # "None"
    BY <1>2, <1>3
  <2> QED
    BY <1>1, <1>14, <1>15, <1>18, <2>1, <2>2, <2>3, <2>4, <2>5, SeatChanged
<1> QED
  BY <1>17, <1>18 DEF SeatInv

LEMMA SeatKeeps ==
  ASSUME Seat!SeatAssumption, SeatInv, ~gone_astray, Seat!Next
  PROVE  SeatInv'
<1>1. CASE Seat!PushConfig \/ \E keyframe \in BOOLEAN : Seat!PushFrame(keyframe)
  BY <1>1, DeviceKeeps
<1>2. CASE \/ Seat!Attach \/ Seat!Unbind \/ Seat!Pause \/ Seat!Shutdown \/ Seat!ChangeMachine
           \/ \E k \in Seat!Surfaces : Seat!Open(k)
  BY <1>2, PageKeeps
<1>3. ASSUME NEW k \in Seat!Surfaces, Seat!SurfaceStep(k)
      PROVE  SeatInv'
  BY <1>3, StepKeeps, TurnKeeps, FeedKeeps DEF Seat!SurfaceStep
<1> QED
  BY <1>1, <1>2, <1>3 DEF Seat!Next

LEMMA SeatAlways == ShellSpec => []SeatInv
<1>1. ShellInit => SeatInv
  BY SeatInitially, ShellAssumptions DEF ShellInit
<1>2. SeatInv /\ [ShellNext]_appVars => SeatInv'
  <2> SUFFICES ASSUME SeatInv, [ShellNext]_appVars
               PROVE  SeatInv'
    OBVIOUS
  <2>1. CASE UNCHANGED seatVars
    BY <2>1 DEF seatVars, SeatInv, SeatTyped, SeatIs, ClientWasTold
  <2>2. CASE ~gone_astray /\ Seat!Next
    BY <2>2, SeatKeeps, ShellAssumptions
  <2> QED
    BY <2>1, <2>2 DEF ShellNext, appVars
<1> QED
  BY <1>1, <1>2, PTL DEF ShellSpec

(* SeatTellsTruth: for every number of surfaces, sessions, configurations, *)
(* frames and changes, when the surface of the page has nothing left to    *)
(* do, what the client is told is true of its seat. A seat whose decoder   *)
(* is gone would still try or tell why; one that ensure_decoder leaves     *)
(* alone has told it already.                                              *)
THEOREM SeatTellsTheTruth == ShellSpec => []SeatTellsTruth
<1>1. SeatInv => SeatTellsTruth
  <2> SUFFICES ASSUME SeatInv, seat_surface # Seat!Nothing, Seat!AtRest(seat_surface), ~gone_astray
               PROVE  present_bind \in Seat!Truth(seat[seat_surface])
    BY DEF SeatTellsTruth, Seat!SeatTellsTruth
  <2> DEFINE s == seat[seat_surface]
  <2>1. seat_surface \in Seat!Surfaces /\ seat_surface # 0
    BY ShellAssumptions DEF SeatInv, SeatTyped, Seat!Surfaces, Seat!Nothing, Seat!SeatAssumption
  <2>2. s \in SeatRecords /\ SeatSays(s) /\ s.bound \in BOOLEAN
    BY <2>1 DEF SeatInv, SeatIs, SeatTyped, SeatRecords
  <2>3. \/ present_bind = s.published
        \/ s.published = "none" /\ present_bind = "Idle"
    BY <2>1 DEF SeatInv, ClientWasTold, Seat!AtRest
  <2>4. CASE ~s.bound
    <3>1. Seat!Truth(s) = {"Idle"}
      BY <2>4 DEF Seat!Truth
    <3>2. s.published \in {"none", "Idle"}
      <4>1. ~s.bound => s.published \in {"none", "Idle"}
        BY <2>2 DEF SeatSays
      <4> QED
        BY <2>4, <4>1, Zenon
    <3> QED
      BY <2>3, <3>1, <3>2 DEF SeatInv, SeatTyped, Seat!Binds
  <2>5. CASE s.bound
    <3> DEFINE out == Seat!ensure_decoder(s)
    <3>1. out.seat = s /\ out.says = Seat!Silent
      BY <2>5 DEF Seat!AtRest
    <3>2. Seat!Silent \notin Seat!Failures /\ Seat!Silent # "Loading" /\ "none" \notin Seat!Failures
      BY DEF Seat!Silent, Seat!Failures
    <3>3. \/ s.failed = "none"
          \/ s.decoder = "none" /\ s.failed # "none"
      <4> HIDE DEF out
      <4>1. \/ out.seat.failed = "none"
            \/ out.seat.failed \in Seat!Failures /\ out.says = out.seat.failed
            \/ s.decoder = "none" /\ s.failed # "none"
        BY <2>2, Ensured, ShellAssumptions DEF SeatInv, out
      <4> QED
        BY <3>1, <3>2, <4>1
    <3> HIDE DEF out
    <3>4. CASE s.failed = "none"
      BY <2>2, <2>3, <2>5, <3>4 DEF SeatSays, Seat!Truth
    <3>5. CASE s.decoder = "none" /\ s.failed # "none"
      <4>1. s.published = s.failed
        BY <2>2, <2>5, <3>5 DEF SeatSays
      <4> QED
        BY <2>3, <2>5, <3>5, <4>1 DEF Seat!Truth
    <3> QED
      BY <3>3, <3>4, <3>5
  <2> QED
    BY <2>2, <2>4, <2>5
<1> QED
  BY <1>1, SeatAlways, PTL

-----------------------------------------------------------------------------
(* The types                                                               *)

LEMMA CenterAlways == ShellSpec => [](Typed /\ Custody)
<1>1. ShellInit => Typed /\ Custody
  BY InitCenter, CenterAssumption DEF ShellInit
<1>2. (Typed /\ Custody) /\ [ShellNext]_appVars => (Typed /\ Custody)'
  <2> SUFFICES ASSUME Typed /\ Custody, [ShellNext]_appVars
               PROVE  (Typed /\ Custody)'
    OBVIOUS
  <2>1. [Next]_vars
    BY DEF ShellNext, appVars
  <2> QED
    BY <2>1, TypesKept, CustodyKept, CenterAssumption
<1> QED
  BY <1>1, <1>2, PTL DEF ShellSpec

(* ShellTypeOK: in the shell every variable keeps its type, whatever the   *)
(* numbers and bounds: no part takes an id, a surface, a session or a slot *)
(* that is not there, and no queue a message that is not one of its own.   *)
THEOREM ShellTypes == ShellSpec => []ShellTypeOK
<1>1. Typed => TypeOK
  BY DEF Typed
<1>2. PresentInv => Present!TypeOK
  <2>1. StageTyped => Present!TypeOK
    BY DEF StageTyped, Present!TypeOK
  <2> QED
    BY <2>1 DEF PresentInv
<1>3. SeatInv => Seat!TypeOK
  <2>1. SeatTyped => Seat!TypeOK
    BY DEF SeatTyped, SeatFrameSet, SeatRecords, Seat!TypeOK
  <2> QED
    BY <2>1 DEF SeatInv
<1>4. PaintInv => Paint!TypeOK
  BY PaintInvSuffices, ShellAssumptions
<1>5. DecoderTypes => Decoder!TypeOK
  BY DEF DecoderTypes, DecoderTyped, Decoder!TypeOK
<1>6. TypeOK /\ Present!TypeOK /\ Seat!TypeOK /\ Paint!TypeOK /\ Decoder!TypeOK => ShellTypeOK
  BY DEF ShellTypeOK
<1> QED
  BY <1>1, <1>2, <1>3, <1>4, <1>5, <1>6, CenterAlways, PresentAlways, SeatAlways, PaintAlways,
     DecoderTypesAlways, PTL
=============================================================================
