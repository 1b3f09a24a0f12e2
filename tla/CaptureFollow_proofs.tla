------------------------- MODULE CaptureFollow_proofs -------------------------
(***************************************************************************)
(* The follow workers of CaptureService. A worker whose token is open has  *)
(* the slot of its generation, or the start() that is about to publish it; *)
(* a Live slot whose token is open has its worker. Both rest on who may    *)
(* take a slot away from whom: a slot leaves Starting and Live only with   *)
(* its token cancelled, or in the hands of the one start() that opened it. *)
(***************************************************************************)
EXTENDS CaptureService_proofs

IsOpen(g) == ~ Cancelled(g)

Follows(g) == worker[g].state \in {"following", "offline"}

Publishes(t, s, g) == pc[t] = "Publish" /\ Serial(t) = s /\ Generation(t) = g

JoinPcs == {"JoinWorkers", "JoinOwn"}

(* A start() whose token is open still has the slot it opened, alone.      *)
OpenersHold ==
  \A t \in Tasks : pc[t] \in OpenerPcs /\ IsOpen(Generation(t)) =>
    /\ Holds(Serial(t), Generation(t), {"Starting"})
    /\ \A u \in Tasks : pc[u] \in OpenerPcs /\ Generation(u) = Generation(t) => u = t

(* Whoever takes a slot to stop it, or joins a worker, has cancelled.      *)
LeftIsCancelled ==
  /\ \A s \in Serials : captures[s].phase = "Stopping" => captures[s].generation \in cancelled
  /\ \A t \in Tasks : pc[t] \in JoinPcs => Generation(t) \in cancelled

FollowersHaveSlots ==
  \A g \in Gen : Follows(g) /\ IsOpen(g) =>
    \/ Holds(worker[g].serial, g, {"Live"})
    \/ \E t \in Tasks : Publishes(t, worker[g].serial, g)

SlotsAreFed ==
  /\ \A s \in Serials :
       captures[s].phase = "Live" /\ IsOpen(captures[s].generation) =>
         Follows(captures[s].generation) /\ worker[captures[s].generation].serial = s
  /\ \A t \in Tasks :
       pc[t] = "Publish" /\ IsOpen(Generation(t)) =>
         Follows(Generation(t)) /\ worker[Generation(t)].serial = Serial(t)

FollowInv == OpenersHold /\ LeftIsCancelled /\ FollowersHaveSlots /\ SlotsAreFed

LEMMA FollowInit == Init => FollowInv
  BY DEF Init, FollowInv, OpenersHold, LeftIsCancelled, FollowersHaveSlots, SlotsAreFed,
         Follows, Empty, NoWorker, OpenerPcs, JoinPcs
-----------------------------------------------------------------------------
(* What a step leaves to a task that starts or joins: its place, its call. *)
TokensGrow == cancelled \subseteq cancelled' /\ (root_cancelled => root_cancelled')

OpenerStays(u) ==
  /\ pc'[u] \in OpenerPcs => pc[u] \in OpenerPcs /\ call'[u] = call[u]
  /\ pc'[u] = "Publish" => pc[u] = "Publish"

PublisherStays(u) ==
  pc[u] = "Publish" => (pc'[u] = "Publish" /\ call'[u] = call[u]) \/ Generation(u) \in cancelled'

JoinerStays(u) ==
  pc'[u] \in JoinPcs => (pc[u] \in JoinPcs /\ call'[u] = call[u]) \/ Generation(u)' \in cancelled'

Stays(u) == OpenerStays(u) /\ PublisherStays(u) /\ JoinerStays(u)

WorkerStays(g) ==
  /\ Follows(g)' <=> Follows(g)
  /\ Follows(g) => worker'[g].serial = worker[g].serial

LEMMA TokensClose ==
  ASSUME TokensGrow, NEW g, IsOpen(g)'
  PROVE  IsOpen(g)
  BY DEF TokensGrow, IsOpen, Cancelled

(* Only the task that moves leaves a place that counts here.               *)
LEMMA MoveKeeps ==
  ASSUME TInv, NEW t \in Tasks, NEW from, NEW to,
         Goto(t, from, to) \/ GotoAndNotify(t, from, to),
         call' = call \/ \E c : call' = [call EXCEPT ![t] = c]
  PROVE  /\ \A u \in Tasks \ {t} : Stays(u) /\ (pc[u] \in OpenerPcs => pc'[u] = pc[u])
         /\ \A u \in Tasks \ {t} : call'[u] = call[u]
         /\ pc[t] = from /\ pc'[t] = to
<1>1. \A u \in Tasks \ {t} : call'[u] = call[u]
  BY DEF TInv, TypeOK
<1>2. \A u \in Tasks \ {t} : /\ pc'[u] \in OwnerPcs => pc'[u] = pc[u]
                             /\ pc[u] \in OwnerPcs => pc'[u] = pc[u]
  <2>1. CASE Goto(t, from, to)
    BY <2>1 DEF TInv, TypeOK, Goto
  <2>2. CASE GotoAndNotify(t, from, to)
    BY <2>2, AwakeType DEF TInv, GotoAndNotify
  <2>3. QED
    BY <2>1, <2>2
<1>3. pc[t] = from /\ pc'[t] = to
  BY AwakeType DEF TInv, TypeOK, Goto, GotoAndNotify
<1>4. OpenerPcs \cup JoinPcs \subseteq OwnerPcs
  BY DEF OwnerPcs, CloserPcs, JoinPcs
<1>5. "Publish" \in OpenerPcs
  BY DEF OpenerPcs
<1>6. QED
  BY <1>1, <1>2, <1>3, <1>4, <1>5
     DEF Stays, OpenerStays, PublisherStays, JoinerStays, Generation

(* A step that leaves the slots alone, and the workers of open tokens.     *)
LEMMA FollowKept ==
  ASSUME FollowInv, captures' = captures, TokensGrow,
         \A g \in Gen : IsOpen(g)' => WorkerStays(g),
         \A s \in Serials : captures[s].phase = "Live" => captures[s].generation \in Gen,
         \A u \in Tasks : Stays(u),
         \A u \in Tasks : pc[u] \in OpenerPcs => Generation(u) \in Gen
  PROVE  FollowInv'
<1> USE DEF Serial, Generation, Holds
<1>1. \A g : IsOpen(g)' => IsOpen(g)
  BY TokensClose
<1>2. OpenersHold'
  BY <1>1 DEF FollowInv, OpenersHold, Stays, OpenerStays
<1>3. LeftIsCancelled'
  BY DEF FollowInv, LeftIsCancelled, Stays, JoinerStays, TokensGrow
<1>4. FollowersHaveSlots'
  <2> SUFFICES ASSUME NEW g \in Gen, Follows(g)', IsOpen(g)'
               PROVE  \/ Holds(worker[g].serial, g, {"Live"})'
                      \/ \E t \in Tasks : Publishes(t, worker[g].serial, g)'
    BY DEF FollowersHaveSlots
  <2>1. Follows(g) /\ IsOpen(g) /\ worker'[g].serial = worker[g].serial
    BY <1>1 DEF WorkerStays
  <2>2. CASE Holds(worker[g].serial, g, {"Live"})
    BY <2>1, <2>2
  <2>3. ASSUME NEW t \in Tasks, Publishes(t, worker[g].serial, g)
        PROVE  Publishes(t, worker[g].serial, g)'
    <3>1. g \notin cancelled'
      BY DEF IsOpen, Cancelled
    <3>2. pc'[t] = "Publish" /\ call'[t] = call[t]
      BY <2>3, <3>1 DEF Publishes, Stays, PublisherStays
    <3>3. QED
      BY <2>1, <2>3, <3>2 DEF Publishes
  <2>4. QED
    BY <2>1, <2>2, <2>3 DEF FollowInv, FollowersHaveSlots
<1>5. SlotsAreFed'
  <2>1. ASSUME NEW s \in Serials, captures'[s].phase = "Live", IsOpen(captures[s].generation)'
        PROVE  Follows(captures[s].generation)' /\ worker'[captures'[s].generation].serial = s
    BY <1>1, <2>1 DEF FollowInv, SlotsAreFed, WorkerStays
  <2>2. ASSUME NEW t \in Tasks, pc'[t] = "Publish", IsOpen(Generation(t))'
        PROVE  Follows(Generation(t))' /\ worker'[Generation(t)'].serial = Serial(t)'
    <3>1. pc[t] = "Publish" /\ call'[t] = call[t] /\ pc[t] \in OpenerPcs
      BY <2>2 DEF Stays, OpenerStays, OpenerPcs
    <3>2. QED
      BY <1>1, <2>2, <3>1 DEF FollowInv, SlotsAreFed, WorkerStays
  <2>3. QED
    BY <2>1, <2>2 DEF SlotsAreFed
<1>6. QED
  BY <1>2, <1>3, <1>4, <1>5 DEF FollowInv
-----------------------------------------------------------------------------
(* The steps that write a slot, each as far as the invariant goes: s is    *)
(* the slot, t the task, which holds or opens generation g of it.          *)
OthersKeep(t) ==
  \A u \in Tasks \ {t} :
    Stays(u) /\ (pc[u] \in OpenerPcs => pc'[u] = pc[u]) /\ call'[u] = call[u]

Rewrites(s, phase, g) ==
  /\ \A r \in Serials \ {s} : captures'[r] = captures[r]
  /\ captures'[s].phase = phase
  /\ captures'[s].generation = g

(* A slot that nobody has is opened by a task that had none.               *)
LEMMA FollowOpens ==
  ASSUME TInv, SlotOrder, FollowInv, NEW s \in Serials, NEW t \in Tasks,
         captures[s].phase = "Empty", Rewrites(s, "Starting", next_generation + 1),
         UNCHANGED <<cancelled, root_cancelled, worker>>, OthersKeep(t),
         pc[t] \notin OpenerPcs, pc'[t] \in OpenerPcs \ {"Publish"},
         call'[t].serial = s, call'[t].generation = next_generation + 1
  PROVE  FollowInv'
<1> USE DEF Serial, Generation
<1> DEFINE g == next_generation + 1
<1>1. \A h : IsOpen(h)' <=> IsOpen(h)
  BY DEF IsOpen, Cancelled
<1>2. \A h \in Gen : Follows(h)' <=> Follows(h)
  BY DEF Follows
<1>3. \A r \in Serials : captures[r].generation # g
  BY DEF SlotOrder, TInv, TypeOK, Slot, Empty, Gen
<1>4. \A u \in Tasks \ {t} : pc'[u] \in OpenerPcs => pc[u] \in OpenerPcs /\ call'[u] = call[u]
  BY DEF OthersKeep, Stays, OpenerStays
<1>5. \A u \in Tasks : pc[u] \in OpenerPcs => Serial(u) \in Serials /\ Generation(u) \in Gen
  BY RoleSerial DEF RolePcs
<1>6. OpenersHold'
  <2>1. \A u \in Tasks \ {t} : pc'[u] \in OpenerPcs /\ IsOpen(Generation(u))' =>
           /\ Holds(Serial(u), Generation(u), {"Starting"})
           /\ Serial(u) # s /\ Generation(u) # g
    BY <1>1, <1>3, <1>4, <1>5 DEF FollowInv, OpenersHold, Holds
  <2>2. \A u \in Tasks \ {t} : pc'[u] \in OpenerPcs /\ IsOpen(Generation(u))' =>
           Holds(Serial(u), Generation(u), {"Starting"})'
    BY <1>4, <1>5, <2>1 DEF Rewrites, Holds
  <2>3. Holds(Serial(t), Generation(t), {"Starting"})'
    BY DEF Rewrites, Holds
  <2>4. QED
    BY <1>1, <1>4, <2>1, <2>2, <2>3 DEF FollowInv, OpenersHold
<1>7. LeftIsCancelled'
  <2>1. pc'[t] \notin JoinPcs
    BY DEF OpenerPcs, JoinPcs
  <2>2. QED
    BY <2>1 DEF FollowInv, LeftIsCancelled, OthersKeep, Stays, JoinerStays, Rewrites
<1>8. FollowersHaveSlots'
  <2> SUFFICES ASSUME NEW h \in Gen, Follows(h), IsOpen(h)
               PROVE  \/ Holds(worker[h].serial, h, {"Live"})'
                      \/ \E u \in Tasks : Publishes(u, worker[h].serial, h)'
    BY <1>1, <1>2 DEF FollowersHaveSlots
  <2>1. worker[h].serial \in Serials
    BY WorkerFields DEF Follows, TInv
  <2>2. CASE Holds(worker[h].serial, h, {"Live"})
    BY <2>1, <2>2 DEF Holds, Rewrites
  <2>3. ASSUME NEW u \in Tasks, Publishes(u, worker[h].serial, h)
        PROVE  Publishes(u, worker[h].serial, h)'
    BY <2>3 DEF Publishes, OthersKeep, OpenerPcs
  <2>4. QED
    BY <2>2, <2>3 DEF FollowInv, FollowersHaveSlots
<1>9. SlotsAreFed'
  <2>1. \A u \in Tasks : pc'[u] = "Publish" => u # t /\ pc[u] = "Publish" /\ call'[u] = call[u]
    BY <1>4 DEF OthersKeep, Stays, OpenerStays, OpenerPcs
  <2>2. QED
    BY <1>1, <1>2, <2>1 DEF FollowInv, SlotsAreFed, Rewrites, Follows
<1>10. QED
  BY <1>6, <1>7, <1>8, <1>9 DEF FollowInv

(* A slot goes to Stopping or Empty: with its token cancelled, or by its   *)
(* one opener, who has no worker yet.                                      *)
LEMMA FollowLeaves ==
  ASSUME TInv, SlotOrder, FollowInv, NEW s \in Serials, NEW g \in Gen, NEW phase,
         captures[s].generation = g, captures[s].phase # "Empty",
         Rewrites(s, phase, captures'[s].generation), phase \in {"Stopping", "Empty"},
         TokensGrow,
         phase = "Stopping" => captures'[s].generation \in cancelled',
         \A u \in Tasks : Stays(u),
         IsOpen(g)' => /\ ~ Follows(g)'
                       /\ \A u \in Tasks : pc'[u] \in OpenerPcs => Generation(u) # g,
         \A h \in Gen \ {g} : IsOpen(h)' => WorkerStays(h)
  PROVE  FollowInv'
<1> USE DEF Serial, Generation
<1>1. \A h : IsOpen(h)' => IsOpen(h)
  BY TokensClose
<1>2. \A u \in Tasks : pc[u] \in OpenerPcs => Serial(u) \in Serials /\ Generation(u) \in Gen
  BY RoleSerial DEF RolePcs
<1>3. \A u \in Tasks : pc'[u] \in OpenerPcs => pc[u] \in OpenerPcs /\ call'[u] = call[u]
  BY DEF Stays, OpenerStays
<1>4. \A u \in Tasks : pc'[u] \in OpenerPcs /\ IsOpen(Generation(u))' =>
         /\ Holds(Serial(u), Generation(u), {"Starting"})
         /\ Generation(u) # g /\ Serial(u) # s
  BY <1>1, <1>3 DEF FollowInv, OpenersHold, Holds
<1>5. OpenersHold'
  <2>1. \A u \in Tasks : pc'[u] \in OpenerPcs /\ IsOpen(Generation(u))' =>
           Holds(Serial(u), Generation(u), {"Starting"})'
    BY <1>2, <1>3, <1>4 DEF Rewrites, Holds
  <2>2. QED
    BY <1>1, <1>3, <2>1 DEF FollowInv, OpenersHold
<1>6. LeftIsCancelled'
  BY DEF FollowInv, LeftIsCancelled, Stays, JoinerStays, Rewrites, TokensGrow
<1>7. FollowersHaveSlots'
  <2> SUFFICES ASSUME NEW h \in Gen, Follows(h)', IsOpen(h)'
               PROVE  \/ Holds(worker[h].serial, h, {"Live"})'
                      \/ \E u \in Tasks : Publishes(u, worker[h].serial, h)'
    BY DEF FollowersHaveSlots
  <2>1. h # g /\ Follows(h) /\ IsOpen(h) /\ worker'[h].serial = worker[h].serial
    BY <1>1 DEF WorkerStays
  <2>2. worker[h].serial \in Serials
    BY <2>1, WorkerFields DEF Follows, TInv
  <2>3. CASE Holds(worker[h].serial, h, {"Live"})
    BY <2>1, <2>2, <2>3 DEF Holds, Rewrites
  <2>4. ASSUME NEW u \in Tasks, Publishes(u, worker[h].serial, h)
        PROVE  Publishes(u, worker[h].serial, h)'
    BY <2>1, <2>4 DEF Publishes, Stays, PublisherStays, IsOpen, Cancelled
  <2>5. QED
    BY <2>1, <2>3, <2>4 DEF FollowInv, FollowersHaveSlots
<1>8. SlotsAreFed'
  <2>1. ASSUME NEW r \in Serials, captures'[r].phase = "Live", IsOpen(captures[r].generation)'
        PROVE  /\ Follows(captures[r].generation)'
               /\ worker'[captures'[r].generation].serial = r
    <3>1. r # s /\ captures'[r] = captures[r]
      BY <2>1 DEF Rewrites
    <3>2. captures[r].generation \in Gen \ {g}
      BY <2>1, <3>1, SlotFields DEF SlotOrder, TInv, Gen
    <3>3. QED
      BY <1>1, <2>1, <3>1, <3>2 DEF FollowInv, SlotsAreFed, WorkerStays
  <2>2. ASSUME NEW u \in Tasks, pc'[u] = "Publish", IsOpen(Generation(u))'
        PROVE  Follows(Generation(u))' /\ worker'[Generation(u)'].serial = Serial(u)'
    <3>1. pc'[u] \in OpenerPcs
      BY <2>2 DEF OpenerPcs
    <3>2. /\ pc[u] = "Publish" /\ call'[u] = call[u]
          /\ Generation(u) \in Gen \ {g}
      BY <1>2, <1>3, <1>4, <2>2, <3>1 DEF Stays, OpenerStays
    <3>3. QED
      BY <1>1, <2>2, <3>2 DEF FollowInv, SlotsAreFed, WorkerStays
  <2>3. QED
    BY <2>1, <2>2 DEF SlotsAreFed
<1>9. QED
  BY <1>5, <1>6, <1>7, <1>8 DEF FollowInv

(* The worker is spawned while its start() holds the slot.                 *)
LEMMA FollowSpawns ==
  ASSUME TInv, SlotOrder, FollowInv, NEW t \in Tasks, SpawnWorker(t), ~ Cancelled(Generation(t))
  PROVE  FollowInv'
<1> DEFINE s == call[t].serial
           g == call[t].generation
<1> USE DEF Serial, Generation
<1>1. /\ Goto(t, "SpawnWorker", "Publish")
      /\ worker' = [worker EXCEPT ![g] = [state |-> "following", serial |-> s]]
      /\ UNCHANGED <<captures, cancelled, root_cancelled, call>>
  BY DEF SpawnWorker, slotVars, tokenVars
<1>2. pc[t] = "SpawnWorker" /\ pc'[t] = "Publish" /\ OthersKeep(t)
  BY <1>1, MoveKeeps DEF OthersKeep
<1>3. pc[t] \in OpenerPcs /\ pc'[t] \in OpenerPcs /\ pc'[t] \notin JoinPcs /\ IsOpen(g)
  BY <1>2 DEF OpenerPcs, JoinPcs, IsOpen
<1>4. s \in Serials /\ g \in Gen
  BY <1>3, RoleSerial DEF RolePcs
<1>5. \A h : IsOpen(h)' <=> IsOpen(h)
  BY <1>1 DEF IsOpen, Cancelled
<1>6. /\ worker'[g] = [state |-> "following", serial |-> s]
      /\ \A h \in Gen \ {g} : worker'[h] = worker[h]
  BY <1>1, <1>4 DEF TInv, TypeOK
<1>7. /\ Holds(s, g, {"Starting"})
      /\ \A u \in Tasks : pc[u] \in OpenerPcs /\ call[u].generation = g => u = t
  BY <1>3 DEF FollowInv, OpenersHold
<1>8. \A u \in Tasks : pc'[u] \in OpenerPcs => pc[u] \in OpenerPcs
  BY <1>2, <1>3 DEF OthersKeep, Stays, OpenerStays
<1>9. OpenersHold'
  BY <1>1, <1>5, <1>8 DEF FollowInv, OpenersHold, Holds
<1>10. LeftIsCancelled'
  BY <1>1, <1>3, <1>2 DEF FollowInv, LeftIsCancelled, OthersKeep, Stays, JoinerStays
<1>11. FollowersHaveSlots'
  <2>1. Publishes(t, s, g)'
    BY <1>1, <1>2 DEF Publishes
  <2>2. ASSUME NEW h \in Gen \ {g}, Follows(h), IsOpen(h)
        PROVE  \/ Holds(worker[h].serial, h, {"Live"})
               \/ \E u \in Tasks : Publishes(u, worker[h].serial, h) /\ u # t
    BY <1>2, <2>2 DEF FollowInv, FollowersHaveSlots, Publishes
  <2>3. \A u \in Tasks \ {t} : pc[u] = "Publish" => pc'[u] = "Publish"
    BY <1>2 DEF OthersKeep, OpenerPcs
  <2>4. QED
    BY <1>1, <1>5, <1>6, <2>1, <2>2, <2>3 DEF FollowersHaveSlots, Follows, Publishes, Holds
<1>12. SlotsAreFed'
  <2>1. Follows(g)' /\ worker'[g].serial = s
    BY <1>1, <1>6 DEF Follows
  <2>2. \A r \in Serials : captures[r].phase = "Live" =>
          captures[r].generation \in Gen \ {g}
    BY <1>4, <1>7, SlotFields DEF SlotOrder, TInv, Gen, Holds
  <2>3. \A u \in Tasks \ {t} : pc'[u] = "Publish" =>
          /\ pc[u] = "Publish" /\ call[u].generation \in Gen \ {g}
    BY <1>2, <1>7, RoleSerial DEF OthersKeep, Stays, OpenerStays, OpenerPcs, RolePcs
  <2>4. QED
    BY <1>1, <1>5, <1>6, <2>1, <2>2, <2>3 DEF FollowInv, SlotsAreFed, Follows
<1>13. QED
  BY <1>9, <1>10, <1>11, <1>12 DEF FollowInv

(* The slot goes Live: its worker has been spawned by the same start().    *)
LEMMA FollowPublishes ==
  ASSUME TInv, SlotOrder, FollowInv, NEW t \in Tasks, NEW s \in Serials, NEW g \in Gen,
         Publishes(t, s, g), captures[s].phase = "Starting", captures[s].generation = g,
         Rewrites(s, "Live", g), pc'[t] \notin OpenerPcs \cup JoinPcs,
         OthersKeep(t), UNCHANGED <<cancelled, root_cancelled, worker>>
  PROVE  FollowInv'
<1> USE DEF Serial, Generation, Publishes
<1>1. \A h : (IsOpen(h)' <=> IsOpen(h)) /\ (Follows(h)' <=> Follows(h))
  BY DEF IsOpen, Cancelled, Follows
<1>2. pc[t] \in OpenerPcs /\ pc'[t] # "Publish"
  BY DEF OpenerPcs
<1>3. \A u \in Tasks : pc'[u] \in OpenerPcs => u # t /\ pc[u] \in OpenerPcs /\ call'[u] = call[u]
  BY DEF OthersKeep, Stays, OpenerStays
<1>4. \A u \in Tasks : pc[u] \in OpenerPcs => Serial(u) \in Serials
  BY RoleSerial DEF RolePcs
<1>5. OpenersHold'
  <2>1. \A u \in Tasks \ {t} : pc[u] \in OpenerPcs /\ IsOpen(Generation(u)) =>
           Holds(Serial(u), Generation(u), {"Starting"}) /\ Serial(u) # s
    BY <1>2 DEF FollowInv, OpenersHold, Holds
  <2>2. QED
    BY <1>1, <1>3, <1>4, <2>1 DEF FollowInv, OpenersHold, Holds, Rewrites
<1>6. LeftIsCancelled'
  BY DEF FollowInv, LeftIsCancelled, OthersKeep, Stays, JoinerStays, Rewrites
<1>7. FollowersHaveSlots'
  <2> SUFFICES ASSUME NEW h \in Gen, Follows(h), IsOpen(h)
               PROVE  \/ Holds(worker[h].serial, h, {"Live"})'
                      \/ \E u \in Tasks : Publishes(u, worker[h].serial, h)'
    BY <1>1 DEF FollowersHaveSlots
  <2>1. worker[h].serial \in Serials
    BY WorkerFields DEF Follows, TInv
  <2>2. CASE Holds(worker[h].serial, h, {"Live"})
    BY <2>1, <2>2 DEF Holds, Rewrites
  <2>3. ASSUME NEW u \in Tasks \ {t}, Publishes(u, worker[h].serial, h)
        PROVE  Publishes(u, worker[h].serial, h)'
    BY <2>3 DEF OthersKeep, OpenerPcs
  <2>4. CASE Publishes(t, worker[h].serial, h)
    BY <2>4 DEF Holds, Rewrites
  <2>5. QED
    BY <2>2, <2>3, <2>4 DEF FollowInv, FollowersHaveSlots
<1>8. SlotsAreFed'
  <2>1. IsOpen(g) => Follows(g) /\ worker[g].serial = s
    BY DEF FollowInv, SlotsAreFed
  <2>2. \A u \in Tasks : pc'[u] = "Publish" => pc[u] = "Publish" /\ call'[u] = call[u]
    BY <1>2 DEF OthersKeep, Stays, OpenerStays, OpenerPcs
  <2>3. QED
    BY <1>1, <2>1, <2>2 DEF FollowInv, SlotsAreFed, Rewrites
<1>9. QED
  BY <1>5, <1>6, <1>7, <1>8 DEF FollowInv
-----------------------------------------------------------------------------
(* The step, action by action.                                             *)
LEMMA LiveFields ==
  ASSUME TInv
  PROVE  /\ \A s \in Serials : captures[s].phase # "Empty" => captures[s].generation \in Gen
         /\ \A u \in Tasks : pc[u] \in OpenerPcs => Generation(u) \in Gen
  BY SlotFields, RoleSerial DEF TInv, RolePcs

LEMMA TokensSame ==
  ASSUME UNCHANGED <<cancelled, root_cancelled>>
  PROVE  TokensGrow
  BY DEF TokensGrow

(* A step of a task that neither writes a slot nor spawns.                 *)
LEMMA FollowMoves ==
  ASSUME TInv, FollowInv, NEW t \in Tasks, OthersKeep(t), Stays(t), TokensGrow,
         captures' = captures, \A g \in Gen : IsOpen(g)' => WorkerStays(g)
  PROVE  FollowInv'
<1>1. \A u \in Tasks : Stays(u)
  BY DEF OthersKeep
<1>2. QED
  BY <1>1, LiveFields, FollowKept

LEMMA SameWorkers ==
  ASSUME worker' = worker
  PROVE  \A g \in Gen : WorkerStays(g)
  BY DEF WorkerStays, Follows

(* A join ends only a worker whose token has been cancelled.               *)
LEMMA JoinKeeps ==
  ASSUME TInv, NEW g \in Gen, g \in cancelled, JoinOrAbort(g), UNCHANGED tokenVars
  PROVE  \A h \in Gen : IsOpen(h)' => WorkerStays(h)
<1>1. \A h \in Gen \ {g} : worker'[h] = worker[h]
  BY DEF JoinOrAbort, TInv, TypeOK
<1>2. ~ IsOpen(g)'
  BY DEF IsOpen, Cancelled, tokenVars
<1>3. QED
  BY <1>1, <1>2 DEF WorkerStays, Follows

(* Quiet moves: to a place that matters only from one that does.           *)
LEMMA FollowGoes ==
  ASSUME TInv, FollowInv, NEW t \in Tasks, NEW from, NEW to,
         Goto(t, from, to) \/ GotoAndNotify(t, from, to),
         call' = call \/ \E c : call' = [call EXCEPT ![t] = c],
         to \in OpenerPcs => from \in OpenerPcs /\ call' = call,
         to # "Publish", from # "Publish", to \notin JoinPcs,
         UNCHANGED <<captures, cancelled, root_cancelled, worker>>
  PROVE  FollowInv'
<1>1. OthersKeep(t) /\ pc[t] = from /\ pc'[t] = to
  BY MoveKeeps DEF OthersKeep
<1>2. Stays(t)
  BY <1>1 DEF Stays, OpenerStays, PublisherStays, JoinerStays
<1>3. QED
  BY <1>1, <1>2, TokensSame, SameWorkers, FollowMoves

LEMMA FollowReturns ==
  ASSUME TInv, FollowInv, NEW t \in Tasks, NEW from, from # "Publish",
         Return(t, from) \/ ReturnAndNotify(t, from),
         UNCHANGED <<captures, cancelled, root_cancelled, worker>>
  PROVE  FollowInv'
<1>1. Goto(t, from, "Idle") \/ GotoAndNotify(t, from, "Idle")
  BY DEF Return, ReturnAndNotify
<1>2. \E c : call' = [call EXCEPT ![t] = c]
  BY DEF Return, ReturnAndNotify
<1>3. "Idle" \notin OpenerPcs /\ "Idle" \notin JoinPcs
  BY DEF OpenerPcs, JoinPcs
<1>4. QED
  BY <1>1, <1>2, <1>3, FollowGoes

LEMMA FollowStart ==
  ASSUME TInv, SlotOrder, FollowInv, NEW t \in Tasks, StartStep(t)
  PROVE  FollowInv'
<1> USE DEF slotVars, tokenVars, eventVars, OpenerPcs, JoinPcs
<1>1. CASE Adopt(t)
  BY <1>1, FollowReturns DEF Adopt
<1>2. CASE DecideWait(t)
  BY FollowGoes, <1>2 DEF DecideWait
<1>3. CASE Begin(t)
  <2> DEFINE s == call[t].serial
             g == next_generation + 1
  <2>1. PICK to \in {"ClearDevice", "CheckCancel"} : GotoAndNotify(t, "DecideStart", to)
    BY <1>3 DEF Begin
  <2>2. call' = [call EXCEPT ![t].generation = g] /\ UNCHANGED <<cancelled, root_cancelled, worker>>
    BY <1>3 DEF Begin
  <2>3. \E c : call' = [call EXCEPT ![t] = c]
    BY <2>2 DEF TInv, TypeOK
  <2>4. OthersKeep(t) /\ pc[t] = "DecideStart" /\ pc'[t] = to
    BY <2>1, <2>3, MoveKeeps DEF OthersKeep
  <2>5. call'[t].serial = s /\ call'[t].generation = g
    BY <2>2, <2>4, CallUpdate DEF TInv, TypeOK
  <2>6. s \in Serials
    BY <2>4, CallFields DEF Serial
  <2>7. captures[s].phase = "Empty" /\ Rewrites(s, "Starting", g)
    BY <1>3, <2>6 DEF Begin, Serial, Empty, Rewrites, TInv, TypeOK
  <2>8. QED
    BY <2>2, <2>4, <2>5, <2>6, <2>7, FollowOpens
<1>4. CASE RecheckStart(t)
  BY FollowGoes, <1>4 DEF RecheckStart
<1>5. CASE ClearDevice(t)
  BY FollowGoes, <1>5 DEF ClearDevice
<1>6. CASE CheckCancel(t)
  BY FollowGoes, <1>6 DEF CheckCancel
<1>7. CASE AbandonStart(t)
  <2> DEFINE s == call[t].serial
             g == call[t].generation
  <2>1. CASE Return(t, "AbandonStart") /\ UNCHANGED <<slotVars, tokenVars, worker>>
    BY <2>1, FollowReturns
  <2>2. CASE /\ Goto(t, "AbandonStart", "SendAbandoned")
             /\ Holds(Serial(t), Generation(t), {"Starting"})
             /\ remember_and_remove(Serial(t))
             /\ UNCHANGED <<tokenVars, worker, call>>
    <3>1. OthersKeep(t) /\ pc[t] = "AbandonStart" /\ pc'[t] = "SendAbandoned"
      BY <2>2, MoveKeeps DEF OthersKeep
    <3>2. s \in Serials /\ g \in Gen
      BY <3>1, RoleSerial DEF RolePcs, Serial, Generation
    <3>3. captures[s].generation = g /\ captures[s].phase = "Starting"
      BY <2>2 DEF Holds, Serial, Generation
    <3>4. Rewrites(s, "Empty", captures'[s].generation)
      BY <2>2, <3>2 DEF remember_and_remove, Rewrites, Empty, Serial, TInv, TypeOK
    <3>5. TokensGrow /\ \A h : IsOpen(h)' <=> IsOpen(h)
      BY <2>2 DEF TokensGrow, IsOpen, Cancelled
    <3>6. \A u \in Tasks : Stays(u)
      BY <3>1 DEF OthersKeep, Stays, OpenerStays, PublisherStays, JoinerStays
    <3>7. IsOpen(g) => \A u \in Tasks : pc[u] \in OpenerPcs /\ Generation(u) = g => u = t
      BY <3>1 DEF FollowInv, OpenersHold, Generation
    <3>8. IsOpen(g) => \A u \in Tasks : pc'[u] \in OpenerPcs => Generation(u) # g
      BY <3>1, <3>6, <3>7 DEF Stays, OpenerStays
    <3>9. IsOpen(g) => ~ Follows(g)
      <4>1. ~ Holds(worker[g].serial, g, {"Live"}) \/ ~ Follows(g)
        <5>1. Follows(g) => worker[g].serial \in Serials
          BY <3>2, WorkerFields DEF Follows, TInv
        <5>2. QED
          BY <3>2, <3>3, <5>1 DEF Holds, SlotOrder, Gen
      <4>2. IsOpen(g) => \A u \in Tasks : ~ Publishes(u, worker[g].serial, g)
        BY <3>1, <3>7 DEF Publishes
      <4>3. QED
        BY <3>2, <4>1, <4>2 DEF FollowInv, FollowersHaveSlots
    <3>10. \A h \in Gen : WorkerStays(h)
      BY <2>2, SameWorkers
    <3>11. IsOpen(g)' => ~ Follows(g)'
      BY <2>2, <3>5, <3>9 DEF Follows
    <3>12. QED
      BY <2>2, <3>2, <3>3, <3>4, <3>5, <3>6, <3>8, <3>10, <3>11, FollowLeaves
  <2>3. QED
    BY <1>7, <2>1, <2>2 DEF AbandonStart
<1>8. CASE SendAbandoned(t)
  BY <1>8, FollowReturns DEF SendAbandoned
<1>9. CASE ClearRing(t)
  BY FollowGoes, <1>9 DEF ClearRing
<1>10. CASE SendRunning(t)
  BY FollowGoes, <1>10 DEF SendRunning
<1>11. CASE SpawnWorker(t)
  <2>1. CASE Cancelled(Generation(t))
    BY FollowGoes, <1>11, <2>1 DEF SpawnWorker
  <2>2. CASE ~ Cancelled(Generation(t))
    BY <1>11, <2>2, FollowSpawns
  <2>3. QED
    BY <2>1, <2>2
<1>12. CASE Publish(t)
  <2> DEFINE s == call[t].serial
             g == call[t].generation
  <2>1. CASE /\ ReturnAndNotify(t, "Publish")
             /\ Holds(Serial(t), Generation(t), {"Starting"})
             /\ captures' = [captures EXCEPT ![Serial(t)] =
                  [phase |-> "Live", generation |-> Generation(t), handles |-> TRUE]]
             /\ UNCHANGED <<tokenVars, worker>>
    <3>1. OthersKeep(t) /\ pc[t] = "Publish" /\ pc'[t] = "Idle"
      BY <2>1, MoveKeeps, ZenonT(40) DEF OthersKeep, ReturnAndNotify
    <3>2. s \in Serials /\ g \in Gen
      BY <3>1, RoleSerial DEF RolePcs, Serial, Generation
    <3>3. captures[s].generation = g /\ captures[s].phase = "Starting"
      BY <2>1 DEF Holds, Serial, Generation
    <3>4. Rewrites(s, "Live", g)
      BY <2>1, <3>2 DEF Rewrites, Serial, Generation, TInv, TypeOK
    <3>5. Publishes(t, s, g)
      BY <3>1 DEF Publishes, Serial, Generation
    <3>6. QED
      BY <2>1, <3>1, <3>2, <3>3, <3>4, <3>5, FollowPublishes
  <2>2. CASE /\ Goto(t, "Publish", "JoinOwn")
             /\ cancelled' = cancelled \cup {Generation(t)}
             /\ UNCHANGED <<slotVars, root_cancelled, worker, call>>
    <3>1. OthersKeep(t) /\ pc[t] = "Publish" /\ pc'[t] = "JoinOwn"
      BY <2>2, MoveKeeps DEF OthersKeep
    <3>2. Stays(t)
      BY <2>2, <3>1 DEF Stays, OpenerStays, PublisherStays, JoinerStays, Generation
    <3>3. TokensGrow
      BY <2>2 DEF TokensGrow
    <3>4. QED
      BY <2>2, <3>1, <3>2, <3>3, SameWorkers, FollowMoves
  <2>3. QED
    BY <1>12, <2>1, <2>2 DEF Publish
<1>13. CASE JoinOwn(t)
  <2>1. OthersKeep(t) /\ pc[t] = "JoinOwn" /\ pc'[t] = "Idle"
    BY <1>13, MoveKeeps, ZenonT(40) DEF OthersKeep, JoinOwn, Return
  <2>2. Generation(t) \in Gen /\ Generation(t) \in cancelled
    BY <2>1 DEF FollowInv, LeftIsCancelled, TInv, CallOK, OwnerPcs
  <2>3. Stays(t)
    BY <2>1 DEF Stays, OpenerStays, PublisherStays, JoinerStays
  <2>4. QED
    BY <1>13, <2>1, <2>2, <2>3, JoinKeeps, TokensSame, FollowMoves DEF JoinOwn
<1>14. QED
  BY <1>1, <1>2, <1>3, <1>4, <1>5, <1>6, <1>7, <1>8, <1>9, <1>10, <1>11, <1>12, <1>13
     DEF StartStep

LEMMA FollowStop ==
  ASSUME TInv, SlotOrder, FollowInv, NEW t \in Tasks, StopStep(t)
  PROVE  FollowInv'
<1> USE DEF slotVars, tokenVars, eventVars, OpenerPcs, JoinPcs
<1>1. EndStop(t) => call' = call \/ \E c : call' = [call EXCEPT ![t] = c]
  BY DEF EndStop
<1>2. AfterStop(t) \in {"Idle", "ClearAfterStop"}
  BY DEF AfterStop
<1>3. CASE NothingToStop(t)
  BY FollowGoes, <1>1, <1>2, <1>3 DEF NothingToStop
<1>4. CASE DecideStop(t)
  BY FollowGoes, <1>4 DEF DecideStop
<1>5. CASE TakeSlot(t)
  <2> DEFINE s == call[t].serial
             g == captures[s].generation
  <2>0. PICK to \in {"JoinWorkers", "RemoveSlot"} : GotoAndNotify(t, "DecideStop", to)
    BY <1>5 DEF TakeSlot
  <2>1. /\ captures[s].phase \in {"Starting", "Live"}
        /\ captures' = [captures EXCEPT ![s] =
             [phase |-> "Stopping", generation |-> g, handles |-> FALSE]]
        /\ cancelled' = cancelled \cup {g}
        /\ call' = [call EXCEPT ![t].generation = g]
        /\ UNCHANGED <<root_cancelled, worker>>
    BY <1>5 DEF TakeSlot, phase_occupies, Serial
  <2>2. \E c : call' = [call EXCEPT ![t] = c]
    BY <2>1 DEF TInv, TypeOK
  <2>3. OthersKeep(t) /\ pc[t] = "DecideStop" /\ pc'[t] = to
    BY <2>0, <2>2, MoveKeeps DEF OthersKeep
  <2>4. call'[t].generation = g
    BY <2>1, <2>3, CallUpdate DEF TInv, TypeOK
  <2>5. s \in Serials /\ g \in Gen
    BY <2>1, <2>3, CallFields, SlotFields DEF Serial, TInv
  <2>6. captures'[s].generation = g /\ Rewrites(s, "Stopping", captures'[s].generation)
    BY <2>1, <2>5 DEF Rewrites, TInv, TypeOK
  <2>7. TokensGrow /\ ~ IsOpen(g)'
    BY <2>1, <2>5 DEF TokensGrow, IsOpen, Cancelled, TInv, TypeOK, Slot
  <2>8. Stays(t)
    BY <2>1, <2>3, <2>4 DEF Stays, OpenerStays, PublisherStays, JoinerStays, Generation
  <2>9. \A u \in Tasks : Stays(u)
    BY <2>3, <2>8 DEF OthersKeep
  <2>10. \A h \in Gen : WorkerStays(h)
    BY <2>1, SameWorkers
  <2>11. QED
    BY <2>1, <2>5, <2>6, <2>7, <2>9, <2>10, FollowLeaves
<1>6. CASE RecheckStop(t)
  BY FollowGoes, <1>6 DEF RecheckStop
<1>7. CASE JoinWorkers(t)
  <2>1. OthersKeep(t) /\ pc[t] = "JoinWorkers" /\ pc'[t] = "RemoveSlot"
    BY <1>7, MoveKeeps DEF OthersKeep, JoinWorkers
  <2>2. Generation(t) \in Gen /\ Generation(t) \in cancelled
    BY <2>1 DEF FollowInv, LeftIsCancelled, TInv, CallOK, OwnerPcs, CloserPcs
  <2>3. Stays(t)
    BY <2>1 DEF Stays, OpenerStays, PublisherStays, JoinerStays
  <2>4. QED
    BY <1>7, <2>1, <2>2, <2>3, JoinKeeps, TokensSame, FollowMoves DEF JoinWorkers
<1>8. CASE RemoveSlot(t)
  <2> DEFINE s == call[t].serial
             g == call[t].generation
  <2>1. CASE Holds(Serial(t), Generation(t), {"Stopping"})
    <3>1. /\ Goto(t, "RemoveSlot", "SendStopped")
          /\ captures' = [captures EXCEPT ![s] = Empty]
          /\ UNCHANGED <<cancelled, root_cancelled, worker, call>>
      BY <1>8, <2>1 DEF RemoveSlot, remember_and_remove, Serial
    <3>2. OthersKeep(t) /\ pc[t] = "RemoveSlot" /\ pc'[t] = "SendStopped"
      BY <3>1, MoveKeeps DEF OthersKeep
    <3>3. s \in Serials /\ g \in Gen
      BY <3>2, RoleSerial DEF RolePcs, CloserPcs, Serial, Generation
    <3>4. captures[s].generation = g /\ captures[s].phase = "Stopping" /\ g \in cancelled
      BY <2>1, <3>3 DEF Holds, Serial, Generation, FollowInv, LeftIsCancelled
    <3>5. Rewrites(s, "Empty", captures'[s].generation)
      BY <3>1, <3>3 DEF Rewrites, Empty, TInv, TypeOK
    <3>6. TokensGrow /\ ~ IsOpen(g)'
      BY <3>1, <3>4 DEF TokensGrow, IsOpen, Cancelled
    <3>7. \A u \in Tasks : Stays(u)
      BY <3>2 DEF OthersKeep, Stays, OpenerStays, PublisherStays, JoinerStays
    <3>8. \A h \in Gen : WorkerStays(h)
      BY <3>1, SameWorkers
    <3>9. QED
      BY <3>1, <3>3, <3>4, <3>5, <3>6, <3>7, <3>8, FollowLeaves
  <2>2. CASE ~ Holds(Serial(t), Generation(t), {"Stopping"})
    BY FollowGoes, <1>1, <1>2, <1>8, <2>2 DEF RemoveSlot
  <2>3. QED
    BY <2>1, <2>2
<1>9. CASE SendStopped(t)
  BY FollowGoes, <1>1, <1>2, <1>9 DEF SendStopped
<1>10. CASE ClearAfterStop(t)
  BY FollowReturns, <1>10 DEF ClearAfterStop
<1>11. QED
  BY <1>3, <1>4, <1>5, <1>6, <1>7, <1>8, <1>9, <1>10 DEF StopStep

(* Steps of a worker: only one whose token is cancelled, or cancelled by   *)
(* this very step, stops following.                                        *)
LEMMA FollowWorker ==
  ASSUME TInv, SlotOrder, FollowInv, NEW g \in Gen, WorkerStep(g)
  PROVE  FollowInv'
<1> USE DEF slotVars, tokenVars, eventVars, JoinPcs
<1>1. ASSUME UNCHANGED <<captures, cancelled, root_cancelled, call>>, pc' = pc \/ pc' = Awake,
             \A h \in Gen : IsOpen(h)' => WorkerStays(h)
      PROVE  FollowInv'
  <2>1. \A u \in Tasks : /\ pc'[u] \in OwnerPcs => pc'[u] = pc[u]
                         /\ pc[u] \in OwnerPcs => pc'[u] = pc[u]
    BY <1>1, AwakeType DEF TInv
  <2>2. OpenerPcs \cup JoinPcs \subseteq OwnerPcs /\ "Publish" \in OwnerPcs
    BY DEF OwnerPcs, OpenerPcs, CloserPcs
  <2>3. \A u \in Tasks : Stays(u)
    BY <1>1, <2>1, <2>2 DEF Stays, OpenerStays, PublisherStays, JoinerStays
  <2>4. QED
    BY <1>1, <2>3, TokensSame, LiveFields, FollowKept
<1>2. ASSUME NEW state \in {"following", "offline", "releasing", "ended"},
             worker[g].state # "none", worker' = [worker EXCEPT ![g].state = state],
             state = "offline" => worker[g].state = "following",
             state \in {"offline", "following"} \/ ~ IsOpen(g)' \/ ~ Follows(g)
      PROVE  \A h \in Gen : IsOpen(h)' => WorkerStays(h) \/ (h = g /\ Follows(g)' /\ ~ Follows(g))
  <2>1. \A h \in Gen \ {g} : worker'[h] = worker[h]
    BY <1>2 DEF TInv, TypeOK
  <2>2. worker'[g].state = state /\ worker'[g].serial = worker[g].serial
    BY <1>2 DEF TInv, TypeOK, Worker, NoWorker
  <2>3. QED
    BY <1>2, <2>1, <2>2 DEF WorkerStays, Follows
<1>3. CASE WorkerLine(g)
  BY <1>1, <1>3, SameWorkers DEF WorkerLine
<1>4. CASE WorkerCancelled(g)
  <2>1. ~ IsOpen(g)'
    BY <1>4 DEF WorkerCancelled, IsOpen, Cancelled
  <2>2. \A h \in Gen : IsOpen(h)' => WorkerStays(h)
    BY <1>2, <1>4, <2>1 DEF WorkerCancelled
  <2>3. QED
    BY <1>1, <1>4, <2>2 DEF WorkerCancelled
<1>5. CASE WorkerOffline(g)
  <2>1. \A h \in Gen : IsOpen(h)' => WorkerStays(h)
    BY <1>2, <1>5 DEF WorkerOffline, Follows
  <2>2. QED
    BY <1>1, <1>5, <2>1 DEF WorkerOffline
<1>6. CASE Release(g)
  <2> DEFINE s == worker[g].serial
  <2>1. s \in Serials
    BY <1>6, WorkerFields DEF Release, TInv
  <2>2. CASE /\ worker[g].state = "offline"
             /\ Holds(s, g, {"Starting", "Live"})
             /\ remember_and_remove(s)
             /\ cancelled' = cancelled \cup {g}
             /\ worker' = [worker EXCEPT ![g].state = "releasing"]
             /\ UNCHANGED <<root_cancelled, call, pc>>
    <3>1. captures[s].generation = g /\ captures[s].phase # "Empty"
      BY <2>2 DEF Holds
    <3>2. Rewrites(s, "Empty", captures'[s].generation)
      BY <2>1, <2>2 DEF remember_and_remove, Rewrites, Empty, TInv, TypeOK
    <3>3. TokensGrow /\ ~ IsOpen(g)'
      BY <2>2 DEF TokensGrow, IsOpen, Cancelled
    <3>4. \A u \in Tasks : Stays(u)
      BY <2>2 DEF Stays, OpenerStays, PublisherStays, JoinerStays
    <3>5. \A h \in Gen : IsOpen(h)' => WorkerStays(h)
      BY <1>2, <2>2, <3>3
    <3>6. QED
      BY <2>1, <2>2, <3>1, <3>2, <3>3, <3>4, <3>5, FollowLeaves
  <2>3. CASE /\ worker[g].state = "offline"
             /\ ~ Holds(s, g, {"Starting", "Live"})
             /\ worker' = [worker EXCEPT ![g].state = "ended"]
             /\ UNCHANGED <<captures, cancelled, root_cancelled, call, pc>>
    <3>1. ~ IsOpen(g)
      BY <2>3 DEF FollowInv, FollowersHaveSlots, Follows, OpenersHold, Publishes, Holds, OpenerPcs
    <3>2. ~ IsOpen(g)'
      BY <2>3, <3>1 DEF IsOpen, Cancelled
    <3>3. \A h \in Gen : IsOpen(h)' => WorkerStays(h)
      BY <1>2, <2>3, <3>2
    <3>4. QED
      BY <1>1, <2>3, <3>3
  <2>4. QED
    BY <1>6, <2>2, <2>3 DEF Release
<1>7. CASE WorkerSend(g)
  <2>1. ~ Follows(g)
    BY <1>7 DEF WorkerSend, Follows
  <2>2. \A h \in Gen : IsOpen(h)' => WorkerStays(h)
    <3>1. ~ Follows(g)'
      BY <1>7 DEF WorkerSend, Follows, TInv, TypeOK, Worker, NoWorker
    <3>2. QED
      BY <1>2, <1>7, <2>1, <3>1 DEF WorkerSend
  <2>3. QED
    BY <1>1, <1>7, <2>2 DEF WorkerSend
<1>8. QED
  BY <1>3, <1>4, <1>5, <1>6, <1>7 DEF WorkerStep

LEMMA FollowStep ==
  ASSUME TInv, SlotOrder, FollowInv, [Next]_vars
  PROVE  FollowInv'
<1>1. ASSUME NEW t \in Tasks, NEW s \in Serials, CallStart(t, s) \/ CallStop(t, s)
      PROVE  FollowInv'
  <2>1. PICK to \in {"DecideStart", "DecideStop"} : Goto(t, "Idle", to)
    BY <1>1 DEF CallStart, CallStop
  <2>2. \E c : call' = [call EXCEPT ![t] = c]
    BY <1>1 DEF CallStart, CallStop
  <2>3. UNCHANGED <<captures, cancelled, root_cancelled, worker>>
    BY <1>1 DEF CallStart, CallStop, slotVars, tokenVars
  <2>4. QED
    BY <2>1, <2>2, <2>3, FollowGoes DEF OpenerPcs, JoinPcs
<1>2. CASE Deliver \/ RootCancel \/ UNCHANGED vars
  <2>1. UNCHANGED <<captures, cancelled, worker, call, pc>> /\ (root_cancelled => root_cancelled')
    BY <1>2 DEF Deliver, RootCancel, vars, slotVars, tokenVars
  <2>2. TokensGrow
    BY <2>1 DEF TokensGrow
  <2>3. \A u \in Tasks : Stays(u)
    BY <2>1 DEF Stays, OpenerStays, PublisherStays, JoinerStays
  <2>4. QED
    BY <2>1, <2>2, <2>3, SameWorkers, LiveFields, FollowKept
<1>3. QED
  BY <1>1, <1>2, FollowStart, FollowStop, FollowWorker DEF Next

LEMMA FollowInvariant == Spec => [](TInv /\ SlotOrder /\ FollowInv)
  BY FollowInit, FollowStep, SlotOrderInvariant, PTL DEF Spec

(* At most one worker of a device reads its log with a token that is not   *)
(* cancelled, whatever starts, stops, exits and lost devices come together *)
(* (capture.rs start, stop, supervise_follow, release_if_current).         *)
THEOREM OneFollowerPerDevice == Spec => []OneFollower
<1>1. TInv /\ SlotOrder /\ FollowInv => OneFollower
  <2> SUFFICES ASSUME TInv, SlotOrder, FollowInv, NEW g \in Gen, NEW h \in Gen,
                      worker[g].state = "following", worker[h].state = "following",
                      worker[g].serial = worker[h].serial, IsOpen(g), IsOpen(h)
               PROVE  g = h
    BY DEF OneFollower, IsOpen
  <2>1. captures[worker[g].serial].generation = g
    BY DEF FollowInv, FollowersHaveSlots, OpenersHold, Follows, Publishes, Holds, OpenerPcs
  <2>2. captures[worker[h].serial].generation = h
    BY DEF FollowInv, FollowersHaveSlots, OpenersHold, Follows, Publishes, Holds, OpenerPcs
  <2>3. QED
    BY <2>1, <2>2
<1>2. QED
  BY <1>1, FollowInvariant, PTL

(* A device that status() calls Live is being read, unless its token is    *)
(* cancelled: the slot goes with the worker (capture.rs start publishes    *)
(* Live after the spawn, release_if_current removes Starting and Live).    *)
THEOREM LiveSlotsAreFed == Spec => []LiveIsFed
<1>1. FollowInv => LiveIsFed
  BY DEF FollowInv, SlotsAreFed, LiveIsFed, Follows, IsOpen
<1>2. QED
  BY <1>1, FollowInvariant, PTL
=============================================================================
