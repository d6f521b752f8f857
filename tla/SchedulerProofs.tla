--------------------------- MODULE SchedulerProofs ---------------------------
(***************************************************************************)
(* Proofs about Scheduler, for any number of tasks and publishers, any     *)
(* store capacity and queue size and any choice of executors that refuse.  *)
(* The inductive invariant says where a published task is and how far the  *)
(* publisher or the tick has got with it.  The last part adds, for the     *)
(* tasks published early, no earlier than when the tasks that wait can be  *)
(* due, so that no tick comes too late for them.                           *)
(***************************************************************************)
EXTENDS Scheduler, TLAPS, FiniteSetTheorems, WellFoundedInduction

(* A set of numbers has a least one; the order on Nat is well founded.     *)
LEMMA LeastNat ==
  ASSUME NEW S, S \subseteq Nat, S # {}
  PROVE  \E n \in S : \A m \in S : n <= m
<1> DEFINE R == OpToRel(<, Nat)
<1>1. IsWellFoundedOn(R, Nat)
  BY NatLessThanWellFounded
<1>2. \A m, n \in Nat : <<m, n>> \in R <=> m < n
  BY DEF OpToRel
<1> HIDE DEF R
<1>3. PICK n \in S : \A m \in S : ~(<<m, n>> \in R)
  BY <1>1, WFMin
<1>4. ASSUME NEW m \in S PROVE n <= m
  <2>1. m \in Nat /\ n \in Nat
    OBVIOUS
  <2>2. ~(m < n)
    BY <1>2, <1>3, <2>1
  <2> QED
    BY <2>1, <2>2
<1> QED
  BY <1>4

(* What the heap pops first is one of its tasks, and none is due earlier:  *)
(* those with the earliest due time have a least id.                       *)
LEMMA EarliestFirst ==
  ASSUME NEW S, S \subseteq Task, S # {}, due \in [Task -> DueTime]
  PROVE  Earliest(S) \in S /\ \A t \in S : due[Earliest(S)] <= due[t]
<1>0. Past \in Nat /\ \A t \in S : due[t] \in Int /\ due[t] + Past \in Nat
  BY TimeAssumption DEF DueTime
<1>1. {due[t] + Past : t \in S} \subseteq Nat /\ {due[t] + Past : t \in S} # {}
  BY <1>0
<1>2. PICK u \in S : \A t \in S : due[u] <= due[t]
  <2>1. PICK d \in {due[t] + Past : t \in S} : \A m \in {due[t] + Past : t \in S} : d <= m
    BY <1>1, LeastNat
  <2>2. PICK u \in S : d = due[u] + Past
    BY <2>1
  <2>3. \A t \in S : due[u] + Past <= due[t] + Past
    BY <2>1, <2>2
  <2> QED
    BY <1>0, <2>3
<1> DEFINE T == {t \in S : due[t] = due[u]}
<1>3. T \subseteq Nat /\ T # {}
  BY TaskAssumption
<1>4. PICK v \in T : \A t \in T : v <= t
  BY <1>3, LeastNat
<1>5. ASSUME NEW t \in S \ {v} PROVE Precedes(v, t)
  <2>1. v \in Nat /\ t \in Nat /\ due[v] \in Int /\ due[t] \in Int
    BY <1>0, TaskAssumption
  <2>2. due[v] = due[u] /\ due[u] <= due[t]
    BY <1>2
  <2>3. due[t] = due[v] => v <= t
    BY <1>4, <2>2
  <2> QED
    BY <2>1, <2>2, <2>3 DEF Precedes
<1>6. v \in S /\ \A t \in S \ {v} : Precedes(v, t)
  BY <1>5
<1> DEFINE e == Earliest(S)
<1>7. e \in S /\ \A t \in S \ {e} : Precedes(e, t)
  BY <1>6, Zenon DEF Earliest
<1> HIDE DEF e
<1>8. \A t \in S : due[e] <= due[t]
  BY <1>0, <1>7 DEF Precedes
<1> QED
  BY <1>7, <1>8 DEF e

LEMMA EarliestIn ==
  ASSUME NEW S, S \subseteq Task, S # {}, due \in [Task -> DueTime]
  PROVE  Earliest(S) \in S
BY EarliestFirst

(* What an append adds to the elements of a sequence.                      *)
LEMMA RangeAppend ==
  ASSUME NEW S, NEW s \in Seq(S), NEW e \in S
  PROVE  Range(Append(s, e)) = Range(s) \cup {e}
<1>1. \A x : x \in Range(s) <=> \E k \in 1 .. Len(s) : x = s[k]
  BY DEF Range
<1> DEFINE a == Append(s, e)
<1>2. a \in Seq(S) /\ Len(a) = Len(s) + 1 /\ a[Len(s) + 1] = e
  OBVIOUS
<1>3. \A k \in 1 .. Len(s) : a[k] = s[k]
  OBVIOUS
<1> HIDE DEF a
<1>4. \A x : x \in Range(a) <=> \E k \in 1 .. Len(s) + 1 : x = a[k]
  BY <1>2 DEF Range
<1>5. Len(s) \in Nat
  OBVIOUS
<1>6. \A x : x \in Range(a) <=> x \in Range(s) \cup {e}
  BY <1>1, <1>2, <1>3, <1>4, <1>5
<1> QED
  BY <1>6 DEF a

(* A window begins at a time of the model.                                 *)
LEMMA WindowBegin ==
  ASSUME NEW t \in Nat PROVE NextWindow(t) \in Nat
  BY TimeAssumption DEF NextWindow

-----------------------------------------------------------------------------
(* The inductive invariant, in four parts.                                 *)

(* The tasks that are in the waiting queue, in the tick, handed off or     *)
(* lost.                                                                   *)
Placed == queue \cup batch \cup Handed \cup lost

(* The tick is between a hand-off and the state that tells of it.          *)
InHand == tpc \in {"mark", "commit", "setState"}

(* A publisher is inside Publish.                                          *)
Busy(p) == ppc[p] # "idle"

(* The sets whose cardinality is limited are finite.                       *)
Types == TypeOK /\ IsFiniteSet(retained) /\ IsFiniteSet(queue)

(* Each publisher works on a task of its own, which the tick does not see  *)
(* before the publisher is through with the registry.                      *)
Publishing ==
    /\ \A p \in Publishers : Busy(p) =>
          /\ answer[ptask[p]] = "calling" /\ seqOf[ptask[p]] # 0
          /\ ppc[p] # "advance" => ptask[p] \notin Placed
          /\ ppc[p] \in {"enqueue", "advance"} => state[ptask[p]] # "none"
          /\ ppc[p] = "advance" => ptask[p] \in Placed \cup env.blocked
    /\ \A p, q \in Publishers : Busy(p) /\ Busy(q) /\ ptask[p] = ptask[q] => p = q

(* A task in one of its places has been appended and registered.           *)
Places ==
    /\ \A t \in Placed : answer[t] # "new" /\ seqOf[t] # 0 /\ state[t] # "none"
    /\ tpc = "idle" => batch = {}
    /\ Accounted /\ HandedOnce

(* The task in hand is between its hand-off and its state.                 *)
Marking ==
    /\ InHand => cur \in Handed
    /\ tpc \in {"commit", "setState"} => seqOf[cur] \in marked
    /\ tpc = "setState" => seqOf[cur] <= committed
    /\ \A t \in Handed : ~(InHand /\ t = cur) =>
          state[t] = "dispatched" /\ seqOf[t] \in marked /\ seqOf[t] <= committed
    /\ \A t \in Task : state[t] = "dispatched" => t \in Handed
    /\ CursorBacked

(* The conjunction is inductive: no part is without the others.            *)
IInv == Types /\ Publishing /\ Places /\ Marking

-----------------------------------------------------------------------------
(* What the assumptions say of the environment chosen at the start.        *)
LEMMA Environment ==
  ASSUME TypeOK
  PROVE  /\ env.capacity \in Nat /\ env.queueSize \in Nat /\ env.blocked \subseteq Task
         /\ env.delays \subseteq DueTime
  BY EnvironmentAssumption DEF TypeOK, EnvironmentType

(* An empty store and queue satisfy the invariant.                         *)
LEMMA InitInvariant == Init => IInv
<1> SUFFICES ASSUME Init PROVE IInv
  OBVIOUS
<1>1. Handed = {} /\ Placed = {}
  BY DEF Init, Handed, Placed, Range
<1>2. env \in EnvironmentType
  BY EnvironmentAssumption DEF Init
<1>3. Types
  <2>1. 0 \in DueTime
    BY TimeAssumption DEF DueTime
  <2> QED
    BY <1>2, <2>1, FS_EmptySet DEF Types, TypeOK, Init, EnvironmentType, Never
<1>4. Publishing
  BY DEF Publishing, Busy, Init
<1>5. Places
  BY <1>1 DEF Places, Accounted, HandedOnce, Init
<1>6. Marking
  BY <1>1 DEF Marking, InHand, CursorBacked, Init
<1> QED
  BY <1>3, <1>4, <1>5, <1>6 DEF IInv

(* The waiting queue holds no more than queueSize tasks.                   *)
QueueFits == /\ queue \subseteq Task /\ IsFiniteSet(queue)
             /\ Cardinality(queue) <= env.queueSize

(* A push that is made only below the limit keeps the queue within it.     *)
LEMMA QueueGrows ==
  ASSUME Types, NEW t \in Task, Cardinality(queue) < env.queueSize,
         queue' \in {queue, queue \cup {t}}, env' = env
  PROVE  QueueFits'
<1>1. /\ IsFiniteSet(queue) /\ Cardinality(queue) \in Nat /\ env.queueSize \in Nat
      /\ queue \subseteq Task
  BY FS_CardinalityType, Environment DEF Types, TypeOK
<1>2. /\ IsFiniteSet(queue \cup {t})
      /\ Cardinality(queue \cup {t}) =
           IF t \in queue THEN Cardinality(queue) ELSE Cardinality(queue) + 1
  BY <1>1, FS_AddElement
<1>3. Cardinality(queue \cup {t}) <= env.queueSize
  BY <1>1, <1>2
<1>4. CASE queue' = queue
  BY <1>1, <1>4 DEF QueueFits, Types, TypeOK
<1>5. CASE queue' = queue \cup {t}
  BY <1>1, <1>2, <1>3, <1>5 DEF QueueFits
<1> QED
  BY <1>4, <1>5

(* Every step keeps the types and the limits.                              *)
LEMMA TypesStep == IInv /\ [Next]_vars => Types'
<1> SUFFICES ASSUME IInv, [Next]_vars PROVE Types'
  OBVIOUS
<1> USE DEF Types, TypeOK, storeVars, pubVars, tickVars, Never
<1>0. Types
  BY DEF IInv
<1>1. ASSUME UNCHANGED vars PROVE Types'
  BY <1>0, <1>1 DEF vars
<1>2. CASE Clock
  BY <1>0, <1>2 DEF Clock
<1>3. ASSUME NEW p \in Publishers, NEW t \in Task, NEW d \in env.delays,
             AppendTask(p, t, d)
      PROVE  Types'
  <2>1. d \in DueTime /\ env.capacity \in Nat
    BY <1>0, Environment
  <2>2. due' \in [Task -> DueTime] /\ seq' \in Nat /\ seq' = seq + 1
    BY <1>0, <1>3, <2>1, TimeAssumption DEF AppendTask, DueTime
  <2>3. /\ answer' \in [Task -> {"new", "calling", "ok", "error"}]
        /\ ppc' \in [Publishers -> {"idle", "clear", "register", "enqueue", "advance"}]
        /\ ptask' \in [Publishers -> Task \cup {0}]
        /\ \A q \in Publishers : ppc'[q] # "idle" => ptask'[q] \in Task
    <3>1. CASE RingFull
      BY <1>0, <1>3, <3>1 DEF AppendTask
    <3>2. CASE ~RingFull
      <4>1. /\ answer' = [answer EXCEPT ![t] = "calling"]
            /\ ppc' = [ppc EXCEPT ![p] = "clear"]
            /\ ptask' = [ptask EXCEPT ![p] = t]
        BY <1>3, <3>2 DEF AppendTask
      <4> QED
        BY <1>0, <4>1
    <3> QED
      BY <3>1, <3>2
  <2>4. seqOf' \in [Task -> 0 .. seq']
    <3>1. \A n \in 0 .. seq : n \in 0 .. seq'
      BY <1>0, <2>2
    <3>2. CASE seqOf' = seqOf
      BY <1>0, <3>1, <3>2
    <3>3. CASE seqOf' = [seqOf EXCEPT ![t] = seq']
      <4>1. \A u \in Task : seqOf'[u] \in 0 .. seq'
        BY <1>0, <2>2, <3>1, <3>3
      <4>2. seqOf' \in [Task -> 0 .. seq']
        BY <1>0, <3>3, <4>1
      <4> QED
        BY <4>2
    <3> QED
      BY <1>3, <3>2, <3>3 DEF AppendTask
  <2>5. committed' \in 0 .. seq' /\ marked' \subseteq 1 .. seq' /\ progress' \in 0 .. seq'
    BY <1>0, <1>3, <2>2 DEF AppendTask
  <2>6. /\ retained' \subseteq Task /\ IsFiniteSet(retained')
        /\ Cardinality(retained') <= env'.capacity
    <3>1. CASE RingFull
      BY <1>0, <1>3, <3>1 DEF AppendTask
    <3>2. CASE ~RingFull
      <4>1. IsFiniteSet(retained) /\ Cardinality(retained) \in Nat
        BY <1>0, FS_CardinalityType
      <4>2. /\ IsFiniteSet(retained \cup {t})
            /\ Cardinality(retained \cup {t}) =
                 IF t \in retained THEN Cardinality(retained) ELSE Cardinality(retained) + 1
        BY <4>1, FS_AddElement
      <4>3. Cardinality(retained) < env.capacity
        BY <1>0, <2>1, <3>2, <4>1 DEF RingFull
      <4>4. Cardinality(retained \cup {t}) <= env.capacity
        BY <2>1, <4>1, <4>2, <4>3
      <4>5. retained' = retained \cup {t} /\ env' = env
        BY <1>3, <3>2 DEF AppendTask
      <4>6. retained \cup {t} \subseteq Task
        BY <1>0
      <4> QED
        BY <4>2, <4>4, <4>5, <4>6
    <3> QED
      BY <3>1, <3>2
  <2> QED
    BY <1>0, <1>3, <2>2, <2>3, <2>4, <2>5, <2>6 DEF AppendTask
<1>4. ASSUME NEW p \in Publishers, ClearTaskRecord(p) PROVE Types'
  BY <1>0, <1>4 DEF ClearTaskRecord, Without
<1>5. ASSUME NEW p \in Publishers, Register(p) PROVE Types'
  BY <1>0, <1>5 DEF Register
<1>6. ASSUME NEW p \in Publishers, EnqueueTask(p) PROVE Types'
  <2>1. ptask[p] \in Task
    BY <1>0, <1>6 DEF EnqueueTask
  <2>2. CASE Cardinality(queue) < env.queueSize
    <3>1. queue' \in {queue, queue \cup {ptask[p]}} /\ env' = env
      BY <1>6, <2>2 DEF EnqueueTask
    <3>2. QueueFits'
      BY <1>0, <2>1, <2>2, <3>1, QueueGrows
    <3> QED
      BY <1>0, <1>6, <3>2 DEF EnqueueTask, Answer, QueueFits
  <2>3. CASE ~(Cardinality(queue) < env.queueSize)
    <3>1. queue' = queue
      <4>1. Cardinality(queue) >= env.queueSize
        BY <1>0, <2>3, FS_CardinalityType, Environment
      <4> QED
        BY <1>6, <4>1 DEF EnqueueTask
    <3> QED
      BY <1>0, <1>6, <3>1 DEF EnqueueTask, Answer
  <2> QED
    BY <2>2, <2>3
<1>7. ASSUME NEW p \in Publishers, AdvanceProgress(p) PROVE Types'
  BY <1>0, <1>7 DEF AdvanceProgress, Advanced, Answer
<1>8. CASE Drain
  <2>1. IsFiniteSet({}) /\ Cardinality({}) = 0 /\ env.queueSize \in Nat
    BY <1>0, FS_EmptySet, Environment
  <2>2. NextWindow(ticker) \in Nat
    BY <1>0, <1>8, WindowBegin DEF Drain
  <2> QED
    BY <1>0, <1>8, <2>1, <2>2 DEF Drain
<1>9. CASE Executors
  BY <1>0, <1>9 DEF Executors
<1>10. CASE Requeue
  <2>1. Earliest(batch) \in batch /\ Earliest(batch) \in Task
    BY <1>0, <1>10, EarliestIn DEF Requeue
  <2>2. CASE Cardinality(queue) < env.queueSize
    <3>1. queue' = queue \cup {Earliest(batch)} /\ env' = env
      BY <1>10, <2>2 DEF Requeue
    <3>2. QueueFits'
      BY <1>0, <2>1, <2>2, <3>1, QueueGrows
    <3> QED
      BY <1>0, <1>10, <2>2, <3>2 DEF Requeue, Rest, QueueFits
  <2>3. CASE ~(Cardinality(queue) < env.queueSize)
    BY <1>0, <1>10, <2>1, <2>3 DEF Requeue, Rest
  <2> QED
    BY <2>2, <2>3
<1>11. CASE TickReturns \/ OutOfWindow \/ NotHanded
  <2>1. CASE TickReturns
    BY <1>0, <2>1 DEF TickReturns
  <2>2. CASE OutOfWindow
    BY <1>0, <2>2 DEF OutOfWindow, PutBack
  <2>3. CASE NotHanded
    BY <1>0, <2>3, EarliestIn DEF NotHanded, Rest
  <2> QED
    BY <1>11, <2>1, <2>2, <2>3
<1>12. CASE HandOff
  <2>1. Earliest(batch) \in Task
    BY <1>0, <1>12, EarliestIn DEF HandOff
  <2> QED
    BY <1>0, <1>12, <2>1 DEF HandOff, Rest
<1>13. CASE Mark
  <2>1. seqOf[cur] \in 1 .. seq
    BY <1>0, <1>13 DEF Mark, IInv, Marking, InHand, Places, Placed
  <2> QED
    BY <1>0, <1>13, <2>1 DEF Mark, WithMark
<1>14. CASE Commit
  BY <1>0, <1>14 DEF Commit, Advanced
<1>15. CASE SetState
  BY <1>0, <1>15 DEF SetState
<1> QED
  BY <1>1, <1>2, <1>3, <1>4, <1>5, <1>6, <1>7, <1>8, <1>9, <1>10, <1>11,
     <1>12, <1>13, <1>14, <1>15 DEF Next

-----------------------------------------------------------------------------
(* What the clock and the tick leave alone.                                *)

TickStep ==
    \/ Clock \/ Drain \/ Executors \/ Requeue \/ TickReturns \/ OutOfWindow
    \/ NotHanded \/ HandOff \/ Mark \/ Commit \/ SetState \/ UNCHANGED vars

(* Only tasks are handed off.                                              *)
LEMMA RangeOfHanded == ASSUME TypeOK PROVE Handed \subseteq Task
BY DEF TypeOK, Handed, Range

(* A hand-off adds the first task of the batch.                            *)
LEMMA HandedGrows ==
  ASSUME TypeOK, HandOff
  PROVE  /\ Earliest(batch) \in batch /\ Earliest(batch) \in Task
         /\ Handed' = Handed \cup {Earliest(batch)}
<1>1. Earliest(batch) \in batch /\ Earliest(batch) \in Task
  BY EarliestIn DEF HandOff, TypeOK
<1>2. handed' = Append(handed, Earliest(batch)) /\ handed \in Seq(Task)
  BY DEF HandOff, TypeOK
<1> QED
  BY <1>1, <1>2, RangeAppend DEF Handed

(* The steps of the tick move tasks between places, and publish nothing.   *)
LEMMA TickLeaves ==
  ASSUME IInv, TickStep
  PROVE  /\ Placed' = Placed
         /\ UNCHANGED <<env, answer, ppc, ptask, seqOf>>
         /\ \A t \in Task : state[t] # "none" => state'[t] # "none"
<1> USE DEF storeVars, pubVars, tickVars, Placed, Handed
<1>0. TypeOK /\ (tpc = "idle" => batch = {})
  BY DEF IInv, Types, Places
<1>1. UNCHANGED <<env, answer, ppc, ptask, seqOf>>
  BY DEF TickStep, Clock, Drain, Executors, Requeue, TickReturns, OutOfWindow,
         NotHanded, HandOff, Mark, Commit, SetState, vars
<1>2. \A t \in Task : state[t] # "none" => state'[t] # "none"
  <2>1. CASE SetState
    BY <1>0, <2>1 DEF SetState, TypeOK
  <2>2. CASE ~SetState
    BY <2>2 DEF TickStep, Clock, Drain, Executors, Requeue, TickReturns, OutOfWindow,
           NotHanded, HandOff, Mark, Commit, vars
  <2> QED
    BY <2>1, <2>2
<1>3. Placed' = Placed
  <2>1. CASE Drain
    BY <1>0, <2>1 DEF Drain
  <2>2. CASE Requeue
    <3>1. Earliest(batch) \in batch
      BY <1>0, <2>2, EarliestIn DEF Requeue, TypeOK
    <3> QED
      BY <2>2, <3>1 DEF Requeue, Rest
  <2>3. CASE NotHanded
    <3>1. Earliest(batch) \in batch
      BY <1>0, <2>3, EarliestIn DEF NotHanded, TypeOK
    <3> QED
      BY <2>3, <3>1 DEF NotHanded, Rest
  <2>4. CASE HandOff
    <3>1. Earliest(batch) \in batch /\ Handed' = Handed \cup {Earliest(batch)}
      BY <1>0, <2>4, HandedGrows
    <3>2. queue' = queue /\ batch' = batch \ {Earliest(batch)} /\ lost' = lost
      BY <2>4 DEF HandOff, Rest
    <3> QED
      BY <3>1, <3>2
  <2>5. ASSUME UNCHANGED <<queue, batch, handed, lost>> PROVE Placed' = Placed
    BY <2>5
  <2> QED
    BY <2>1, <2>2, <2>3, <2>4, <2>5
       DEF TickStep, Clock, Executors, TickReturns, OutOfWindow, PutBack, Mark, Commit,
           SetState, vars
<1> QED
  BY <1>1, <1>2, <1>3

(* A step is one of the tick, the clock and the executors, or of a         *)
(* publisher.                                                              *)
LEMMA NextCases ==
  ASSUME [Next]_vars
  PROVE  \/ TickStep
         \/ \E p \in Publishers, t \in Task, d \in env.delays : AppendTask(p, t, d)
         \/ \E p \in Publishers :
               ClearTaskRecord(p) \/ Register(p) \/ EnqueueTask(p) \/ AdvanceProgress(p)
BY DEF Next, TickStep

-----------------------------------------------------------------------------
(* Every step keeps publishers and the tick apart.                         *)
LEMMA PublishingStep == IInv /\ [Next]_vars => Publishing'
<1> SUFFICES ASSUME IInv, [Next]_vars PROVE Publishing'
  OBVIOUS
<1> USE DEF Publishing, Busy
<1>0. TypeOK /\ Publishing /\ Places
  BY DEF IInv, Types
<1>1. CASE TickStep
  <2>1. \A p \in Publishers : Busy(p) => ptask[p] \in Task
    BY <1>0 DEF TypeOK
  <2> QED
    BY <1>0, <1>1, <2>1, TickLeaves
<1>2. ASSUME NEW p \in Publishers, NEW t \in Task, NEW d \in env.delays,
             AppendTask(p, t, d)
      PROVE  Publishing'
  <2>1. ppc[p] = "idle" /\ answer[t] = "new" /\ t \notin Placed
    BY <1>0, <1>2 DEF AppendTask, Places
  <2>2. \A q \in Publishers : Busy(q) => ptask[q] # t
    BY <1>0, <2>1
  <2>3. Placed' = Placed /\ env' = env /\ state' = state
    BY <1>2 DEF AppendTask, Placed, Handed, tickVars
  <2>4. CASE RingFull
    <3>1. /\ UNCHANGED <<ppc, ptask, seqOf>>
          /\ answer' = [answer EXCEPT ![t] = "error"]
      BY <1>2, <2>4 DEF AppendTask
    <3> QED
      BY <1>0, <2>2, <2>3, <3>1 DEF TypeOK
  <2>5. CASE ~RingFull
    <3>1. /\ answer' = [answer EXCEPT ![t] = "calling"]
          /\ ppc' = [ppc EXCEPT ![p] = "clear"]
          /\ ptask' = [ptask EXCEPT ![p] = t]
          /\ seqOf' = [seqOf EXCEPT ![t] = seq + 1]
      BY <1>2, <2>5 DEF AppendTask
    <3>2. seq + 1 # 0
      BY <1>0 DEF TypeOK
    <3>3. /\ answer'[t] = "calling" /\ seqOf'[t] # 0
          /\ ppc'[p] = "clear" /\ ptask'[p] = t
      BY <1>0, <3>1, <3>2 DEF TypeOK
    <3>4. ASSUME NEW q \in Publishers, q # p
          PROVE  /\ ppc'[q] = ppc[q] /\ ptask'[q] = ptask[q]
                 /\ Busy(q) => /\ answer'[ptask[q]] = answer[ptask[q]]
                               /\ seqOf'[ptask[q]] = seqOf[ptask[q]]
      BY <1>0, <2>2, <3>1, <3>4 DEF TypeOK
    <3> QED
      BY <1>0, <2>1, <2>2, <2>3, <3>3, <3>4
  <2> QED
    BY <2>4, <2>5
<1>3. ASSUME NEW p \in Publishers, ClearTaskRecord(p) PROVE Publishing'
  <2>1. Placed' = Placed /\ UNCHANGED <<env, state, answer, ptask, seqOf>>
    BY <1>3 DEF ClearTaskRecord, Placed, Handed, tickVars
  <2>2. ppc[p] = "clear" /\ ppc' = [ppc EXCEPT ![p] = "register"]
    BY <1>3 DEF ClearTaskRecord
  <2> QED
    BY <1>0, <2>1, <2>2 DEF TypeOK
<1>4. ASSUME NEW p \in Publishers, Register(p) PROVE Publishing'
  <2>1. Placed' = Placed /\ UNCHANGED <<env, answer, ptask, seqOf>>
    BY <1>4 DEF Register, Placed, Handed, tickVars, storeVars
  <2>2. /\ ppc[p] = "register" /\ ppc' = [ppc EXCEPT ![p] = "enqueue"]
        /\ state' = [state EXCEPT ![ptask[p]] = "pending"]
    BY <1>4 DEF Register
  <2> QED
    BY <1>0, <2>1, <2>2 DEF TypeOK
<1>5. ASSUME NEW p \in Publishers, EnqueueTask(p) PROVE Publishing'
  <2>1. UNCHANGED <<env, state, ptask, seqOf, batch, handed, lost>> /\ ppc[p] = "enqueue"
    BY <1>5 DEF EnqueueTask, tickVars, storeVars
  <2>2. CASE ppc'[p] = "idle"
    <3>1. /\ queue' = queue /\ answer' = [answer EXCEPT ![ptask[p]] = "error"]
          /\ ppc' = [ppc EXCEPT ![p] = "idle"]
      BY <1>0, <1>5, <2>2 DEF EnqueueTask, Answer, TypeOK
    <3>2. Placed' = Placed
      BY <2>1, <3>1 DEF Placed, Handed
    <3>3. \A q \in Publishers : q # p /\ Busy(q) => ptask[q] # ptask[p]
      BY <1>0, <2>1
    <3> QED
      BY <1>0, <2>1, <3>1, <3>2, <3>3 DEF TypeOK
  <2>3. CASE ppc'[p] # "idle"
    <3>1. /\ answer' = answer /\ ppc' = [ppc EXCEPT ![p] = "advance"]
          /\ queue' = IF ptask[p] \in env.blocked THEN queue ELSE queue \cup {ptask[p]}
      BY <1>0, <1>5, <2>3 DEF EnqueueTask, Answer, TypeOK
    <3>2. /\ Placed' \subseteq Placed \cup {ptask[p]} /\ Placed \subseteq Placed'
          /\ ptask[p] \in Placed' \cup env.blocked
      BY <2>1, <3>1 DEF Placed, Handed
    <3>3. \A q \in Publishers : q # p /\ Busy(q) => ptask[q] # ptask[p]
      BY <1>0, <2>1
    <3> QED
      BY <1>0, <2>1, <3>1, <3>2, <3>3 DEF TypeOK
  <2> QED
    BY <2>2, <2>3
<1>6. ASSUME NEW p \in Publishers, AdvanceProgress(p) PROVE Publishing'
  <2>1. Placed' = Placed /\ UNCHANGED <<env, state, ptask, seqOf>>
    BY <1>6 DEF AdvanceProgress, Placed, Handed, tickVars, storeVars
  <2>2. /\ ppc[p] = "advance" /\ ppc' = [ppc EXCEPT ![p] = "idle"]
        /\ answer' = [answer EXCEPT ![ptask[p]] = "ok"]
    BY <1>6 DEF AdvanceProgress, Answer
  <2>3. \A q \in Publishers : q # p /\ Busy(q) => ptask[q] # ptask[p]
    BY <1>0, <2>2
  <2> QED
    BY <1>0, <2>1, <2>2, <2>3 DEF TypeOK
<1> QED
  BY <1>1, <1>2, <1>3, <1>4, <1>5, <1>6, NextCases

-----------------------------------------------------------------------------
(* No task is in two places.                                               *)
Disjoint == /\ queue \cap batch = {}
            /\ (queue \cup batch) \cap (Handed \cup lost) = {}
            /\ Handed \cap lost = {}

(* A hand-off takes a task that was never handed off before.               *)
LEMMA OnceStep ==
  ASSUME TypeOK, Disjoint, HandedOnce, HandOff
  PROVE  HandedOnce'
<1>1. Earliest(batch) \in batch /\ Earliest(batch) \in Task
  BY HandedGrows
<1>2. \A k \in 1 .. Len(handed) : handed[k] # Earliest(batch)
  BY <1>1 DEF Disjoint, Handed, Range, TypeOK
<1>3. handed' = Append(handed, Earliest(batch)) /\ handed \in Seq(Task)
  BY DEF HandOff, TypeOK
<1>4. /\ Len(handed') = Len(handed) + 1 /\ Len(handed) \in Nat
      /\ handed'[Len(handed) + 1] = Earliest(batch)
      /\ \A k \in 1 .. Len(handed) : handed'[k] = handed[k]
  BY <1>1, <1>3
<1> QED
  BY <1>2, <1>4 DEF HandedOnce

(* The tick takes a task out of one place when it puts it in another.      *)
LEMMA TickPlaces ==
  ASSUME IInv, TickStep
  PROVE  (tpc' = "idle" => batch' = {}) /\ Disjoint' /\ HandedOnce'
<1> USE DEF storeVars, pubVars, tickVars
<1>0. TypeOK /\ (tpc = "idle" => batch = {}) /\ Disjoint /\ HandedOnce
  BY DEF IInv, Types, Places, Accounted, Disjoint
<1>1. ASSUME UNCHANGED <<queue, batch, handed, lost>>,
             tpc' = "idle" => tpc = "idle" \/ batch = {}
      PROVE  (tpc' = "idle" => batch' = {}) /\ Disjoint' /\ HandedOnce'
  BY <1>0, <1>1 DEF Disjoint, Handed, HandedOnce
<1>2. CASE Drain
  BY <1>0, <1>2 DEF Drain, Disjoint, Handed, HandedOnce
<1>3. CASE Requeue
  <2>1. Earliest(batch) \in batch
    BY <1>0, <1>3, EarliestIn DEF Requeue, TypeOK
  <2> QED
    BY <1>0, <1>3, <2>1 DEF Requeue, Rest, Disjoint, Handed, HandedOnce
<1>4. CASE NotHanded
  <2>1. Earliest(batch) \in batch
    BY <1>0, <1>4, EarliestIn DEF NotHanded, TypeOK
  <2> QED
    BY <1>0, <1>4, <2>1 DEF NotHanded, Rest, Disjoint, Handed, HandedOnce
<1>5. CASE HandOff
  <2>1. Earliest(batch) \in batch /\ Handed' = Handed \cup {Earliest(batch)}
    BY <1>0, <1>5, HandedGrows
  <2>2. /\ queue' = queue /\ batch' = batch \ {Earliest(batch)} /\ lost' = lost
        /\ tpc' = "mark"
    BY <1>5 DEF HandOff, Rest
  <2>3. Disjoint'
    BY <1>0, <2>1, <2>2 DEF Disjoint
  <2> QED
    BY <1>0, <1>5, <2>2, <2>3, OnceStep
<1>6. CASE \/ Clock \/ Executors \/ TickReturns \/ OutOfWindow \/ Mark \/ Commit
           \/ SetState \/ UNCHANGED vars
  BY <1>0, <1>1, <1>6 DEF Clock, Executors, TickReturns, OutOfWindow, PutBack, Mark,
     Commit, SetState, vars
<1> QED
  BY <1>2, <1>3, <1>4, <1>5, <1>6 DEF TickStep

(* Every step keeps each published task in one place.                      *)
LEMMA PlacesStep == IInv /\ [Next]_vars => Places'
<1> SUFFICES ASSUME IInv, [Next]_vars PROVE Places'
  OBVIOUS
<1>0. TypeOK /\ Publishing /\ Places
  BY DEF IInv, Types
<1>a. Placed \subseteq Task
  BY <1>0, RangeOfHanded DEF Placed, TypeOK
<1>1. CASE TickStep
  <2>1. \A t \in Placed' : answer'[t] # "new" /\ seqOf'[t] # 0 /\ state'[t] # "none"
    BY <1>0, <1>a, <1>1, TickLeaves DEF Places
  <2>2. \A t \in Task \ env'.blocked : answer'[t] = "ok" => t \in Placed'
    BY <1>0, <1>1, TickLeaves DEF Places, Accounted, Placed
  <2> QED
    BY <1>1, <2>1, <2>2, TickPlaces DEF Places, Accounted, Placed, Disjoint
<1>2. ASSUME NEW p \in Publishers, NEW t \in Task, NEW d \in env.delays,
             AppendTask(p, t, d)
      PROVE  Places'
  <2>1. answer[t] = "new" /\ t \notin Placed
    BY <1>0, <1>2 DEF AppendTask, Places
  <2>2. UNCHANGED <<env, state, queue, tpc, batch, handed, lost>>
    BY <1>2 DEF AppendTask, tickVars
  <2>3. /\ answer'[t] \in {"error", "calling"}
        /\ \A u \in Task \ {t} : answer'[u] = answer[u] /\ seqOf'[u] = seqOf[u]
    BY <1>0, <1>2 DEF AppendTask, TypeOK
  <2> QED
    BY <1>0, <1>a, <2>1, <2>2, <2>3 DEF Places, Accounted, HandedOnce, Handed, Placed
<1>3. ASSUME NEW p \in Publishers, ClearTaskRecord(p) PROVE Places'
  BY <1>0, <1>3 DEF ClearTaskRecord, Places, Accounted, HandedOnce, Handed, Placed, tickVars
<1>4. ASSUME NEW p \in Publishers, Register(p) PROVE Places'
  <2>1. UNCHANGED <<env, seqOf, answer, queue, tpc, batch, handed, lost>>
    BY <1>4 DEF Register, tickVars, storeVars
  <2>2. \A u \in Task : state[u] # "none" => state'[u] # "none"
    BY <1>0, <1>4 DEF Register, TypeOK
  <2> QED
    BY <1>0, <1>a, <2>1, <2>2 DEF Places, Accounted, HandedOnce, Handed, Placed
<1>5. ASSUME NEW p \in Publishers, EnqueueTask(p) PROVE Places'
  <2>1. /\ UNCHANGED <<env, seqOf, state, tpc, batch, handed, lost>>
        /\ ppc[p] = "enqueue" /\ ptask[p] \in Task
    BY <1>0, <1>5 DEF EnqueueTask, tickVars, storeVars, TypeOK
  <2>2. /\ answer[ptask[p]] = "calling" /\ seqOf[ptask[p]] # 0
        /\ state[ptask[p]] # "none" /\ ptask[p] \notin Placed
    BY <1>0, <2>1 DEF Publishing, Busy
  <2>3. /\ queue' \in {queue, queue \cup {ptask[p]}}
        /\ answer' = answer \/ answer' = [answer EXCEPT ![ptask[p]] = "error"]
    BY <1>5 DEF EnqueueTask, Answer
  <2>4. \A u \in Task : /\ answer[u] # "new" => answer'[u] # "new"
                        /\ answer'[u] = "ok" => answer[u] = "ok"
    BY <1>0, <2>1, <2>3 DEF TypeOK
  <2> QED
    BY <1>0, <1>a, <2>1, <2>2, <2>3, <2>4 DEF Places, Accounted, HandedOnce, Handed, Placed
<1>6. ASSUME NEW p \in Publishers, AdvanceProgress(p) PROVE Places'
  <2>1. /\ UNCHANGED <<env, seqOf, state, queue, tpc, batch, handed, lost>>
        /\ ppc[p] = "advance" /\ ptask[p] \in Task
    BY <1>0, <1>6 DEF AdvanceProgress, tickVars, storeVars, TypeOK
  <2>2. ptask[p] \in Placed \cup env.blocked
    BY <1>0, <2>1 DEF Publishing, Busy
  <2>3. answer' = [answer EXCEPT ![ptask[p]] = "ok"]
    BY <1>6 DEF AdvanceProgress, Answer
  <2>4. \A u \in Task : /\ answer[u] # "new" => answer'[u] # "new"
                        /\ u # ptask[p] => answer'[u] = answer[u]
    BY <1>0, <2>1, <2>3 DEF TypeOK
  <2> QED
    BY <1>0, <1>a, <2>1, <2>2, <2>4 DEF Places, Accounted, HandedOnce, Handed, Placed
<1> QED
  BY <1>1, <1>2, <1>3, <1>4, <1>5, <1>6, NextCases

-----------------------------------------------------------------------------
(* What the marks, the cursor and the states of tasks depend on.           *)
LEMMA MarkingKept ==
  ASSUME IInv,
         UNCHANGED <<cur, handed, marked, committed>>,
         UNCHANGED tpc \/ ~(InHand \/ InHand'),
         \A t \in Handed : seqOf'[t] = seqOf[t] /\ state'[t] = state[t],
         \A t \in Task \ Handed : state'[t] = "dispatched" => state[t] = "dispatched"
  PROVE  Marking'
<1>1. Handed' = Handed
  BY DEF Handed
<1>2. Marking
  BY DEF IInv
<1>3. CASE ~(InHand \/ InHand')
  BY <1>1, <1>2, <1>3 DEF Marking, InHand, CursorBacked
<1>4. CASE UNCHANGED tpc
  BY <1>1, <1>2, <1>4 DEF Marking, InHand, CursorBacked
<1> QED
  BY <1>3, <1>4

(* Every step keeps marks, cursor and states in agreement with the hand-   *)
(* offs.                                                                   *)
LEMMA MarkingStep == IInv /\ [Next]_vars => Marking'
<1> SUFFICES ASSUME IInv, [Next]_vars PROVE Marking'
  OBVIOUS
<1> USE DEF storeVars, pubVars, tickVars
<1>0. TypeOK /\ Publishing /\ Places /\ Marking /\ Handed \subseteq Task
  BY RangeOfHanded DEF IInv, Types
<1>1. CASE \/ Clock \/ Drain \/ Executors \/ Requeue \/ TickReturns \/ OutOfWindow
           \/ NotHanded \/ UNCHANGED vars
  BY <1>1, MarkingKept DEF Clock, Drain, Executors, Requeue, TickReturns, OutOfWindow,
     NotHanded, InHand, vars
<1>2. ASSUME NEW p \in Publishers, NEW t \in Task, NEW d \in env.delays,
             AppendTask(p, t, d)
      PROVE  Marking'
  <2>1. t \notin Handed
    BY <1>0, <1>2 DEF AppendTask, Places, Placed
  <2>2. \A u \in Handed : seqOf'[u] = seqOf[u]
    BY <1>0, <1>2, <2>1 DEF AppendTask, TypeOK
  <2> QED
    BY <1>2, <2>2, MarkingKept DEF AppendTask
<1>3. ASSUME NEW p \in Publishers, Register(p) PROVE Marking'
  <2>1. ptask[p] \in Task /\ ptask[p] \notin Handed
    BY <1>0, <1>3 DEF Register, Publishing, Busy, Placed, TypeOK
  <2>2. \A u \in Task : u # ptask[p] => state'[u] = state[u]
    BY <1>0, <1>3 DEF Register, TypeOK
  <2>3. state'[ptask[p]] = "pending"
    BY <1>0, <1>3, <2>1 DEF Register, TypeOK
  <2> QED
    BY <1>0, <1>3, <2>1, <2>2, <2>3, MarkingKept DEF Register
<1>4. ASSUME NEW p \in Publishers,
             ClearTaskRecord(p) \/ EnqueueTask(p) \/ AdvanceProgress(p)
      PROVE  Marking'
  BY <1>4, MarkingKept DEF ClearTaskRecord, EnqueueTask, AdvanceProgress
<1>5. CASE HandOff
  <2>1. Handed' = Handed \cup {cur'} /\ cur' \in Task
    BY <1>0, <1>5, HandedGrows DEF HandOff
  <2>2. UNCHANGED <<seqOf, marked, committed, state>> /\ tpc = "next" /\ tpc' = "mark"
    BY <1>5 DEF HandOff
  <2> QED
    BY <1>0, <2>1, <2>2 DEF Marking, InHand, CursorBacked
<1>6. CASE Mark
  <2>1. UNCHANGED <<seqOf, committed, state, cur, handed>> /\ tpc = "mark" /\ tpc' = "commit"
    BY <1>6 DEF Mark
  <2>2. cur \in Handed /\ seqOf[cur] \in 0 .. seq
    BY <1>0, <2>1 DEF Marking, InHand, TypeOK
  <2>3. marked' = marked \cup {seqOf[cur]}
    BY <1>0, <1>6, <2>2 DEF Mark, WithMark, TypeOK
  <2> QED
    BY <1>0, <2>1, <2>2, <2>3 DEF Marking, InHand, CursorBacked, Handed
<1>7. CASE Commit
  <2>1. UNCHANGED <<seqOf, marked, state, cur, handed>> /\ tpc = "commit" /\ tpc' = "setState"
    BY <1>7 DEF Commit
  <2>2. cur \in Handed /\ seqOf[cur] \in marked
    BY <1>0, <2>1 DEF Marking, InHand
  <2>3. /\ committed' \in {committed, seqOf[cur]}
        /\ seqOf[cur] <= committed' /\ committed <= committed'
    BY <1>0, <1>7, <2>2 DEF Commit, Advanced, TypeOK
  <2>4. \A t \in Task : seqOf[t] \in Nat
    BY <1>0 DEF TypeOK
  <2>5. committed \in Nat /\ committed' \in Nat
    BY <1>0, <2>2, <2>3, <2>4 DEF TypeOK
  <2>6. Handed' = Handed
    BY <2>1 DEF Handed
  <2>7. \A t \in Handed : seqOf[t] <= committed => seqOf[t] <= committed'
    BY <1>0, <2>3, <2>4, <2>5
  <2>8. CursorBacked'
    BY <1>0, <2>1, <2>2, <2>3, <2>6 DEF Marking, CursorBacked
  <2> QED
    BY <1>0, <2>1, <2>2, <2>3, <2>6, <2>7, <2>8 DEF Marking, InHand
<1>8. CASE SetState
  <2>1. /\ UNCHANGED <<seqOf, marked, committed, handed>>
        /\ tpc = "setState" /\ tpc' = "next"
    BY <1>8 DEF SetState
  <2>2. /\ cur \in Handed /\ seqOf[cur] \in marked /\ seqOf[cur] <= committed
        /\ state[cur] # "none" /\ cur \in Task
    BY <1>0, <2>1 DEF Marking, InHand, Places, Placed
  <2>3. state' = [state EXCEPT ![cur] = "dispatched"]
    BY <1>8, <2>2 DEF SetState
  <2>4. \A u \in Task : state'[u] = IF u = cur THEN "dispatched" ELSE state[u]
    BY <1>0, <2>2, <2>3 DEF TypeOK
  <2>5. Handed' = Handed
    BY <2>1 DEF Handed
  <2> QED
    BY <1>0, <2>1, <2>2, <2>4, <2>5 DEF Marking, InHand, CursorBacked
<1> QED
  BY <1>1, <1>2, <1>3, <1>4, <1>5, <1>6, <1>7, <1>8 DEF Next

-----------------------------------------------------------------------------
(* The invariant is inductive.                                             *)
LEMMA IInvStep == IInv /\ [Next]_vars => IInv'
BY TypesStep, PublishingStep, PlacesStep, MarkingStep DEF IInv

(* The invariant holds always.                                             *)
LEMMA Invariance == Spec => []IInv
BY InitInvariant, IInvStep, PTL DEF Spec

(* The model's state keeps its types; the store and the waiting queue keep *)
(* their limits, and the cursor never passes the sequences given.          *)
THEOREM TypeCorrect == Spec => []TypeOK
<1>1. IInv => TypeOK
  BY DEF IInv, Types
<1> QED
  BY <1>1, Invariance, PTL

(* No task is handed off twice: requeueing and draining never bring a task *)
(* back that dispatchOne has given to a runner.                            *)
THEOREM NeverHandedTwice == Spec => []HandedOnce
<1>1. IInv => HandedOnce
  BY DEF IInv, Places
<1> QED
  BY <1>1, Invariance, PTL

(* The dispatch cursor is only moved to sequences of tasks handed off.     *)
THEOREM CursorNeverAhead == Spec => []CursorBacked
<1>1. IInv => CursorBacked
  BY DEF IInv, Marking
<1> QED
  BY <1>1, Invariance, PTL

(* The state the console shows, the marks and the cursor agree with what   *)
(* the tick has handed off.                                                *)
THEOREM StatesTruthful == Spec => []StateTruthful
<1>1. IInv => StateTruthful
  BY RangeOfHanded DEF IInv, Types, Marking, StateTruthful
<1> QED
  BY <1>1, Invariance, PTL

(* A task accepted for publishing is always in exactly one place.          *)
THEOREM TasksAccounted == Spec => []Accounted
<1>1. IInv => Accounted
  BY DEF IInv, Places
<1> QED
  BY <1>1, Invariance, PTL

-----------------------------------------------------------------------------
(* Windows.                                                                *)

(* A window is not empty.                                                  *)
LEMMA IntervalPositive == Interval \in Nat \ {0}
  BY TimeAssumption

(* A remainder is below the divisor.                                       *)
LEMMA Remainder ==
  ASSUME NEW t \in Nat
  PROVE  t % Interval \in 0 .. Interval - 1
  BY IntervalPositive

(* What NextWindow answers is the begin of a window.                       *)
LEMMA WindowStarts ==
  ASSUME NEW t \in Nat
  PROVE  NextWindow(t) \in Nat /\ NextWindow(t) % Interval = 0
<1>1. t % Interval \in 0 .. Interval - 1 /\ t % Interval <= t
  BY IntervalPositive
<1>2. (t - (t % Interval)) % Interval = 0
  BY <1>1, IntervalPositive
<1> QED
  BY <1>1, <1>2, IntervalPositive DEF NextWindow

(* A time is as far into its window as it is past its begin.               *)
LEMMA Within ==
  ASSUME NEW w \in Nat, w % Interval = 0, NEW r \in 0 .. Interval - 1
  PROVE  (w + r) % Interval = r
  BY IntervalPositive

(* The next unit of time is in the same window or begins the next one.     *)
LEMMA NextRemainder ==
  ASSUME NEW t \in Nat
  PROVE  (t + 1) % Interval = IF t % Interval = Interval - 1 THEN 0 ELSE (t % Interval) + 1
<1> DEFINE w == NextWindow(t)
           r == t % Interval
           v == NextWindow(t + 1)
           s == (t + 1) % Interval
<1>1. /\ w \in Nat /\ w % Interval = 0 /\ r \in 0 .. Interval - 1
      /\ v \in Nat /\ v % Interval = 0 /\ s \in 0 .. Interval - 1
  BY WindowStarts, Remainder
<1>2. t = w + r /\ t + 1 = v + s
  BY <1>1 DEF NextWindow
<1> HIDE DEF w, r, v, s
<1>3. CASE r # Interval - 1
  <2>1. r + 1 \in 0 .. Interval - 1 /\ w + (r + 1) = t + 1
    BY <1>1, <1>2, <1>3, IntervalPositive
  <2>2. s = r + 1
    BY <1>1, <2>1, Within DEF s
  <2> QED
    BY <1>3, <2>2 DEF r, s
<1>4. CASE r = Interval - 1
  <2>1. ASSUME s # 0 PROVE FALSE
    <3>1. Interval - s \in 0 .. Interval - 1 /\ w + (Interval - s) = v /\ Interval - s # 0
      BY <1>1, <1>2, <1>4, <2>1, IntervalPositive
    <3>2. (w + (Interval - s)) % Interval = Interval - s
      BY <1>1, <3>1, Within
    <3> QED
      BY <1>1, <3>1, <3>2
  <2> QED
    BY <1>4, <2>1 DEF r, s
<1> QED
  BY <1>3, <1>4 DEF r

(* A later time is in the same window or in a later one.                   *)
LEMMA WindowsOrdered ==
  ASSUME NEW a \in Nat, NEW b \in Nat, a <= b
  PROVE  NextWindow(a) <= NextWindow(b)
  BY IntervalPositive DEF NextWindow

-----------------------------------------------------------------------------
(* When every task is published an interval ahead, each is handed off in   *)
(* the window it is due in.                                                *)

(* Nothing fails, and no task is due within an interval of its request.    *)
Early == env.faults = {} /\ \A d \in env.delays : d >= Interval

(* The ticker has fired in the current window, and its value was taken.    *)
Ticked == now % Interval > Phase \/ (now % Interval = Phase /\ ticker = Never)

(* The earliest time a task that waits can be due.                         *)
Horizon == IF Ticked THEN NextWindow(now) + Interval ELSE NextWindow(now)

(* A task that waits is retained by the store.                             *)
Held == /\ queue \cup batch \subseteq retained
        /\ \A p \in Publishers : Busy(p) => ptask[p] \in retained

(* The tick runs at the time it was fired, and what it has drained or put  *)
(* back, and what publishers add meanwhile, is due late enough for the     *)
(* tick that comes next to find it in its window or after it.              *)
Ahead ==
    Early =>
        /\ ticker # Never => ticker = now /\ now % Interval = Phase /\ tpc = "idle"
        /\ tpc # "idle" => begin = NextWindow(now) /\ now % Interval = Phase
        /\ \A p \in Publishers : Busy(p) => due[ptask[p]] >= now + Interval
        /\ \A t \in batch : due[t] >= begin
        /\ tpc = "requeue" => \A t \in batch : due[t] >= begin + Interval
        /\ \A t \in queue : due[t] >= Horizon

(* A queue with room for all that the store retains never refuses a task.  *)
NoLoss == Early /\ env.queueSize >= env.capacity => lost = {}


(* No task is due before the current window began, nor after the current   *)
(* tick within it.                                                         *)
LEMMA HorizonBounds ==
  ASSUME TypeOK
  PROVE  /\ NextWindow(now) \in Nat /\ NextWindow(now) <= now /\ Horizon \in Nat
         /\ NextWindow(now) <= Horizon /\ Horizon <= NextWindow(now) + Interval
         /\ now < NextWindow(now) + Interval
<1>1. now \in Nat /\ now % Interval \in 0 .. Interval - 1 /\ Interval \in Nat
  BY Remainder, IntervalPositive DEF TypeOK
<1>2. NextWindow(now) \in Nat
  BY <1>1, WindowStarts
<1> QED
  BY <1>1, <1>2 DEF NextWindow, Horizon

(* When time goes on, the horizon does not: a window that ends had its     *)
(* tick.                                                                   *)
LEMMA HorizonStays ==
  ASSUME TypeOK, Clock, ticker = Never
  PROVE  Horizon' <= Horizon
<1> DEFINE r == now % Interval
           n == (now + 1) % Interval
<1>1. /\ now \in Nat /\ r \in 0 .. Interval - 1 /\ n \in 0 .. Interval - 1
      /\ n = IF r = Interval - 1 THEN 0 ELSE r + 1
  <2>1. now \in Nat /\ now + 1 \in Nat
    BY DEF TypeOK
  <2>2. n = IF r = Interval - 1 THEN 0 ELSE r + 1
    BY <2>1, NextRemainder
  <2> QED
    BY <2>1, <2>2, Remainder
<1>2. Interval \in Nat \ {0} /\ Phase \in 0 .. Interval - 1
  BY TimeAssumption
<1>3. now' = now + 1 /\ ticker' = IF n = Phase THEN now + 1 ELSE Never
  BY DEF Clock
<1>4. /\ NextWindow(now) = now - r /\ NextWindow(now)' = now + 1 - n
      /\ Ticked <=> r >= Phase
      /\ Ticked' <=> n > Phase
  <2>1. NextWindow(now) = now - r /\ NextWindow(now)' = now' - (now' % Interval)
    BY Zenon DEF NextWindow
  <2>2. Ticked <=> r > Phase \/ r = Phase
    BY DEF Ticked
  <2>3. Ticked' <=> n > Phase \/ (n = Phase /\ ticker' = Never)
    BY <1>3 DEF Ticked
  <2>4. n = Phase => ticker' # Never
    BY <1>1, <1>3 DEF Never
  <2>5. NextWindow(now)' = now + 1 - n
    <3>1. now' = now + 1 /\ n = now' % Interval
      BY <1>3, Zenon
    <3> HIDE DEF r, n
    <3> QED
      BY <1>1, <2>1, <3>1
  <2> HIDE DEF r, n
  <2> QED
    BY <1>1, <1>2, <2>1, <2>2, <2>3, <2>4, <2>5
<1> HIDE DEF r, n
<1>5. CASE r = Interval - 1
  BY <1>1, <1>2, <1>4, <1>5 DEF Horizon
<1>6. CASE r # Interval - 1
  BY <1>1, <1>2, <1>4, <1>6 DEF Horizon
<1> QED
  BY <1>5, <1>6

(* Every step keeps waiting tasks among those the store retains.           *)
LEMMA HeldStep == IInv /\ Held /\ [Next]_vars => Held'
<1> SUFFICES ASSUME IInv, Held, [Next]_vars PROVE Held'
  OBVIOUS
<1> USE DEF storeVars, pubVars, tickVars
<1>0. TypeOK /\ Publishing
  BY DEF IInv, Types
<1>1. CASE TickStep
  <2>1. UNCHANGED <<retained, ppc, ptask>>
    BY <1>1 DEF TickStep, Clock, Drain, Executors, Requeue, TickReturns, OutOfWindow,
           NotHanded, HandOff, Mark, Commit, SetState, vars
  <2>2. batch # {} => Earliest(batch) \in batch
    BY <1>0, EarliestIn DEF TypeOK
  <2>3. queue' \cup batch' \subseteq queue \cup batch
    <3>1. CASE Drain
      BY <3>1 DEF Drain
    <3>2. CASE Requeue \/ NotHanded \/ HandOff \/ OutOfWindow
      BY <2>2, <3>2 DEF Requeue, NotHanded, HandOff, OutOfWindow, Rest, PutBack
    <3>3. CASE ~(Drain \/ Requeue \/ NotHanded \/ HandOff \/ OutOfWindow)
      BY <1>1, <3>3 DEF TickStep, Clock, Executors, TickReturns, Mark, Commit, SetState, vars
    <3> QED
      BY <3>1, <3>2, <3>3
  <2> QED
    BY <2>1, <2>3 DEF Held, Busy
<1>2. ASSUME NEW p \in Publishers, NEW t \in Task, NEW d \in env.delays,
             AppendTask(p, t, d)
      PROVE  Held'
  <2>1. UNCHANGED <<queue, batch>> /\ retained \subseteq retained'
    BY <1>2 DEF AppendTask
  <2>2. ASSUME NEW q \in Publishers, Busy(q)'
        PROVE  (Busy(q) /\ ptask'[q] = ptask[q]) \/ ptask'[q] \in retained'
    BY <1>0, <1>2, <2>2 DEF AppendTask, Busy, TypeOK
  <2> QED
    BY <2>1, <2>2 DEF Held
<1>3. ASSUME NEW p \in Publishers,
             ClearTaskRecord(p) \/ Register(p) \/ EnqueueTask(p) \/ AdvanceProgress(p)
      PROVE  Held'
  <2>1. UNCHANGED <<retained, ptask, batch>> /\ ppc[p] # "idle"
    BY <1>3 DEF ClearTaskRecord, Register, EnqueueTask, AdvanceProgress
  <2>2. queue' \subseteq queue \cup {ptask[p]}
    BY <1>3 DEF ClearTaskRecord, Register, EnqueueTask, AdvanceProgress
  <2>3. \A q \in Publishers : ppc'[q] # "idle" => ppc[q] # "idle"
    BY <1>0, <1>3 DEF ClearTaskRecord, Register, EnqueueTask, AdvanceProgress, Answer, TypeOK
  <2> QED
    BY <2>1, <2>2, <2>3 DEF Held, Busy
<1> QED
  BY <1>1, <1>2, <1>3, NextCases

(* A request changes when its own task is due, and no other.               *)
LEMMA AppendAhead ==
  ASSUME IInv, Ahead, Early, NEW p \in Publishers, NEW t \in Task, NEW d \in env.delays,
         AppendTask(p, t, d)
  PROVE  Ahead'
<1>0. /\ TypeOK /\ Publishing /\ Places
      /\ now \in Nat /\ d \in Int /\ d >= Interval /\ Interval \in Nat
  BY Environment, IntervalPositive DEF IInv, Types, Early, TypeOK, DueTime
<1>1. answer[t] = "new" /\ due' = [due EXCEPT ![t] = now + d] /\ ppc[p] = "idle"
  BY DEF AppendTask
<1>2. t \notin queue \cup batch /\ \A q \in Publishers : Busy(q) => ptask[q] # t
  BY <1>0, <1>1 DEF Publishing, Places, Placed
<1>3. \A u \in Task : due'[u] = IF u = t THEN now + d ELSE due[u]
  BY <1>0, <1>1 DEF TypeOK
<1>4. UNCHANGED <<env, now, ticker, queue, tpc, batch, begin>>
  BY DEF AppendTask, tickVars
<1>5. /\ \A u \in batch \cup queue : due'[u] = due[u]
      /\ Horizon' = Horizon /\ NextWindow(now)' = NextWindow(now)
  BY <1>0, <1>2, <1>3, <1>4 DEF TypeOK, Horizon, Ticked, NextWindow
<1>6. ASSUME NEW q \in Publishers, Busy(q)'
      PROVE  due'[ptask'[q]] >= now + Interval
  <2>1. (Busy(q) /\ ptask'[q] = ptask[q]) \/ ptask'[q] = t
    BY <1>0, <1>6 DEF AppendTask, Busy, TypeOK
  <2>2. CASE Busy(q) /\ ptask'[q] = ptask[q]
    BY <1>0, <1>2, <1>3, <2>2 DEF Ahead, TypeOK, Busy
  <2>3. CASE ptask'[q] = t
    BY <1>0, <1>3, <2>3
  <2> QED
    BY <2>1, <2>2, <2>3
<1> QED
  BY <1>4, <1>5, <1>6 DEF Ahead

(* A task enqueued by its request is due after the current window.         *)
LEMMA PublishAhead ==
  ASSUME IInv, Ahead, Early, NEW p \in Publishers,
         ClearTaskRecord(p) \/ Register(p) \/ EnqueueTask(p) \/ AdvanceProgress(p)
  PROVE  Ahead'
<1>0. TypeOK /\ now \in Nat /\ Interval \in Nat
  BY IntervalPositive DEF IInv, Types, TypeOK
<1>1. UNCHANGED <<env, now, ticker, due, ptask, tpc, batch, begin>> /\ Busy(p)
  BY DEF ClearTaskRecord, Register, EnqueueTask, AdvanceProgress, tickVars, Busy
<1>2. Horizon' = Horizon /\ NextWindow(now)' = NextWindow(now)
  BY <1>1 DEF Horizon, Ticked, NextWindow
<1>3. \A q \in Publishers : Busy(q)' => Busy(q)
  BY <1>0 DEF ClearTaskRecord, Register, EnqueueTask, AdvanceProgress, Answer, TypeOK, Busy
<1>4. queue' \subseteq queue \cup {ptask[p]}
  BY DEF ClearTaskRecord, Register, EnqueueTask, AdvanceProgress
<1>5. due[ptask[p]] >= now + Interval /\ due[ptask[p]] \in Int
  BY <1>0, <1>1 DEF Ahead, TypeOK, Busy, DueTime
<1>6. due[ptask[p]] >= Horizon
  BY <1>0, <1>5, HorizonBounds
<1> QED
  BY <1>1, <1>2, <1>3, <1>4, <1>6 DEF Ahead

(* The tick hands off what is due in its window, and puts back what is due *)
(* later.                                                                  *)
LEMMA TickAhead ==
  ASSUME IInv, Ahead, Early, TickStep
  PROVE  Ahead'
<1> USE DEF storeVars, pubVars, tickVars
<1>0. /\ TypeOK /\ Places /\ due \in [Task -> DueTime] /\ batch \subseteq Task
      /\ now \in Nat /\ begin \in Nat /\ Interval \in Nat /\ queue \subseteq Task
      /\ \A t \in Task : due[t] \in Int
  BY IntervalPositive DEF IInv, Types, TypeOK, DueTime
<1>a. UNCHANGED <<env, due, ppc, ptask>>
  BY DEF TickStep, Clock, Drain, Executors, Requeue, TickReturns, OutOfWindow,
         NotHanded, HandOff, Mark, Commit, SetState, vars
<1>b. /\ ticker # Never => ticker = now /\ now % Interval = Phase /\ tpc = "idle"
      /\ tpc # "idle" => begin = NextWindow(now) /\ now % Interval = Phase
      /\ \A p \in Publishers : Busy(p) => due[ptask[p]] >= now + Interval
      /\ \A t \in batch : due[t] >= begin
      /\ tpc = "requeue" => \A t \in batch : due[t] >= begin + Interval
      /\ \A t \in queue : due[t] >= Horizon
  BY DEF Ahead
<1>c. batch # {} => /\ Earliest(batch) \in batch
                    /\ \A t \in batch : due[Earliest(batch)] <= due[t]
  BY <1>0, EarliestFirst
<1>1. CASE Clock
  <2>1. Idle /\ UNCHANGED <<tpc, batch, begin, queue>> /\ batch = {} /\ now' = now + 1
    BY <1>0, <1>1 DEF Clock, Early, Places, Idle
  <2>2. ticker = Never /\ tpc = "idle" /\ \A p \in Publishers : ~Busy(p)
    BY <2>1 DEF Idle, Busy
  <2>3. ticker' # Never => ticker' = now' /\ now' % Interval = Phase
    BY <1>1, <2>2 DEF Clock
  <2>4. Horizon' <= Horizon /\ Horizon \in Nat /\ Horizon' \in Int
    <3>1. NextWindow(now') \in Nat
      BY <1>0, <2>1, WindowStarts
    <3>2. Horizon' \in Int
      BY <1>0, <3>1 DEF Horizon, NextWindow
    <3> QED
      BY <1>0, <1>1, <2>2, <3>2, HorizonStays, HorizonBounds
  <2>5. \A t \in queue : due[t] >= Horizon'
    BY <1>0, <1>b, <2>4
  <2> QED
    BY <1>a, <2>1, <2>2, <2>3, <2>5 DEF Ahead, Busy
<1> DEFINE same == UNCHANGED <<now, ticker>>
<1>2. same => Horizon' = Horizon /\ NextWindow(now)' = NextWindow(now)
  BY DEF Horizon, Ticked, NextWindow
<1>3. CASE Drain
  <2>1. /\ ticker = now /\ now % Interval = Phase /\ ticker' = Never /\ now' = now
        /\ begin' = NextWindow(now) /\ batch' = queue /\ queue' = {} /\ tpc' # "requeue"
    BY <1>b, <1>3 DEF Drain
  <2>2. \A t \in queue : due[t] >= NextWindow(now)
    BY <1>0, <1>b, HorizonBounds
  <2>3. NextWindow(now)' = NextWindow(now)
    BY <2>1 DEF NextWindow
  <2> QED
    BY <1>a, <1>b, <2>1, <2>2, <2>3 DEF Ahead, Busy
<1>4. CASE Requeue
  <2>1. /\ same /\ tpc = "requeue" /\ UNCHANGED <<tpc, begin>> /\ batch # {}
        /\ batch' = batch \ {Earliest(batch)} /\ queue' \subseteq queue \cup {Earliest(batch)}
    BY <1>4 DEF Requeue, Rest
  <2>2. due[Earliest(batch)] >= NextWindow(now) + Interval
    BY <1>b, <1>c, <2>1
  <2>3. due[Earliest(batch)] >= Horizon
    BY <1>0, <1>c, <2>1, <2>2, HorizonBounds
  <2> QED
    BY <1>2, <1>a, <1>b, <2>1, <2>3 DEF Ahead, Busy
<1>5. CASE OutOfWindow
  <2>1. /\ same /\ tpc = "next" /\ UNCHANGED <<batch, begin, queue>> /\ batch # {}
        /\ ~InWindow(Earliest(batch))
    BY <1>5 DEF OutOfWindow, PutBack
  <2>2. due[Earliest(batch)] >= begin /\ due[Earliest(batch)] \in Int
    BY <1>0, <1>b, <1>c, <2>1
  <2>3. due[Earliest(batch)] >= begin + Interval
    BY <1>0, <2>1, <2>2 DEF InWindow
  <2>4. \A t \in batch : due[t] >= begin + Interval
    BY <1>0, <1>c, <2>1, <2>2, <2>3
  <2> QED
    BY <1>2, <1>a, <1>b, <2>1, <2>4 DEF Ahead, Busy
<1>6. CASE HandOff
  <2>1. /\ same /\ tpc = "next" /\ tpc' = "mark" /\ UNCHANGED <<begin, queue>>
        /\ batch' \subseteq batch
    BY <1>6 DEF HandOff, Rest
  <2> QED
    BY <1>2, <1>a, <1>b, <2>1 DEF Ahead, Busy
<1>7. CASE NotHanded
  BY <1>7 DEF NotHanded, Early
<1>8. CASE Executors \/ TickReturns \/ Mark \/ Commit \/ SetState \/ UNCHANGED vars
  <2>1. same /\ UNCHANGED <<begin, queue, batch>>
    BY <1>8 DEF Executors, TickReturns, Mark, Commit, SetState, vars
  <2>2. /\ tpc' # "idle" => tpc # "idle"
        /\ tpc' = "requeue" => tpc = "requeue"
        /\ tpc = "idle" => tpc' = "idle"
    BY <1>8 DEF Executors, TickReturns, Mark, Commit, SetState, vars, Early
  <2> QED
    BY <1>2, <1>a, <1>b, <2>1, <2>2 DEF Ahead, Busy
<1> QED
  BY <1>1, <1>3, <1>4, <1>5, <1>6, <1>7, <1>8 DEF TickStep

(* Every step keeps the queue ahead of the clock.                          *)
LEMMA AheadStep == IInv /\ Ahead /\ [Next]_vars => Ahead'
<1> SUFFICES ASSUME IInv, Ahead, [Next]_vars PROVE Ahead'
  OBVIOUS
<1>1. env' = env
  BY DEF Next, Clock, AppendTask, ClearTaskRecord, Register, EnqueueTask, AdvanceProgress,
         Drain, Executors, Requeue, TickReturns, OutOfWindow, NotHanded, HandOff, Mark,
         Commit, SetState, vars
<1>2. CASE ~Early
  BY <1>1, <1>2 DEF Ahead, Early
<1>3. CASE Early
  BY <1>3, NextCases, AppendAhead, PublishAhead, TickAhead
<1> QED
  BY <1>2, <1>3

(* A task that is put back finds room: it was retained beside those that   *)
(* wait in the queue.                                                      *)
LEMMA NoLossStep == IInv /\ Held /\ NoLoss /\ [Next]_vars => NoLoss'
<1> SUFFICES ASSUME IInv, Held, NoLoss, [Next]_vars PROVE NoLoss'
  OBVIOUS
<1>1. env' = env
  BY DEF Next, Clock, AppendTask, ClearTaskRecord, Register, EnqueueTask, AdvanceProgress,
         Drain, Executors, Requeue, TickReturns, OutOfWindow, NotHanded, HandOff, Mark,
         Commit, SetState, vars
<1>2. CASE ~Requeue /\ ~NotHanded
  <2>1. lost' = lost
    BY <1>2 DEF Next, Clock, AppendTask, ClearTaskRecord, Register, EnqueueTask, AdvanceProgress,
         Drain, Executors, TickReturns, OutOfWindow, HandOff, Mark, Commit, SetState, vars,
         tickVars
  <2> QED
    BY <1>1, <2>1 DEF NoLoss, Early
<1>3. CASE NotHanded
  BY <1>1, <1>3 DEF NotHanded, NoLoss, Early
<1>4. CASE Requeue
  <2> SUFFICES ASSUME env.queueSize >= env.capacity
               PROVE  lost' = lost
    BY <1>1 DEF NoLoss, Early
  <2> DEFINE t == Earliest(batch)
  <2>1. /\ IsFiniteSet(retained) /\ Cardinality(retained) <= env.capacity
        /\ batch \subseteq Task /\ due \in [Task -> DueTime] /\ queue \cap batch = {}
        /\ env.capacity \in Nat /\ env.queueSize \in Nat
    BY Environment DEF IInv, Types, TypeOK, Places, Accounted
  <2>2. t \in batch /\ t \notin queue /\ queue \cup {t} \subseteq retained
    BY <1>4, <2>1, EarliestIn DEF Requeue, Held
  <2>3. queue \subseteq retained /\ queue # retained
    BY <2>2
  <2>4. /\ Cardinality(queue) < Cardinality(retained)
        /\ Cardinality(queue) \in Nat /\ Cardinality(retained) \in Nat
    BY <2>1, <2>3, FS_Subset, FS_CardinalityType
  <2>5. Cardinality(queue) < env.queueSize
    BY <2>1, <2>4
  <2> QED
    BY <1>4, <2>5 DEF Requeue
<1> QED
  BY <1>2, <1>3, <1>4

(* With nothing failing and every task published an interval ahead, each   *)
(* task is handed off in its window, or was refused a place when the tick  *)
(* put it back (dispatch.go, Tick); a queue as large as the store refuses  *)
(* none.                                                                   *)
THEOREM HandedOnTime == Spec => []OnTime
<1>1. Init => Held /\ Ahead /\ NoLoss
  BY DEF Init, Held, Ahead, NoLoss, Busy
<1>2. IInv /\ Held /\ Ahead /\ NoLoss => OnTime
  <2> SUFFICES ASSUME IInv, Ahead, NoLoss, Early
               PROVE  /\ \A t \in Task \ env.blocked :
                            answer[t] = "ok" /\ Idle /\ now >= NextWindow(due[t]) + Interval
                                => t \in Handed \cup lost
                      /\ env.queueSize >= env.capacity => lost = {}
    BY DEF OnTime, Early
  <2>1. ASSUME NEW t \in Task \ env.blocked, answer[t] = "ok", Idle,
               now >= NextWindow(due[t]) + Interval, t \in queue
        PROVE  FALSE
    <3>1. TypeOK /\ due[t] \in Int /\ Interval \in Nat /\ now \in Nat
      BY IntervalPositive DEF IInv, Types, TypeOK, DueTime
    <3>2. due[t] >= NextWindow(now) /\ NextWindow(now) \in Nat
      BY <2>1, <3>1, HorizonBounds DEF Ahead
    <3>3. NextWindow(NextWindow(now)) = NextWindow(now)
      BY <3>1, <3>2, WindowStarts DEF NextWindow
    <3>4. NextWindow(due[t]) >= NextWindow(now) /\ NextWindow(due[t]) \in Nat
      BY <3>1, <3>2, <3>3, WindowsOrdered, WindowStarts
    <3> QED
      BY <2>1, <3>1, <3>2, <3>4, HorizonBounds
  <2>2. Idle => batch = {}
    BY DEF Idle, IInv, Places
  <2> QED
    BY <2>1, <2>2 DEF IInv, Places, Accounted, NoLoss
<1> QED
  BY <1>1, <1>2, InitInvariant, IInvStep, HeldStep, AheadStep, NoLossStep, PTL DEF Spec
=============================================================================
