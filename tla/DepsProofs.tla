----------------------------- MODULE DepsProofs ------------------------------
(***************************************************************************)
(* That the counters of the dependency graph are right and that only ready *)
(* tasks are queued, for any number of tasks and names and any lists of    *)
(* dependencies.                                                           *)
(*                                                                         *)
(* DepsTypeOK and PendingExact are inductive together, and RefsExact       *)
(* beside them; its theorem assumes that there are finitely many task ids, *)
(* since it counts them.  Settled relates the declared, the open and the   *)
(* resolved dependencies of a task to the step its request has reached.    *)
(***************************************************************************)
EXTENDS Deps, FiniteSetTheorems, TLAPS

IInv == DepsTypeOK /\ PendingExact

(* Adding an edge to a node raises the cardinality of its edges by one if  *)
(* it is new.                                                              *)
LEMMA OneMore ==
    ASSUME NEW S, IsFiniteSet(S), NEW x
    PROVE  /\ IsFiniteSet(S \cup {x})
           /\ x \notin S => Cardinality(S \cup {x}) = Cardinality(S) + 1
  BY FS_AddElement

(* Resolving an edge lowers the cardinality by one if it was there, and    *)
(* leaves the edges alone if it was not.                                   *)
LEMMA OneLess ==
    ASSUME NEW S, IsFiniteSet(S), NEW x
    PROVE  /\ IsFiniteSet(S \ {x})
           /\ Cardinality(S) \in Nat
           /\ x \in S => Cardinality(S) > 0 /\ Cardinality(S \ {x}) = Cardinality(S) - 1
           /\ x \notin S => S \ {x} = S
  <1>1. IsFiniteSet(S \ {x}) /\ Cardinality(S) \in Nat
    BY FS_RemoveElement, FS_CardinalityType
  <1>2. ASSUME x \in S
        PROVE  Cardinality(S) > 0 /\ Cardinality(S \ {x}) = Cardinality(S) - 1
    <2>1. Cardinality(S \ {x}) = Cardinality(S) - 1
      BY <1>2, FS_RemoveElement
    <2>2. Cardinality(S \ {x}) \in Nat
      BY <1>1, FS_CardinalityType
    <2> QED
      BY <1>1, <2>1, <2>2
  <1> QED
    BY <1>1, <1>2

(* Two sets with nothing in common.                                        *)
LEMMA Parted ==
    ASSUME NEW S, NEW T, IsFiniteSet(S), IsFiniteSet(T), S \cap T = {}
    PROVE  Cardinality(S \cup T) = Cardinality(S) + Cardinality(T)
  <1>1. Cardinality(S \cup T) = Cardinality(S) + Cardinality(T) - Cardinality(S \cap T)
    BY FS_Union
  <1>2. Cardinality(S) \in Nat /\ Cardinality(T) \in Nat /\ Cardinality(S \cap T) = 0
    BY FS_CardinalityType, FS_EmptySet
  <1> QED
    BY <1>1, <1>2

(* The empty graph satisfies the invariant.                                *)
LEMMA InitHolds == DepsInit => IInv
  <1> SUFFICES ASSUME DepsInit PROVE IInv
    OBVIOUS
  <1>1. DepsTypeOK
    BY DEF DepsInit, DepsTypeOK
  <1>2. PendingExact
    BY FS_EmptySet DEF DepsInit, PendingExact
  <1> QED
    BY <1>1, <1>2 DEF IInv

(* The steps of a request that leave the graph alone.                      *)
LEMMA Frame ==
    ASSUME IInv, UNCHANGED graphVars,
           pc' \in [Task -> {"new", "add", "ready", "enqueue", "ok", "error"}],
           list' \in [Task -> Seq(Name \cup {Blank})],
           queued' \subseteq Task
    PROVE  IInv'
  BY DEF IInv, DepsTypeOK, PendingExact, graphVars

(* Declaring a dependency keeps the types, for a new and for an old node.  *)
LEMMA AddTyped ==
    ASSUME IInv, NEW t \in Task, Add(t)
    PROVE  DepsTypeOK'
  <1>1. DepsTypeOK /\ list[t] \in Seq(Name \cup {Blank}) /\ list[t] # <<>>
    BY DEF IInv, DepsTypeOK, Add, Skips
  <1>2. Head(list[t]) \in Name \cup {Blank} /\ Tail(list[t]) \in Seq(Name \cup {Blank})
    BY <1>1
  <1> DEFINE d == Head(list[t])
  <1>3. /\ nodes' = nodes \cup {t} /\ list' = [list EXCEPT ![t] = Tail(@)]
        /\ pc' = pc /\ queued' = queued /\ leaked' = leaked
    BY DEF Add, Skips
  <1>4. nodes' \subseteq Task /\ list' \in [Task -> Seq(Name \cup {Blank})]
    BY <1>1, <1>2, <1>3 DEF DepsTypeOK
  <1>5. CASE d = Blank \/ d \in waits[t]
    <2>1. UNCHANGED <<waits, pending, refs, declared, resolved>>
      BY <1>5 DEF Add, Skips
    <2> QED
      BY <1>1, <1>3, <1>4, <2>1 DEF DepsTypeOK
  <1>6. CASE ~(d = Blank \/ d \in waits[t])
    <2>1. d \in Name
      BY <1>2, <1>6
    <2>2. /\ waits' = [waits EXCEPT ![t] = @ \cup {d}]
          /\ pending' = [pending EXCEPT ![t] = @ + 1]
          /\ refs' = [refs EXCEPT ![d] = @ + 1]
          /\ declared' = [declared EXCEPT ![t] = @ \cup {d}]
          /\ resolved' = [resolved EXCEPT ![t] = @ \ {d}]
      BY <1>6 DEF Add, Skips
    <2> HIDE DEF d
    <2>3. /\ waits' \in [Task -> SUBSET Name]
          /\ declared' \in [Task -> SUBSET Name]
          /\ resolved' \in [Task -> SUBSET Name]
      BY <1>1, <2>1, <2>2 DEF DepsTypeOK
    <2>4. pending' \in [Task -> Nat] /\ refs' \in [Name -> Nat]
      BY <1>1, <2>1, <2>2 DEF DepsTypeOK
    <2> QED
      BY <1>1, <1>3, <1>4, <2>3, <2>4 DEF DepsTypeOK
  <1> QED
    BY <1>5, <1>6

(* Declaring a dependency counts an edge exactly when it is a new one.     *)
LEMMA AddCounts ==
    ASSUME IInv, NEW t \in Task, Add(t)
    PROVE  PendingExact'
  <1>1. DepsTypeOK /\ PendingExact
    BY DEF IInv
  <1>2. CASE Head(list[t]) = Blank \/ Head(list[t]) \in waits[t]
    BY <1>1, <1>2 DEF Add, Skips, PendingExact
  <1>3. CASE ~(Head(list[t]) = Blank \/ Head(list[t]) \in waits[t])
    <2>1. /\ waits' = [waits EXCEPT ![t] = @ \cup {Head(list[t])}]
          /\ pending' = [pending EXCEPT ![t] = @ + 1]
          /\ nodes' = nodes \cup {t}
      BY <1>3 DEF Add, Skips
    <2>2. /\ IsFiniteSet(waits[t] \cup {Head(list[t])})
          /\ Cardinality(waits[t] \cup {Head(list[t])}) = Cardinality(waits[t]) + 1
      BY <1>1, <1>3, OneMore DEF PendingExact
    <2> QED
      BY <1>1, <2>1, <2>2 DEF PendingExact, DepsTypeOK
  <1> QED
    BY <1>2, <1>3

(* Satisfying or deleting a name keeps the types; at most one node goes.   *)
LEMMA ResolveTyped ==
    ASSUME IInv, NEW d \in Name, NEW gone, gone \subseteq {d}, Resolve(d, gone)
    PROVE  DepsTypeOK'
  <1> DEFINE Lost(x) == {t \in gone \cap Task : x \in waits[t]}
  <1>1. \A x : Cardinality(Lost(x)) \in Nat
    <2> SUFFICES ASSUME NEW x PROVE Cardinality(Lost(x)) \in Nat
      OBVIOUS
    <2>1. IsFiniteSet({d}) /\ Lost(x) \subseteq {d}
      BY FS_Singleton
    <2> QED
      BY <2>1, FS_Subset, FS_CardinalityType
  <1>2. leaked' = [x \in Name |-> IF x = d THEN 0 ELSE leaked[x] + Cardinality(Lost(x))]
    BY DEF Resolve
  <1> HIDE DEF Lost
  <1>3. leaked' \in [Name -> Nat]
    BY <1>1, <1>2 DEF IInv, DepsTypeOK
  <1> QED
    BY <1>3 DEF IInv, DepsTypeOK, Resolve, CountsDown, WithoutRefs

(* Satisfying or deleting a name lowers the counter of exactly the nodes   *)
(* that wait for it.                                                       *)
LEMMA ResolveCounts ==
    ASSUME IInv, NEW d \in Name, NEW gone, Resolve(d, gone)
    PROVE  PendingExact'
  <1> SUFFICES ASSUME NEW t \in Task
               PROVE  /\ IsFiniteSet(waits'[t])
                      /\ pending'[t] = Cardinality(waits'[t])
                      /\ t \notin nodes' => waits'[t] = {}
    BY DEF PendingExact
  <1>1. /\ IsFiniteSet(waits[t]) /\ pending[t] = Cardinality(waits[t])
        /\ t \notin nodes => waits[t] = {}
    BY DEF IInv, PendingExact
  <1>2. CASE t \in gone
    BY <1>2, FS_EmptySet DEF Resolve, CountsDown, WithoutRefs
  <1>3. CASE t \notin gone
    <2>1. /\ waits'[t] = waits[t] \ {d}
          /\ pending'[t] = IF d \in waits[t] /\ pending[t] > 0
                           THEN pending[t] - 1 ELSE pending[t]
          /\ t \notin nodes' => t \notin nodes
      BY <1>3 DEF Resolve, CountsDown, WithoutRefs
    <2>2. CASE d \in waits[t]
      <3>1. /\ IsFiniteSet(waits[t] \ {d}) /\ Cardinality(waits[t]) > 0
            /\ Cardinality(waits[t] \ {d}) = Cardinality(waits[t]) - 1
        BY <1>1, <2>2, OneLess
      <3> QED
        BY <1>1, <2>1, <2>2, <3>1
    <2>3. CASE d \notin waits[t]
      BY <1>1, <2>1, <2>3, OneLess
    <2> QED
      BY <2>2, <2>3
  <1> QED
    BY <1>2, <1>3

(* Every step of the graph and of a publish request keeps the invariant.   *)
LEMMA StepKeeps == IInv /\ [DepsNext]_depsVars => IInv'
  <1> SUFFICES ASSUME IInv, [DepsNext]_depsVars PROVE IInv'
    OBVIOUS
  <1>1. ASSUME NEW t \in Task, NEW names \in Requests, Request(t, names) PROVE IInv'
    BY <1>1, Frame, RequestAssumption DEF RequestAssumption, Request, IInv, DepsTypeOK
  <1>2. ASSUME NEW t \in Task, Add(t) PROVE IInv'
    BY <1>2, AddTyped, AddCounts DEF IInv
  <1>3. ASSUME NEW t \in Task, AppendTask(t) PROVE IInv'
    BY <1>3, Frame DEF AppendTask, IInv, DepsTypeOK
  <1>4. ASSUME NEW t \in Task, CheckReady(t) PROVE IInv'
    BY <1>4, Frame DEF CheckReady, IInv, DepsTypeOK
  <1>5. ASSUME NEW t \in Task, Enqueue(t) PROVE IInv'
    BY <1>5, Frame DEF Enqueue, IInv, DepsTypeOK
  <1>6. ASSUME NEW d \in Name, Satisfy(d) PROVE IInv'
    BY <1>6, ResolveTyped, ResolveCounts DEF Satisfy, IInv
  <1>7. ASSUME NEW d \in Deletable, DeleteNode(d) PROVE IInv'
    BY <1>7, ResolveTyped, ResolveCounts, RequestAssumption
    DEF RequestAssumption, DeleteNode, IInv
  <1>8. CASE UNCHANGED depsVars
    BY <1>8, Frame DEF depsVars, IInv, DepsTypeOK
  <1> QED
    BY <1>1, <1>2, <1>3, <1>4, <1>5, <1>6, <1>7, <1>8 DEF DepsNext, PublishStep

(* What Ready looks at is the number of open dependencies, for every task, *)
(* whatever is added, satisfied and deleted, and in whatever order.        *)
THEOREM PendingCounted == DepsSpec => []PendingExact
  <1>1. IInv => PendingExact
    BY DEF IInv
  <1> QED
    BY InitHolds, StepKeeps, <1>1, PTL DEF DepsSpec

(* The maps of the graph keep the types the code gives them.               *)
THEOREM GraphTyped == DepsSpec => []DepsTypeOK
  <1>1. IInv => DepsTypeOK
    BY DEF IInv
  <1> QED
    BY InitHolds, StepKeeps, <1>1, PTL DEF DepsSpec

-----------------------------------------------------------------------------
(* The reference counts.                                                   *)

Waiters(d) == {t \in Task : d \in waits[t]}

(* RefsExact, of one name.                                                 *)
RefsRight(d) ==
    refs[d] = Cardinality(Waiters(d)) + leaked[d]

(* RefsExact says RefsRight of every name.                                 *)
LEMMA RefsByName == /\ RefsExact <=> \A d \in Name : RefsRight(d)
                    /\ RefsExact' <=> \A d \in Name : RefsRight(d)'
  BY DEF RefsExact, RefsRight, Waiters

(* A declared edge makes one more waiter for its name and for no other.    *)
LEMMA AddRefers ==
    ASSUME IsFiniteSet(Task), IInv, RefsExact, NEW t \in Task, Add(t)
    PROVE  RefsExact'
  <1>0. \A x \in Name : RefsRight(x)
    BY RefsByName
  <1>1. DepsTypeOK
    BY DEF IInv
  <1> PICK d \in Name \cup {Blank} : d = Head(list[t])
    BY <1>1 DEF Add, Skips, DepsTypeOK
  <1>2. CASE d = Blank \/ d \in waits[t]
    BY <1>2 DEF Add, Skips, RefsExact
  <1>3. CASE ~(d = Blank \/ d \in waits[t])
    <2>1. d \in Name
      BY <1>3
    <2>2. /\ waits' = [waits EXCEPT ![t] = @ \cup {d}]
          /\ refs' = [refs EXCEPT ![d] = @ + 1]
      BY <1>3 DEF Add, Skips
    <2>3. leaked' = leaked
      BY DEF Add, Skips
    <2>4. ASSUME NEW x \in Name, x # d
          PROVE  RefsRight(x)'
      <3>1. Waiters(x)' = Waiters(x)
        BY <1>1, <2>2, <2>4 DEF Waiters, DepsTypeOK
      <3>2. refs'[x] = refs[x]
        BY <1>1, <2>2, <2>4 DEF DepsTypeOK
      <3> QED
        BY <1>0, <2>3, <3>1, <3>2 DEF RefsRight
    <2>5. RefsRight(d)'
      <3>1. Waiters(d)' = Waiters(d) \cup {t}
        BY <1>1, <2>2 DEF Waiters, DepsTypeOK
      <3>2. IsFiniteSet(Waiters(d)) /\ t \notin Waiters(d)
        BY <1>3, FS_Subset DEF Waiters
      <3>3. /\ Cardinality(Waiters(d)') = Cardinality(Waiters(d)) + 1
            /\ Cardinality(Waiters(d)) \in Nat
        BY <3>1, <3>2, OneMore, FS_CardinalityType
      <3>4. refs'[d] = refs[d] + 1 /\ refs[d] \in Nat /\ leaked[d] \in Nat
        BY <1>1, <2>1, <2>2 DEF DepsTypeOK
      <3> QED
        BY <1>0, <2>1, <2>3, <3>3, <3>4 DEF RefsRight
    <2> QED
      BY <2>4, <2>5, RefsByName
  <1> QED
    BY <1>2, <1>3

(* A resolved name has no waiter left; another name keeps its waiters,     *)
(* except for a deleted node, which is counted as leaked instead.          *)
LEMMA ResolveRefers ==
    ASSUME IsFiniteSet(Task), IInv, RefsExact, NEW d \in Name, NEW gone,
           Resolve(d, gone)
    PROVE  RefsExact'
  <1>0. \A x \in Name : RefsRight(x)
    BY RefsByName
  <1>1. DepsTypeOK
    BY DEF IInv
  <1> DEFINE Lost(x) == {t \in gone \cap Task : x \in waits[t]}
  <1>2. /\ \A t \in Task : waits'[t] = IF t \in gone THEN {} ELSE waits[t] \ {d}
        /\ refs' = [refs EXCEPT ![d] = 0]
        /\ leaked' = [x \in Name |-> IF x = d THEN 0
                                     ELSE leaked[x] + Cardinality(Lost(x))]
    BY DEF Resolve, CountsDown, WithoutRefs
  <1> HIDE DEF Lost
  <1>3. ASSUME NEW x \in Name, x # d
        PROVE  RefsRight(x)'
    <2>1. refs'[x] = refs[x] /\ leaked'[x] = leaked[x] + Cardinality(Lost(x))
      BY <1>1, <1>2, <1>3 DEF DepsTypeOK
    <2>2. Waiters(x) = Waiters(x)' \cup Lost(x) /\ Waiters(x)' \cap Lost(x) = {}
      BY <1>2, <1>3 DEF Waiters, Lost
    <2>3. IsFiniteSet(Waiters(x)') /\ IsFiniteSet(Lost(x))
      BY FS_Subset DEF Waiters, Lost
    <2>4. Cardinality(Waiters(x)) = Cardinality(Waiters(x)') + Cardinality(Lost(x))
      BY <2>2, <2>3, Parted
    <2>5. /\ Cardinality(Waiters(x)') \in Nat /\ Cardinality(Lost(x)) \in Nat
          /\ leaked[x] \in Nat /\ refs[x] = Cardinality(Waiters(x)) + leaked[x]
      BY <1>0, <1>1, <2>3, FS_CardinalityType DEF DepsTypeOK, RefsRight
    <2> QED
      BY <2>1, <2>4, <2>5 DEF RefsRight
  <1>4. RefsRight(d)'
    <2>1. Waiters(d)' = {}
      BY <1>2 DEF Waiters
    <2>2. refs'[d] = 0 /\ leaked'[d] = 0
      BY <1>1, <1>2 DEF DepsTypeOK
    <2> QED
      BY <2>1, <2>2, FS_EmptySet DEF RefsRight
  <1> QED
    BY <1>3, <1>4, RefsByName

(* Every step keeps the reference counts.                                  *)
LEMMA StepRefers ==
    ASSUME IsFiniteSet(Task)
    PROVE  IInv /\ RefsExact /\ [DepsNext]_depsVars => RefsExact'
  <1> SUFFICES ASSUME IInv, RefsExact, [DepsNext]_depsVars PROVE RefsExact'
    OBVIOUS
  <1>1. CASE UNCHANGED graphVars
    BY <1>1 DEF graphVars, RefsExact
  <1>2. ASSUME NEW t \in Task, Add(t) PROVE RefsExact'
    BY <1>2, AddRefers
  <1>3. ASSUME NEW d \in Name, Satisfy(d) PROVE RefsExact'
    BY <1>3, ResolveRefers DEF Satisfy
  <1>4. ASSUME NEW d \in Deletable, DeleteNode(d) PROVE RefsExact'
    BY <1>4, ResolveRefers, RequestAssumption DEF RequestAssumption, DeleteNode
  <1> QED
    BY <1>1, <1>2, <1>3, <1>4
    DEF DepsNext, PublishStep, depsVars, Request, AppendTask, CheckReady, Enqueue

(* What Refs answers, for every graph and history: the nodes that wait for *)
(* the name, and those deleted while they waited, since it was last        *)
(* resolved (refcount.go, deps.go:30-83).                                  *)
THEOREM RefsCounted ==
    ASSUME IsFiniteSet(Task)
    PROVE  DepsSpec => []RefsExact
  <1>1. DepsInit => RefsExact
    <2> SUFFICES ASSUME DepsInit, NEW d \in Name
                 PROVE  RefsRight(d)
      BY RefsByName
    <2>1. Waiters(d) = {}
      BY DEF DepsInit, Waiters
    <2> QED
      BY <2>1, FS_EmptySet DEF DepsInit, RefsRight
  <1>2. IInv /\ RefsExact /\ [DepsNext]_depsVars => RefsExact'
    BY StepRefers
  <1> QED
    BY <1>1, <1>2, InitHolds, StepKeeps, PTL DEF DepsSpec

-----------------------------------------------------------------------------
(* Only ready tasks are queued.                                            *)

(* A dependency that was declared is open or resolved, and a request that  *)
(* is about to put its task into the queue has no open one.                *)
Settled ==
    \A t \in Task :
        /\ declared[t] \subseteq waits[t] \cup resolved[t]
        /\ pc[t] = "enqueue" => declared[t] \subseteq resolved[t]

(* A declared dependency is open at first.                                 *)
LEMMA AddSettles ==
    ASSUME IInv, Settled, NEW t \in Task, Add(t)
    PROVE  Settled'
  <1>1. DepsTypeOK /\ pc' = pc /\ pc[t] = "add"
    BY DEF IInv, Add, Skips
  <1>2. CASE Head(list[t]) = Blank \/ Head(list[t]) \in waits[t]
    BY <1>2 DEF Add, Skips, Settled
  <1>3. CASE ~(Head(list[t]) = Blank \/ Head(list[t]) \in waits[t])
    <2>1. /\ waits' = [waits EXCEPT ![t] = @ \cup {Head(list[t])}]
          /\ declared' = [declared EXCEPT ![t] = @ \cup {Head(list[t])}]
          /\ resolved' = [resolved EXCEPT ![t] = @ \ {Head(list[t])}]
      BY <1>3 DEF Add, Skips
    <2>2. ASSUME NEW u \in Task, u # t
          PROVE  /\ waits'[u] = waits[u] /\ declared'[u] = declared[u]
                 /\ resolved'[u] = resolved[u]
      BY <1>1, <2>1, <2>2 DEF DepsTypeOK
    <2>3. /\ waits'[t] = waits[t] \cup {Head(list[t])}
          /\ declared'[t] = declared[t] \cup {Head(list[t])}
          /\ resolved'[t] = resolved[t] \ {Head(list[t])}
      BY <1>1, <2>1 DEF DepsTypeOK
    <2> QED
      BY <1>1, <2>2, <2>3 DEF Settled
  <1> QED
    BY <1>2, <1>3

(* A task that Ready answers for has no open dependency: it has no node,   *)
(* or its counter is zero.                                                 *)
LEMMA ReadySettles ==
    ASSUME IInv, Settled, NEW t \in Task, CheckReady(t)
    PROVE  Settled'
  <1>1. pc \in [Task -> {"new", "add", "ready", "enqueue", "ok", "error"}]
    BY DEF IInv, DepsTypeOK
  <1>2. ASSUME Ready(t)
        PROVE  waits[t] = {}
    BY <1>2, FS_EmptySet DEF IInv, PendingExact, Ready
  <1>3. UNCHANGED <<waits, declared, resolved>>
    BY DEF CheckReady, graphVars
  <1>4. ASSUME NEW u \in Task, pc'[u] = "enqueue"
        PROVE  declared[u] \subseteq resolved[u]
    <2>1. u # t => pc[u] = "enqueue"
      BY <1>1, <1>4 DEF CheckReady
    <2>2. u = t => Ready(t)
      BY <1>1, <1>4 DEF CheckReady
    <2> QED
      BY <1>2, <2>1, <2>2 DEF Settled
  <1> QED
    BY <1>3, <1>4 DEF Settled

(* What leaves the open edges is recorded as resolved, and a deleted node  *)
(* forgets both.                                                           *)
LEMMA ResolveSettles ==
    ASSUME IInv, Settled, NEW d \in Name, NEW gone, Resolve(d, gone)
    PROVE  Settled'
  <1> SUFFICES ASSUME NEW t \in Task
               PROVE  /\ declared'[t] \subseteq waits'[t] \cup resolved'[t]
                      /\ pc'[t] = "enqueue" => declared'[t] \subseteq resolved'[t]
    BY DEF Settled
  <1>1. /\ declared[t] \subseteq waits[t] \cup resolved[t]
        /\ pc[t] = "enqueue" => declared[t] \subseteq resolved[t]
    BY DEF Settled
  <1>2. /\ pc' = pc
        /\ waits'[t] = IF t \in gone THEN {} ELSE waits[t] \ {d}
        /\ declared'[t] = IF t \in gone THEN {} ELSE declared[t]
        /\ resolved'[t] = IF t \in gone THEN {}
                          ELSE IF d \in waits[t] THEN resolved[t] \cup {d} ELSE resolved[t]
    BY DEF Resolve
  <1> QED
    BY <1>1, <1>2

(* Every step keeps it.                                                    *)
LEMMA StepSettles == IInv /\ Settled /\ [DepsNext]_depsVars => Settled'
  <1> SUFFICES ASSUME IInv, Settled, [DepsNext]_depsVars PROVE Settled'
    OBVIOUS
  <1>1. pc \in [Task -> {"new", "add", "ready", "enqueue", "ok", "error"}]
    BY DEF IInv, DepsTypeOK
  <1>2. ASSUME UNCHANGED <<waits, declared, resolved>>,
               \A u \in Task : pc'[u] = "enqueue" => pc[u] = "enqueue"
        PROVE  Settled'
    BY <1>2 DEF Settled
  <1>3. ASSUME NEW t \in Task, NEW names \in Requests, Request(t, names) PROVE Settled'
    BY <1>1, <1>2, <1>3 DEF Request, graphVars
  <1>4. ASSUME NEW t \in Task, AppendTask(t) PROVE Settled'
    BY <1>1, <1>2, <1>4 DEF AppendTask, graphVars
  <1>5. ASSUME NEW t \in Task, Enqueue(t) PROVE Settled'
    BY <1>1, <1>2, <1>5 DEF Enqueue, graphVars
  <1>6. ASSUME NEW d \in Name, Satisfy(d) PROVE Settled'
    BY <1>6, ResolveSettles DEF Satisfy
  <1>7. ASSUME NEW d \in Deletable, DeleteNode(d) PROVE Settled'
    BY <1>7, ResolveSettles, RequestAssumption DEF RequestAssumption, DeleteNode
  <1>8. CASE UNCHANGED depsVars
    BY <1>2, <1>8 DEF depsVars, graphVars
  <1> QED
    BY <1>3, <1>4, <1>5, <1>6, <1>7, <1>8, AddSettles, ReadySettles DEF DepsNext, PublishStep

(* Only Enqueue puts a task into the queue.                                *)
LEMMA StepQueues ==
    Settled /\ [DepsNext]_depsVars =>
        [\A t \in Task : t \in queued' \ queued => declared[t] \subseteq resolved[t]]_depsVars
  <1> SUFFICES ASSUME Settled, [DepsNext]_depsVars, NEW t \in Task, t \in queued' \ queued
               PROVE  declared[t] \subseteq resolved[t]
    OBVIOUS
  <1>1. \E u \in Task : Enqueue(u)
    BY DEF DepsNext, depsVars, PublishStep, Request, Add, Skips, AppendTask, CheckReady,
           Satisfy, DeleteNode, Resolve
  <1>2. pc[t] = "enqueue"
    BY <1>1 DEF Enqueue
  <1> QED
    BY <1>2 DEF Settled

(* No task is queued while a dependency that was declared for it is open,  *)
(* however the declarations, satisfactions and deletions interleave with   *)
(* its publish request (server.go handlePublish, broker.go Publish).       *)
THEOREM QueuedWereReady == DepsSpec => QueuedReady
  <1>1. DepsInit => Settled
    BY DEF DepsInit, Settled
  <1> QED
    BY <1>1, InitHolds, StepKeeps, StepSettles, StepQueues, PTL DEF DepsSpec, QueuedReady
=============================================================================
