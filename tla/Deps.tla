-------------------------------- MODULE Deps --------------------------------
(***************************************************************************)
(* The dependency graph with its reference counts (internal/deps) and its  *)
(* use by the publish path: handlePublish declares the dependencies of a   *)
(* new task one call at a time, and Broker.Publish asks once whether the   *)
(* task is ready.  Every call into the graph is a step, under its mutex.   *)
(*                                                                         *)
(* Satisfy and Delete have no caller in cmd/jobsched; here a client of the *)
(* package calls them at any time, with names it can know.                 *)
(***************************************************************************)
EXTENDS Integers, FiniteSets, Sequences, Functions

CONSTANTS
    Task,           \* ids of the tasks to publish
    Name,           \* what a request may name as a dependency
    Blank,          \* the empty name
    Requests,       \* lists of names a publish request may carry
    Deletable       \* what a client deletes from the graph

ASSUME NameAssumption    == Task \subseteq Name /\ Blank \notin Name
ASSUME RequestAssumption == /\ Requests \subseteq Seq(Name \cup {Blank})
                            /\ Deletable \subseteq Name

VARIABLES
    nodes,          \* the tasks that have a node
    waits,          \* node.dependents: the open dependencies of each node
    pending,        \* node.pending
    refs,           \* Graph.refs, 0 for a missing entry
    pc, list,       \* each publish request: its step, the names still to add
    queued,         \* the tasks that were put into the waiting queue
    declared,       \* history: the dependencies added for each task
    resolved,       \* history: of these, the ones satisfied or deleted since
    leaked          \* history: of each name, the nodes deleted while they
                    \* waited for it, since it was last resolved

graphVars == <<nodes, waits, pending, refs, declared, resolved, leaked>>
depsVars == <<graphVars, pc, list, queued>>

DepsInit ==
    /\ nodes = {}
    /\ waits = [t \in Task |-> {}] /\ pending = [t \in Task |-> 0]
    /\ refs = [d \in Name |-> 0]
    /\ pc = [t \in Task |-> "new"] /\ list = [t \in Task |-> <<>>]
    /\ queued = {}
    /\ declared = [t \in Task |-> {}] /\ resolved = [t \in Task |-> {}]
    /\ leaked = [d \in Name |-> 0]

Returned == {t \in Task : pc[t] \in {"ok", "error"}}

-----------------------------------------------------------------------------
(* handlePublish and Broker.Publish.                                       *)

(* The id is fresh: a request can only name tasks that were published.     *)
Request(t, names) ==
    /\ pc[t] = "new"
    /\ Range(names) \cap Task \subseteq Returned
    /\ list' = [list EXCEPT ![t] = names]
    /\ pc' = [pc EXCEPT ![t] = "add"]
    /\ UNCHANGED <<graphVars, queued>>

(* Variant: an edge that is already there is counted again.                *)
SkipsBlank(t, d) == d = Blank

Skips(t, d) == d = Blank \/ d \in waits[t]

(* Graph.Add with one name: a node is made even for an empty one.          *)
Add(t) ==
    LET d == Head(list[t]) IN
    /\ pc[t] = "add" /\ list[t] # <<>>
    /\ list' = [list EXCEPT ![t] = Tail(@)]
    /\ nodes' = nodes \cup {t}
    /\ IF Skips(t, d)
       THEN UNCHANGED <<waits, pending, refs, declared, resolved>>
       ELSE /\ waits' = [waits EXCEPT ![t] = @ \cup {d}]
            /\ pending' = [pending EXCEPT ![t] = @ + 1]
            /\ refs' = [refs EXCEPT ![d] = @ + 1]
            /\ declared' = [declared EXCEPT ![t] = @ \cup {d}]
            /\ resolved' = [resolved EXCEPT ![t] = @ \ {d}]
    /\ UNCHANGED <<leaked, pc, queued>>

(* The store may be full: then the request fails and its node stays.       *)
AppendTask(t) ==
    /\ pc[t] = "add" /\ list[t] = <<>>
    /\ \/ pc' = [pc EXCEPT ![t] = "ready"]
       \/ pc' = [pc EXCEPT ![t] = "error"]
    /\ UNCHANGED <<graphVars, list, queued>>

Ready(t) == t \notin nodes \/ pending[t] = 0

CheckReady(t) ==
    /\ pc[t] = "ready"
    /\ pc' = [pc EXCEPT ![t] = IF Ready(t) THEN "enqueue" ELSE "ok"]
    /\ UNCHANGED <<graphVars, list, queued>>

(* The waiting queue may be full.                                          *)
Enqueue(t) ==
    /\ pc[t] = "enqueue"
    /\ \/ queued' = queued \cup {t} /\ pc' = [pc EXCEPT ![t] = "ok"]
       \/ pc' = [pc EXCEPT ![t] = "error"] /\ UNCHANGED queued
    /\ UNCHANGED <<graphVars, list>>

-----------------------------------------------------------------------------
(* Variants: every node counts down, whether it waits for d or not; the    *)
(* count of references is kept.                                            *)
CountsDownAll(t, d) == TRUE
WithoutRefsKept(d) == refs

CountsDown(t, d) == d \in waits[t] /\ pending[t] > 0

WithoutRefs(d) == [refs EXCEPT ![d] = 0]

(* The edges that point at d go; the nodes in gone go with all their edges,*)
(* but what these referred to keeps its count.                             *)
Resolve(d, gone) ==
    /\ nodes' = nodes \ gone
    /\ waits' = [t \in Task |-> IF t \in gone THEN {} ELSE waits[t] \ {d}]
    /\ pending' = [t \in Task |->
                      IF t \in gone THEN 0
                      ELSE IF CountsDown(t, d)
                      THEN pending[t] - 1 ELSE pending[t]]
    /\ refs' = WithoutRefs(d)
    /\ declared' = [t \in Task |-> IF t \in gone THEN {} ELSE declared[t]]
    /\ resolved' = [t \in Task |->
                       IF t \in gone THEN {}
                       ELSE IF d \in waits[t] THEN resolved[t] \cup {d} ELSE resolved[t]]
    /\ leaked' = [x \in Name |->
                     IF x = d THEN 0
                     ELSE leaked[x] + Cardinality({t \in gone \cap Task : x \in waits[t]})]
    /\ UNCHANGED <<pc, list, queued>>

Satisfy(d) == Resolve(d, {})

(* Only a task that was published has an id that a client knows.           *)
DeleteNode(d) ==
    /\ d \in Task => d \in Returned
    /\ Resolve(d, {d})

-----------------------------------------------------------------------------
PublishStep(t) == Add(t) \/ AppendTask(t) \/ CheckReady(t) \/ Enqueue(t)

DepsNext ==
    \/ \E t \in Task, names \in Requests : Request(t, names)
    \/ \E t \in Task : PublishStep(t)
    \/ \E d \in Name : Satisfy(d)
    \/ \E d \in Deletable : DeleteNode(d)

DepsSpec == DepsInit /\ [][DepsNext]_depsVars

(* A request that has arrived is worked on.                                *)
DepsFairSpec == DepsSpec /\ \A t \in Task : WF_depsVars(PublishStep(t))

-----------------------------------------------------------------------------
(* Type invariant.                                                         *)
DepsTypeOK ==
    /\ nodes \subseteq Task
    /\ waits \in [Task -> SUBSET Name]
    /\ pending \in [Task -> Nat]
    /\ refs \in [Name -> Nat]
    /\ pc \in [Task -> {"new", "add", "ready", "enqueue", "ok", "error"}]
    /\ list \in [Task -> Seq(Name \cup {Blank})]
    /\ queued \subseteq Task
    /\ declared \in [Task -> SUBSET Name]
    /\ resolved \in [Task -> SUBSET Name]
    /\ leaked \in [Name -> Nat]

(* The counter that Ready looks at is the number of edges that Deps lists: *)
(* repeated and empty names, satisfaction in the middle of a declaration   *)
(* and deletions never make them differ.                                   *)
PendingExact ==
    \A t \in Task : /\ IsFiniteSet(waits[t])
                    /\ pending[t] = Cardinality(waits[t])
                    /\ t \notin nodes => waits[t] = {}

(* The reference counts do leak, although Delete is said to clean up "so   *)
(* reference counts never leak" (refcount.go:17-19): it clears the count   *)
(* of the name it deletes and keeps those of the names that the deleted    *)
(* node waited for, so that Refs does not tell "how many dependents still  *)
(* reference" a name (deps.go:77).  It tells how many nodes wait, and one  *)
(* more for each node that was deleted while it waited, until the name     *)
(* itself is resolved; nothing else is ever counted or lost.               *)
RefsExact ==
    \A d \in Name :
        refs[d] = Cardinality({t \in Task : d \in waits[t]}) + leaked[d]

(* "dependencies that are not ready keep a task pending"                   *)
(* (BENZHI_README.md:12): a task reaches the queue only when each of its   *)
(* dependencies was resolved after it was declared.                        *)
QueuedReady ==
    [][\A t \in Task : t \in queued' \ queued => declared[t] \subseteq resolved[t]]_depsVars

(* "Satisfy marks a dependency as satisfied and notifies dependents"       *)
(* (deps.go:51): a task that was parked gets to the queue once it is ready.*)
WaitersReleased ==
    \A t \in Task : pc[t] = "ok" /\ Ready(t) ~> t \in queued
=============================================================================
