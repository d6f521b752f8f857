------------------------------- MODULE Groups -------------------------------
(***************************************************************************)
(* The task table (internal/registry) and Dispatcher.Dispatch with its     *)
(* cache of group snapshots (internal/dispatch/dispatch.go).  Every call   *)
(* into the registry is a step under the registry's mutex; a dispatch that *)
(* has to read its group again holds the dispatcher's mutex over many such *)
(* calls.                                                                  *)
(*                                                                         *)
(* A task is in the table under its id alone, with the group that its last *)
(* registration named; each group has a list of ids and a version.  An id  *)
(* that is registered under another group stays in the list of the former  *)
(* one, whose version does not tell what becomes of it: it is a stray.     *)
(*                                                                         *)
(* A publish request registers a fresh id.  Registering an id again,       *)
(* Delete, SetState with a final state, and Dispatch are left to clients   *)
(* of the packages, who do it at any time.  Due times are numbers, 0 the   *)
(* zero time.                                                              *)
(***************************************************************************)
EXTENDS Integers, Sequences, SequencesExt

CONSTANTS
    Id,             \* task ids
    Group, NoGroup, \* groups, and what is none
    Dispatchers,    \* goroutines that call Dispatch
    Dues,           \* the due times a registration may carry
    MaxWrites,      \* bound on calls of Register, and of SetState by clients
    MaxCalls        \* bound on calls of Dispatch

ASSUME DuesAssumption  == Dues \subseteq Nat
ASSUME GroupAssumption == NoGroup \notin Group
ASSUME BoundAssumption == {MaxWrites, MaxCalls} \subseteq Nat

Absent   == [state |-> "absent", due |-> 0, group |-> NoGroup]
NoEntry  == [version |-> -1, tasks |-> <<>>]
Unsorted == <<[due |-> -1]>>        \* the nil slice of ordered

VARIABLES
    byID, incarnations,         \* the registry: its table, and what it has of
    groups, version,            \* each id and of each group
    cache,          \* Dispatcher.cache, by group
    mu,             \* the dispatchers that hold d.mu, one at most
    dpc, grp, ver,  \* each dispatcher: its step, the group it was called for,
    ids, got, live, \* the version it read, the ids left to read, the task got,
    batch,          \* the tasks read, and the tasks left to send
    writes, calls,  \* counters for the bounds
    lived           \* history: ids alive at some time since each dispatcher
                    \* that has no batch yet began

regVars  == <<byID, groups, version, incarnations>>
callVars == <<cache, mu, dpc, grp, ver, ids, got, live, batch>>
groupsVars == <<regVars, callVars, writes, calls, lived>>

GroupsInit ==
    /\ byID = [t \in Id |-> Absent] /\ incarnations = [t \in Id |-> 0]
    /\ groups = [g \in Group |-> <<>>] /\ version = [g \in Group |-> 0]
    /\ cache = [g \in Group |-> NoEntry] /\ mu = {}
    /\ dpc = [d \in Dispatchers |-> "idle"] /\ grp = [d \in Dispatchers |-> NoGroup]
    /\ ver = [d \in Dispatchers |-> 0] /\ got = [d \in Dispatchers |-> Absent]
    /\ ids = [d \in Dispatchers |-> <<>>] /\ live = [d \in Dispatchers |-> <<>>]
    /\ batch = [d \in Dispatchers |-> <<>>]
    /\ writes = 0 /\ calls = 0
    /\ lived = [d \in Dispatchers |-> {}]

(* What the loop of Delete keeps of a list, after each of its turns.       *)
KeptBy(list, S) ==
    LET kept[n \in 0 .. Len(list)] ==
            IF n = 0 THEN <<>>
            ELSE IF list[n] \in S THEN Append(kept[n - 1], list[n]) ELSE kept[n - 1]
    IN  kept

Kept(list, S) == KeptBy(list, S)[Len(list)]

Alive(table) == {t \in Id : table[t].state \notin {"absent", "removed"}}

-----------------------------------------------------------------------------
(* The registry.                                                           *)

Choosing(d) == dpc[d] \in {"lookup", "list", "get", "alive"}

Lives == lived' = [d \in Dispatchers |->
                     IF Choosing(d) THEN lived[d] \cup Alive(byID') ELSE {}]

Final == {"done", "removed"}

(* An id registered again is listed again, in the group it comes with; the *)
(* group it was in is left alone.  Only when its task has ended, or is not *)
(* in the table, does its incarnation change.                              *)
Register(t, g, due) ==
    /\ writes < MaxWrites
    /\ writes' = writes + 1
    /\ byID' = [byID EXCEPT ![t] = [state |-> "pending", due |-> due, group |-> g]]
    /\ groups' = [groups EXCEPT ![g] = Append(@, t)]
    /\ version' = [version EXCEPT ![g] = @ + 1]
    /\ incarnations' = [incarnations EXCEPT ![t] =
                           IF byID[t] = Absent THEN 1
                           ELSE IF byID[t].state \in Final THEN @ + 1 ELSE @]
    /\ Lives
    /\ UNCHANGED <<callVars, calls>>

(* Only the group of the last registration forgets the id.                 *)
Delete(t) ==
    LET g == byID[t].group IN
    /\ byID[t] # Absent
    /\ byID' = [byID EXCEPT ![t] = Absent]
    /\ groups' = [groups EXCEPT ![g] = Kept(@, Id \ {t})]
    /\ version' = [version EXCEPT ![g] = @ + 1]
    /\ Lives
    /\ UNCHANGED <<incarnations, callVars, writes, calls>>

SetState(t, s) ==
    IF byID[t] = Absent
    THEN UNCHANGED <<regVars, lived>>
    ELSE /\ byID' = [byID EXCEPT ![t].state = s]
         /\ version' = [version EXCEPT ![byID[t].group] = @ + 1]
         /\ Lives
         /\ UNCHANGED <<groups, incarnations>>

(* The client that runs a task reports its end.                            *)
ClientSetState(t, s) ==
    /\ writes < MaxWrites
    /\ writes' = writes + 1
    /\ SetState(t, s)
    /\ UNCHANGED <<callVars, calls>>

-----------------------------------------------------------------------------
(* Dispatch.                                                               *)

(* The version is read before d.mu is asked for.                           *)
ReadVersion(d, g) ==
    /\ dpc[d] = "idle" /\ calls < MaxCalls
    /\ calls' = calls + 1
    /\ grp' = [grp EXCEPT ![d] = g]
    /\ ver' = [ver EXCEPT ![d] = version[g]]
    /\ dpc' = [dpc EXCEPT ![d] = "lookup"]
    /\ lived' = [lived EXCEPT ![d] = Alive(byID)]
    /\ UNCHANGED <<regVars, cache, mu, ids, got, live, batch, writes>>

(* ErrOutOfOrder, or no executor to send to, or the batch to send.  The    *)
(* locals of ordered end here.                                             *)
Deliver(d, tasks) ==
    /\ grp' = [grp EXCEPT ![d] = NoGroup] /\ ver' = [ver EXCEPT ![d] = 0]
    /\ ids' = [ids EXCEPT ![d] = <<>>] /\ got' = [got EXCEPT ![d] = Absent]
    /\ live' = [live EXCEPT ![d] = <<>>] /\ lived' = [lived EXCEPT ![d] = {}]
    /\ \/ tasks # Unsorted
          /\ dpc' = [dpc EXCEPT ![d] = "send"] /\ batch' = [batch EXCEPT ![d] = tasks]
       \/ dpc' = [dpc EXCEPT ![d] = "idle"] /\ batch' = [batch EXCEPT ![d] = <<>>]

(* Variants: d.mu is not taken; whatever is cached is used.                *)
MuFreeAlways == TRUE
CurrentAny(d) == cache[grp[d]] # NoEntry

MuFree == mu = {}

Current(d) == cache[grp[d]] # NoEntry /\ cache[grp[d]].version = ver[d]

(* A cached snapshot of the version read is used; another one is dropped.  *)
Lookup(d) ==
    /\ dpc[d] = "lookup" /\ MuFree
    /\ IF Current(d)
       THEN Deliver(d, cache[grp[d]].tasks) /\ UNCHANGED <<cache, mu>>
       ELSE /\ cache' = [cache EXCEPT ![grp[d]] = NoEntry] /\ mu' = {d}
            /\ dpc' = [dpc EXCEPT ![d] = "list"]
            /\ UNCHANGED <<grp, batch, ver, ids, got, live, lived>>
    /\ UNCHANGED <<regVars, writes, calls>>

ListGroup(d) ==
    /\ dpc[d] = "list"
    /\ ids' = [ids EXCEPT ![d] = groups[grp[d]]]
    /\ live' = [live EXCEPT ![d] = <<>>]
    /\ dpc' = [dpc EXCEPT ![d] = "get"]
    /\ UNCHANGED <<regVars, cache, mu, grp, ver, got, batch, writes, calls, lived>>

(* The task is whatever the id stands for now, in whichever group.         *)
Get(d) ==
    /\ dpc[d] = "get" /\ ids[d] # <<>>
    /\ LET t == Head(ids[d])
       IN  IF byID[t] = Absent
           THEN ids' = [ids EXCEPT ![d] = Tail(@)] /\ UNCHANGED <<dpc, got>>
           ELSE /\ got' = [got EXCEPT ![d] = byID[t]]
                /\ dpc' = [dpc EXCEPT ![d] = "alive"]
                /\ UNCHANGED ids
    /\ UNCHANGED <<regVars, cache, mu, grp, ver, live, batch, writes, calls, lived>>

(* Variant: the version is read when the snapshot is complete.             *)
SnapshotVersionLate(d) == version[grp[d]]

SnapshotVersion(d) == ver[d]

(* Unlock with the snapshot cached under the version read at the start.    *)
Snapshot(d, tasks) ==
    /\ cache' = [cache EXCEPT ![grp[d]] =
                    [version |-> SnapshotVersion(d), tasks |-> tasks]]
    /\ mu' = {}
    /\ Deliver(d, tasks)

(* Alive is a call of its own.  A task due before the one before it makes  *)
(* the whole group undispatchable.                                         *)
CheckAlive(d) ==
    /\ dpc[d] = "alive"
    /\ LET t == Head(ids[d]) IN
       IF t \in Alive(byID) /\ live[d] # <<>> /\ got[d].due < Last(live[d]).due
       THEN Snapshot(d, Unsorted)
       ELSE /\ live' = [live EXCEPT ![d] =
                           IF t \notin Alive(byID) THEN @
                           ELSE Append(@, [id |-> t, due |-> got[d].due])]
            /\ ids' = [ids EXCEPT ![d] = Tail(@)]
            /\ dpc' = [dpc EXCEPT ![d] = "get"]
            /\ UNCHANGED <<cache, mu, grp, batch, ver, got, lived>>
    /\ UNCHANGED <<regVars, writes, calls>>

ScanEnd(d) ==
    /\ dpc[d] = "get" /\ ids[d] = <<>>
    /\ Snapshot(d, live[d])
    /\ UNCHANGED <<regVars, writes, calls>>

(* dispatchBatch: a task without due time ends it; otherwise dispatchOne   *)
(* hands the task off, or fails and the next one is tried.                 *)
SendFails(d) ==
    /\ dpc[d] = "send" /\ batch[d] # <<>>
    /\ IF Head(batch[d]).due = 0
       THEN dpc' = [dpc EXCEPT ![d] = "idle"] /\ batch' = [batch EXCEPT ![d] = <<>>]
       ELSE batch' = [batch EXCEPT ![d] = Tail(@)] /\ UNCHANGED dpc
    /\ UNCHANGED <<regVars, cache, mu, grp, ver, ids, got, live>>
    /\ UNCHANGED <<writes, calls, lived>>

HandOff(d) ==
    /\ dpc[d] = "send" /\ batch[d] # <<>> /\ Head(batch[d]).due # 0
    /\ dpc' = [dpc EXCEPT ![d] = "state"]
    /\ UNCHANGED <<regVars, cache, mu, grp, ver, ids, got, live, batch>>
    /\ UNCHANGED <<writes, calls, lived>>

MarkState(d) ==
    /\ dpc[d] = "state"
    /\ SetState(Head(batch[d]).id, "dispatched")
    /\ batch' = [batch EXCEPT ![d] = Tail(@)]
    /\ dpc' = [dpc EXCEPT ![d] = "send"]
    /\ UNCHANGED <<cache, mu, grp, ver, ids, got, live, writes, calls>>

Returns(d) ==
    /\ dpc[d] = "send" /\ batch[d] = <<>>
    /\ dpc' = [dpc EXCEPT ![d] = "idle"]
    /\ UNCHANGED <<regVars, cache, mu, grp, ver, ids, got, live, batch>>
    /\ UNCHANGED <<writes, calls, lived>>

-----------------------------------------------------------------------------
DispatchStep(d) ==
    \/ \E g \in Group : ReadVersion(d, g)
    \/ Lookup(d) \/ ListGroup(d) \/ Get(d) \/ CheckAlive(d) \/ ScanEnd(d)
    \/ SendFails(d) \/ HandOff(d) \/ MarkState(d) \/ Returns(d)

GroupsNext ==
    \/ \E t \in Id, g \in Group, due \in Dues : Register(t, g, due)
    \/ \E t \in Id : Delete(t)
    \/ \E t \in Id, s \in Final : ClientSetState(t, s)
    \/ \E d \in Dispatchers : DispatchStep(d)

GroupsSpec == GroupsInit /\ [][GroupsNext]_groupsVars

-----------------------------------------------------------------------------
(* What is listed in a group but was last registered in another one, or    *)
(* deleted since.                                                          *)
Strays(g) == {t \in Range(groups[g]) : byID[t].group # g}

(* The ids of a group that are alive, in order.                            *)
AliveIds(g) == Kept(groups[g], Range(groups[g]) \cap Alive(byID))

RecordOf(t) == [id |-> t, due |-> byID[t].due]

(* What a reader of a whole group under one lock would get.                *)
View(g) ==
    LET alive == AliveIds(g)
    IN  IF \E k \in 2 .. Len(alive) : byID[alive[k]].due < byID[alive[k - 1]].due
        THEN Unsorted
        ELSE [k \in 1 .. Len(alive) |-> RecordOf(alive[k])]

Record == [id : Id, due : Nat]

(* Type invariant; d.mu is held by the dispatcher that reads a group.      *)
GroupsTypeOK ==
    /\ byID \in [Id -> [state : {"pending", "dispatched", "done", "removed"},
                        due : Nat, group : Group] \cup {Absent}]
    /\ groups \in [Group -> Seq(Id)] /\ version \in [Group -> Nat]
    /\ incarnations \in [Id -> Nat]
    /\ cache \in [Group -> [version : Int, tasks : Seq(Record) \cup {Unsorted}]]
    /\ mu = {d \in Dispatchers : dpc[d] \in {"list", "get", "alive"}}
    /\ \A d, e \in mu : d = e
    /\ dpc \in [Dispatchers -> {"idle", "lookup", "list", "get", "alive", "send", "state"}]
    /\ grp \in [Dispatchers -> Group \cup {NoGroup}]
    /\ ver \in [Dispatchers -> Nat]
    /\ ids \in [Dispatchers -> Seq(Id)]
    /\ live \in [Dispatchers -> Seq(Record)]
    /\ batch \in [Dispatchers -> Seq(Record)]
    /\ \A d \in Dispatchers :
          /\ Choosing(d) => grp[d] \in Group /\ ver[d] <= version[grp[d]]
          /\ dpc[d] = "alive" => ids[d] # <<>>
          /\ dpc[d] = "state" => batch[d] # <<>>

(* The cache is not trusted in vain: an entry that carries the current     *)
(* version of its group is what a consistent read of the group gives now,  *)
(* although it was read task by task while others registered, deleted and  *)
(* dispatched - unless the group lists strays.  Even then it has the tasks *)
(* of the group as they are, each that is alive and no other.              *)
CacheFresh ==
    \A g \in Group : cache[g].version = version[g] =>
        /\ Strays(g) = {} => cache[g].tasks = View(g)
        /\ cache[g].tasks # Unsorted =>
              \A t \in Id : byID[t].group = g =>
                  {r \in Range(cache[g].tasks) : r.id = t} =
                      IF t \in Alive(byID) THEN {RecordOf(t)} ELSE {}

(* A task that a call is about to dispatch was alive at some time since    *)
(* the call began, or it is a stray of the group that the call is for.     *)
BatchAlive ==
    [][\A d \in Dispatchers : Choosing(d) /\ dpc'[d] = "send" =>
          \A r \in Range(batch'[d]) : r.id \in lived[d] \cup Strays(grp[d])]_groupsVars

(* "The registry view is snapshotted once per batch so a deleted task      *)
(* never keeps dispatching from a stale view" (dispatch.go:161-163), for   *)
(* every task: one that a call is about to dispatch was alive at some time *)
(* since the call began.  Registering an id again under another group      *)
(* breaks it: the version of the former group does not change when the     *)
(* task is deleted.                                                        *)
NeverStale ==
    [][\A d \in Dispatchers : Choosing(d) /\ dpc'[d] = "send" =>
          \A r \in Range(batch'[d]) : r.id \in lived[d]]_groupsVars
=============================================================================
