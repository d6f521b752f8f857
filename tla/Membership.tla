----------------------------- MODULE Membership -----------------------------
(***************************************************************************)
(* The life of an executor: the lease table (internal/lease), the runner   *)
(* table (internal/exec/manager.go), the heartbeat sweep and its evictor   *)
(* (internal/heartbeat), the registration handler (cmd/jobsched/server.go) *)
(* and the tick goroutine that hands jobs to a leased executor.  Each      *)
(* table has its own mutex and no lock spans two of them, so every call    *)
(* into a table is a step of its own.                                      *)
(*                                                                         *)
(* A runner appears as the abstract slot of module ExecutorSlot: open,     *)
(* closing or released, with the jobs it accepted and the one it runs.     *)
(* The n-th runner made for executor e is <<e, n>>.                        *)
(***************************************************************************)
EXTENDS Integers, FiniteSets

CONSTANTS
    Exec,       \* executor ids
    Job,        \* instances the tick goroutine dispatches
    Handlers,   \* concurrent registration requests
    Timeout,    \* LeaseTimeout
    MaxTime,    \* bound on the clock
    MaxRegs,    \* bound on registrations of one executor
    None        \* no executor, job or handler argument

ASSUME TimeAssumption ==
    Timeout \in Nat \ {0} /\ MaxTime \in Nat
ASSUME RegsAssumption == MaxRegs \in Nat \ {0}
ASSUME NoneAssumption == None \notin Exec \cup Job

Runners == Exec \X (1 .. MaxRegs)

VARIABLES
    now,
    lease,      \* lease.Manager.leases; state "none" for a missing entry
    slotOf,     \* lease.Manager.slotOf; NoSlot for a missing entry
    next,       \* lease.Manager.next
    runnerOf,   \* exec.Manager.runners; 0 for a missing entry
    made,       \* how many runners were made for each executor
    slot, queued, running,              \* the runners
    fresh,      \* jobs not dispatched yet
    spc, asOf, todo, victim, held,      \* the sweep: its step, its captured time,
                                        \* the list it walks, Evict's exec and runner
    lastSweep,  \* when the last sweep started
    late,       \* history: two sweeps have started more than Timeout apart
    listed,     \* history: lease.Manager.next when the last sweep started
    hpc, hexec, regs,                   \* registration handlers
    crossed,    \* history: the executors whose last eviction overlapped a
                \* registration, and that have not registered again since
    dpc, dexec, dheld, djob             \* the tick goroutine in execs.Dispatch

leaseVars  == <<lease, slotOf, next>>
tableVars  == <<runnerOf, made>>
runnerVars == <<slot, queued, running>>
sweepVars  == <<spc, asOf, todo, victim, held, lastSweep, late, listed>>
regVars    == <<hpc, hexec, regs, crossed>>
dispVars   == <<dpc, dexec, dheld, djob, fresh>>
vars == <<now, leaseVars, tableVars, runnerVars, sweepVars, regVars, dispVars>>

NoSlot == -1

Init ==
    /\ now = 0
    /\ lease = [e \in Exec |-> [state |-> "none", slot |-> NoSlot, expires |-> 0]]
    /\ slotOf = [e \in Exec |-> NoSlot] /\ next = 0
    /\ runnerOf = [e \in Exec |-> 0] /\ made = [e \in Exec |-> 0]
    /\ slot = [r \in Runners |-> "none"]
    /\ queued = [r \in Runners |-> {}]
    /\ running = [r \in Runners |-> None]
    /\ fresh = Job
    /\ spc = "idle" /\ asOf = 0 /\ todo = {} /\ victim = None /\ held = 0
    /\ lastSweep = 0 /\ late = FALSE /\ listed = 0
    /\ hpc = [h \in Handlers |-> "idle"] /\ hexec = [h \in Handlers |-> None]
    /\ regs = [e \in Exec |-> 0] /\ crossed = {}
    /\ dpc = "idle" /\ dexec = None /\ dheld = 0 /\ djob = None

(* Time passes between any two steps.                                      *)
Tick ==
    /\ now < MaxTime
    /\ now' = now + 1
    /\ UNCHANGED <<leaseVars, tableVars, runnerVars, sweepVars, regVars, dispVars>>

-----------------------------------------------------------------------------
(* The lease table.                                                        *)

LeasedNames == {e \in Exec : lease[e].state # "none"}

Expired(e, t) == lease[e].state \in {"none", "evicted"} \/ t > lease[e].expires

(* Variant: a lease lapses at its expiry, not after it.                    *)
ExpiredAtExpiry(t) ==
    {e \in LeasedNames : lease[e].state = "evicted" \/ t >= lease[e].expires}

ExpiredAt(t) == {e \in LeasedNames : Expired(e, t)}

Acquire(e) ==
    IF slotOf[e] # NoSlot
    THEN UNCHANGED leaseVars
    ELSE /\ next' = next + 1
         /\ lease' = [lease EXCEPT ![e] =
                        [state |-> "leased", slot |-> next, expires |-> now + Timeout]]
         /\ slotOf' = [slotOf EXCEPT ![e] = next]

(* Variant: the state of the lease is not changed.                         *)
ReclaimedNot(e) == lease

Reclaimed(e) == [lease EXCEPT ![e].state = "evicted", ![e].expires = 0]

Evict(e) ==
    /\ lease' = Reclaimed(e)
    /\ slotOf' = [slotOf EXCEPT ![e] = NoSlot]
    /\ UNCHANGED next

(* Variant: neither the sweep nor Renew looks whether the lease lapsed.    *)
LapsedNever(e, t) == FALSE

Lapsed(e, t) == Expired(e, t)

(* The sweep skips leases that lapsed by its captured time; Renew itself   *)
(* refuses an evicted one.  Only the sweep evicts, so nothing can come     *)
(* between its two calls that changes what they find.                      *)
Renew(e, t) ==
    IF Lapsed(e, t)
    THEN UNCHANGED leaseVars
    ELSE /\ lease' = [lease EXCEPT ![e].state = "leased", ![e].expires = now + Timeout]
         /\ UNCHANGED <<slotOf, next>>

-----------------------------------------------------------------------------
(* The sweep.  It works with the time its ticker sent, which is old when   *)
(* the previous sweep took long: the ticker keeps one value.               *)

SweepStart(t) ==
    /\ spc = "idle"
    /\ asOf < t /\ t <= now
    /\ lastSweep' = now
    /\ late' = (late \/ now > lastSweep + Timeout)
    /\ asOf' = t /\ listed' = next
    /\ todo' = ExpiredAt(t)
    /\ spc' = "evict"
    /\ UNCHANGED <<victim, held>>
    /\ UNCHANGED <<now, leaseVars, tableVars, runnerVars, regVars, dispVars>>

Registering(e) == \E h \in Handlers : hexec[h] = e

(* Evictor.Evict, first call: the lease is reclaimed.                      *)
EvictLease(e) ==
    /\ spc = "evict" /\ e \in todo
    /\ Evict(e)
    /\ victim' = e
    /\ todo' = todo \ {e}
    /\ spc' = "get"
    /\ crossed' = IF Registering(e) THEN crossed \cup {e} ELSE crossed \ {e}
    /\ UNCHANGED <<asOf, held, lastSweep, late, listed, hpc, hexec, regs>>
    /\ UNCHANGED <<now, tableVars, runnerVars, dispVars>>

EvictGet ==
    /\ spc = "get"
    /\ held' = runnerOf[victim]
    /\ spc' = IF runnerOf[victim] = 0 THEN "remove" ELSE "shutdown"
    /\ UNCHANGED <<asOf, todo, victim, lastSweep, late, listed>>
    /\ UNCHANGED <<now, leaseVars, tableVars, runnerVars, regVars, dispVars>>

EvictShutdown ==
    /\ spc = "shutdown"
    /\ IF slot[<<victim, held>>] = "open"
       THEN slot' = [slot EXCEPT ![<<victim, held>>] = "closing"] /\ spc' = "wait"
       ELSE spc' = "remove" /\ UNCHANGED slot
    /\ UNCHANGED <<queued, running, asOf, todo, victim, held, lastSweep, late, listed>>
    /\ UNCHANGED <<now, leaseVars, tableVars, regVars, dispVars>>

(* Variant: Shutdown waits for the queue to be empty as well.              *)
QuietDrained(r) == running[r] = None /\ queued[r] = {}

Quiet(r) == running[r] = None

(* Shutdown returns once nothing is executed; what is still queued is lost *)
(* with the runner.  Wait(3s) then finds r.done closed.                    *)
EvictWaited ==
    /\ spc = "wait" /\ Quiet(<<victim, held>>)
    /\ slot' = [slot EXCEPT ![<<victim, held>>] = "released"]
    /\ queued' = [queued EXCEPT ![<<victim, held>>] = {}]
    /\ spc' = "remove"
    /\ UNCHANGED <<running, asOf, todo, victim, held, lastSweep, late, listed>>
    /\ UNCHANGED <<now, leaseVars, tableVars, regVars, dispVars>>

(* execs.Remove drops whatever runner the table holds by now.              *)
EvictRemove ==
    /\ spc = "remove"
    /\ runnerOf' = [runnerOf EXCEPT ![victim] = 0]
    /\ victim' = None /\ held' = 0
    /\ spc' = "evict"
    /\ UNCHANGED <<made, asOf, todo, lastSweep, late, listed>>
    /\ UNCHANGED <<now, leaseVars, runnerVars, regVars, dispVars>>

RenewList ==
    /\ spc = "evict" /\ todo = {}
    /\ todo' = LeasedNames
    /\ spc' = "renew"
    /\ UNCHANGED <<asOf, victim, held, lastSweep, late, listed>>
    /\ UNCHANGED <<now, leaseVars, tableVars, runnerVars, regVars, dispVars>>

RenewOne(e) ==
    /\ spc = "renew" /\ e \in todo
    /\ Renew(e, asOf)
    /\ todo' = todo \ {e}
    /\ UNCHANGED <<spc, asOf, victim, held, lastSweep, late, listed>>
    /\ UNCHANGED <<now, tableVars, runnerVars, regVars, dispVars>>

SweepEnd ==
    /\ spc = "renew" /\ todo = {}
    /\ spc' = "idle"
    /\ UNCHANGED <<asOf, todo, victim, held, lastSweep, late, listed>>
    /\ UNCHANGED <<now, leaseVars, tableVars, runnerVars, regVars, dispVars>>

-----------------------------------------------------------------------------
(* handleExecutor: execs.Add, then leases.Acquire.                         *)

(* The runner that is there, whatever its state, or a new one.             *)
AddRunner(e) ==
    IF runnerOf[e] # 0
    THEN UNCHANGED <<tableVars, slot>>
    ELSE /\ made' = [made EXCEPT ![e] = @ + 1]
         /\ runnerOf' = [runnerOf EXCEPT ![e] = made'[e]]
         /\ slot' = [slot EXCEPT ![<<e, made'[e]>>] = "open"]

Add(h, e) ==
    /\ hpc[h] = "idle" /\ regs[e] < MaxRegs
    /\ regs' = [regs EXCEPT ![e] = @ + 1]
    /\ AddRunner(e)
    /\ hpc' = [hpc EXCEPT ![h] = "acquire"]
    /\ hexec' = [hexec EXCEPT ![h] = e]
    /\ crossed' = IF victim = e THEN crossed \cup {e} ELSE crossed \ {e}
    /\ UNCHANGED <<queued, running, now, leaseVars, sweepVars, dispVars>>

Granted(h) ==
    /\ hpc[h] = "acquire"
    /\ Acquire(hexec[h])
    /\ hpc' = [hpc EXCEPT ![h] = "idle"]
    /\ hexec' = [hexec EXCEPT ![h] = None]
    /\ UNCHANGED <<regs, crossed, now, tableVars, runnerVars, sweepVars, dispVars>>

-----------------------------------------------------------------------------
(* Tick: the first of leases.Executors(), in map order, takes the whole    *)
(* batch; each job goes through execs.Get and the runner's Enqueue.  A job *)
(* that finds no runner or a closed one is not handed off.                 *)

Pick(e, j) ==
    /\ dpc = "idle" /\ j \in fresh
    /\ e \in LeasedNames
    /\ dexec' = e /\ djob' = j
    /\ fresh' = fresh \ {j}
    /\ dpc' = "get"
    /\ UNCHANGED dheld
    /\ UNCHANGED <<now, leaseVars, tableVars, runnerVars, sweepVars, regVars>>

PickNext(j) ==
    /\ dpc = "batch" /\ j \in fresh
    /\ djob' = j
    /\ fresh' = fresh \ {j}
    /\ dpc' = "get"
    /\ UNCHANGED <<dexec, dheld>>
    /\ UNCHANGED <<now, leaseVars, tableVars, runnerVars, sweepVars, regVars>>

BatchEnd ==
    /\ dpc = "batch"
    /\ dpc' = "idle" /\ dexec' = None /\ djob' = None /\ dheld' = 0
    /\ UNCHANGED fresh
    /\ UNCHANGED <<now, leaseVars, tableVars, runnerVars, sweepVars, regVars>>

(* Variant: the lookup's second result is ignored.                         *)
MissingNever(e) == FALSE

Missing(e) == runnerOf[e] = 0

DispatchGet ==
    /\ dpc = "get"
    /\ dheld' = runnerOf[dexec]
    /\ dpc' = IF Missing(dexec) THEN "batch" ELSE "enqueue"
    /\ UNCHANGED <<dexec, djob, fresh>>
    /\ UNCHANGED <<now, leaseVars, tableVars, runnerVars, sweepVars, regVars>>

(* Enqueue under the runner's lock: an open runner accepts, refuses a      *)
(* duplicate, or has no room; a closed one refuses.                        *)
DispatchEnqueue ==
    LET r == <<dexec, dheld>> IN
    /\ dpc = "enqueue"
    /\ \/ /\ slot[r] = "open"
          /\ queued' = [queued EXCEPT ![r] = @ \cup {djob}]
          /\ dpc' = "batch"
       \/ slot[r] = "open" /\ dpc' = "send" /\ UNCHANGED queued
       \/ dpc' = "batch" /\ UNCHANGED queued
    /\ UNCHANGED <<slot, running, dexec, dheld, djob, fresh>>
    /\ UNCHANGED <<now, leaseVars, tableVars, sweepVars, regVars>>

(* Its wait for room, without the lock: by the time the send succeeds or   *)
(* is given up, the runner may be closing or released.                     *)
DispatchSend ==
    LET r == <<dexec, dheld>> IN
    /\ dpc = "send"
    /\ queued' = [queued EXCEPT ![r] = @ \cup {djob}] \/ UNCHANGED queued
    /\ dpc' = "batch"
    /\ UNCHANGED <<slot, running, dexec, dheld, djob, fresh>>
    /\ UNCHANGED <<now, leaseVars, tableVars, sweepVars, regVars>>

StartJob(r, j) ==
    /\ slot[r] = "open" /\ running[r] = None
    /\ j \in queued[r]
    /\ queued' = [queued EXCEPT ![r] = @ \ {j}]
    /\ running' = [running EXCEPT ![r] = j]
    /\ UNCHANGED <<slot, now, leaseVars, tableVars, sweepVars, regVars, dispVars>>

FinishJob(r) ==
    /\ running[r] # None
    /\ running' = [running EXCEPT ![r] = None]
    /\ UNCHANGED <<slot, queued>>
    /\ UNCHANGED <<now, leaseVars, tableVars, sweepVars, regVars, dispVars>>

-----------------------------------------------------------------------------
SweepStep ==
    \/ \E e \in Exec : EvictLease(e) \/ RenewOne(e)
    \/ EvictGet \/ EvictShutdown \/ EvictWaited \/ EvictRemove
    \/ RenewList \/ SweepEnd

DispatchStep == DispatchGet \/ DispatchEnqueue \/ DispatchSend \/ BatchEnd

RunnerStep(r) == FinishJob(r) \/ \E j \in Job : StartJob(r, j)

Next ==
    \/ Tick
    \/ \E t \in 1 .. MaxTime : SweepStart(t)
    \/ SweepStep
    \/ \E h \in Handlers, e \in Exec : Add(h, e)
    \/ \E h \in Handlers : Granted(h)
    \/ \E e \in Exec, j \in Job : Pick(e, j)
    \/ \E j \in Job : PickNext(j)
    \/ DispatchStep
    \/ \E r \in Runners : RunnerStep(r)

Spec == Init /\ [][Next]_vars

(* A sweep that has begun goes on, handlers return, and every goroutine    *)
(* with a step to take is scheduled; nothing makes time pass, a client     *)
(* register or a job be published.                                         *)
Fairness ==
    /\ WF_vars(SweepStep)
    /\ \A h \in Handlers : WF_vars(Granted(h))
    /\ \A r \in Runners : WF_vars(RunnerStep(r))
    /\ WF_vars(DispatchStep)

FairSpec == Spec /\ Fairness

-----------------------------------------------------------------------------
LeaseType ==
    /\ now \in Nat /\ next \in Nat
    /\ lease \in [Exec -> [state : {"none", "leased", "evicted"},
                           slot : Int, expires : Nat]]
    /\ slotOf \in [Exec -> Int]

TableType ==
    /\ runnerOf \in [Exec -> 0 .. MaxRegs] /\ made \in [Exec -> 0 .. MaxRegs]
    /\ regs \in [Exec -> 0 .. MaxRegs]
    /\ \A e \in Exec : runnerOf[e] <= made[e] /\ made[e] <= regs[e]

RunnerType ==
    /\ slot \in [Runners -> {"none", "open", "closing", "released"}]
    /\ queued \in [Runners -> SUBSET Job]
    /\ running \in [Runners -> Job \cup {None}]

Evicting == spc \in {"get", "shutdown", "wait", "remove"}

SweepType ==
    /\ spc \in {"idle", "evict", "get", "shutdown", "wait", "remove", "renew"}
    /\ asOf \in Nat /\ lastSweep \in Nat /\ late \in BOOLEAN /\ listed \in Nat
    /\ todo \subseteq Exec /\ (spc = "idle" => todo = {})
    /\ victim \in IF Evicting THEN Exec ELSE {None}
    /\ held \in 0 .. MaxRegs
    /\ spc \in {"shutdown", "wait"} => held # 0

HandlerType ==
    /\ hpc \in [Handlers -> {"idle", "acquire"}]
    /\ hexec \in [Handlers -> Exec \cup {None}] /\ crossed \subseteq Exec
    /\ \A h \in Handlers : hpc[h] = "acquire" <=> hexec[h] # None

DispatchType ==
    /\ dpc \in {"idle", "get", "enqueue", "send", "batch"} /\ fresh \subseteq Job
    /\ dexec \in IF dpc = "idle" THEN {None} ELSE Exec
    /\ djob \in IF dpc = "idle" THEN {None} ELSE Job
    /\ dheld \in 0 .. MaxRegs /\ (dpc \in {"enqueue", "send"} => dheld # 0)

(* Type invariant.                                                         *)
TypeOK ==
    /\ LeaseType /\ TableType /\ RunnerType
    /\ SweepType /\ HandlerType /\ DispatchType

(* The two maps of the lease table agree, and no slot number is held by    *)
(* two executors, whatever the order of acquires, evictions and renewals.  *)
LeaseTable ==
    /\ \A e \in Exec : lease[e].state = "leased" <=> slotOf[e] # NoSlot
    /\ \A e \in Exec : slotOf[e] # NoSlot => slotOf[e] = lease[e].slot
    /\ \A e, f \in Exec : slotOf[e] = slotOf[f] /\ slotOf[e] # NoSlot => e = f
    /\ \A e \in Exec : lease[e].slot < next

(* "a reclaimed slot can never be revived" (lease.go:52-53): a lease that  *)
(* was evicted is leased again only by a new acquire, with a number never  *)
(* given before.                                                           *)
NoRevival ==
    [][\A e \in Exec : lease[e].state = "evicted" /\ lease'[e].state # "evicted" =>
          \A f \in Exec : lease'[e].slot > lease[f].slot]_vars

(* The sweep that reclaims leases never takes away one that the heartbeat  *)
(* kept alive: while sweeps start at most Timeout apart, no lease lapses,  *)
(* although renewals happen one by one while time passes and new executors *)
(* join in the middle of a sweep.                                          *)
LeaseKept == ~late => \A e \in Exec : lease[e].state # "evicted"

(* Apart from registrations and evictions under way: the runner that an    *)
(* executor has accepts work and comes with a lease, however often it was  *)
(* evicted and came back; and a lease comes with a runner, unless the last *)
(* eviction crossed a registration, which can keep the new lease and drop  *)
(* the runner until the executor registers again.                          *)
LeaseHasRunner ==
    \A e \in Exec : e # victim /\ ~Registering(e) =>
        /\ runnerOf[e] # 0 =>
              lease[e].state = "leased" /\ slot[<<e, runnerOf[e]>>] = "open"
        /\ lease[e].state = "leased" /\ e \notin crossed => runnerOf[e] # 0

(* Evict "waits for the runner's in-flight task to finish before releasing *)
(* the slot" (evictor.go:29-30): a runner leaves the table only when it    *)
(* runs nothing.                                                           *)
RemovedIdle ==
    [][\A e \in Exec :
          runnerOf[e] # 0 /\ runnerOf'[e] # runnerOf[e] =>
              running[<<e, runnerOf[e]>>] = None]_vars

(* "Evictor reclaims a stale executor lease" (evictor.go:13): whatever     *)
(* happened since the sweep listed it, the lease an eviction takes away    *)
(* has lapsed, or was acquired since the listing by an executor that came  *)
(* back; no lease the sweep has seen alive is taken.                       *)
OnlyStaleEvicted ==
    [][\A e \in Exec :
          lease[e].state = "leased" /\ lease'[e].state = "evicted" =>
              now > lease[e].expires \/ lease[e].slot >= listed]_vars

(* An eviction that has begun ends: the sweep waits for the handler of the *)
(* runner, not for registrations or dispatches that go on meanwhile.       *)
EvictionCompletes == \A e \in Exec : victim = e ~> victim # e
=============================================================================
