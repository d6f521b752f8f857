-------------------------- MODULE MembershipProofs --------------------------
(***************************************************************************)
(* Proofs about Membership for any number of executors, jobs, handlers and *)
(* registrations, and any lease timeout.                                   *)
(***************************************************************************)
EXTENDS Membership, TLAPS

(* Only executors with a lease, or one that was evicted, are walked; the   *)
(* sweep's captured time is not ahead of its start, nor that of the clock. *)
Listed ==
    /\ \A e \in todo : lease[e].state # "none"
    /\ lastSweep <= now /\ asOf <= lastSweep

(* While sweeps are in time, every lease outlives the next one: it was     *)
(* renewed by the last sweep, or that sweep has still to come to it.       *)
Timely ==
    ~late =>
        /\ LeaseKept /\ ~Evicting
        /\ spc = "evict" => todo = {}
        /\ \A e \in Exec : lease[e].state = "leased" =>
              \/ lease[e].expires >= lastSweep + Timeout
              \/ /\ lease[e].expires >= asOf
                 /\ spc = "evict" \/ (spc = "renew" /\ e \in todo)

(* The executor has a runner that was not shut down.                       *)
HasOpenRunner(e) == runnerOf[e] # 0 /\ slot[<<e, runnerOf[e]>>] = "open"

(* The handler adds the runner before the lease, and the eviction takes    *)
(* the lease before the runner: a runner in the table is shut down only    *)
(* by the eviction under way, and a registration keeps the runner it found *)
(* or made unless an eviction overlaps it.                                 *)
Paired ==
    /\ \A e \in Exec : e # victim /\ runnerOf[e] # 0 => slot[<<e, runnerOf[e]>>] = "open"
    /\ \A e \in Exec \ crossed : Registering(e) => HasOpenRunner(e)
    /\ Evicting /\ victim \notin crossed =>
          lease[victim].state = "evicted" /\ ~Registering(victim)
    /\ LeaseHasRunner

(* What the sweep has still to evict has lapsed or came after its listing. *)
Stale ==
    /\ listed <= next
    /\ spc = "evict" \/ Evicting =>
          \A e \in todo : lease[e].state = "leased" =>
              now > lease[e].expires \/ lease[e].slot >= listed

(* The conjunction is inductive.                                           *)
IInv == TypeOK /\ LeaseTable /\ Listed /\ Timely /\ Paired /\ Stale

-----------------------------------------------------------------------------
(* Nothing is registered at the start.                                     *)
LEMMA InitInvariant == Init => IInv
<1> SUFFICES ASSUME Init PROVE IInv
  OBVIOUS
<1> USE RegsAssumption, TimeAssumption DEF Init
<1>1. LeaseType
  BY DEF LeaseType, NoSlot
<1>2. TableType /\ RunnerType
  BY DEF TableType, RunnerType
<1>3. SweepType /\ HandlerType /\ DispatchType
  <2>1. SweepType
    <3>1. late \in BOOLEAN
      BY Zenon
    <3>2. spc = "idle" /\ asOf = 0 /\ lastSweep = 0 /\ listed = 0 /\ todo = {} /\ victim = None /\ held = 0
      OBVIOUS
    <3> HIDE DEF Init
    <3> QED
      BY <3>1, <3>2 DEF SweepType, Evicting
  <2>2. HandlerType
    BY DEF HandlerType
  <2>3. DispatchType
    BY DEF DispatchType
  <2> QED
    BY <2>1, <2>2, <2>3
<1>4. LeaseTable /\ Listed
  BY DEF LeaseTable, Listed, NoSlot
<1>5. Timely /\ Stale
  BY DEF Timely, Stale, LeaseKept, Evicting
<1>6. Paired
  <2>1. ~Evicting /\ victim = None
    BY DEF Evicting
  <2>2. \A e \in Exec : ~Registering(e)
    BY NoneAssumption DEF Registering
  <2>3. \A e \in Exec : runnerOf[e] = 0 /\ lease[e].state = "none"
    OBVIOUS
  <2> HIDE DEF Init
  <2> QED
    BY <2>1, <2>2, <2>3 DEF Paired, LeaseHasRunner
<1> QED
  BY <1>1, <1>2, <1>3, <1>4, <1>5, <1>6 DEF IInv, TypeOK

(* A group of variables that a step leaves alone keeps its types.          *)
LEMMA Frame ==
  ASSUME TypeOK
  PROVE  /\ UNCHANGED <<now, leaseVars>> => LeaseType'
         /\ UNCHANGED <<tableVars, regVars>> => TableType'
         /\ UNCHANGED runnerVars => RunnerType'
         /\ UNCHANGED sweepVars => SweepType'
         /\ UNCHANGED regVars => HandlerType'
         /\ UNCHANGED dispVars => DispatchType'
BY DEF TypeOK, LeaseType, TableType, RunnerType, SweepType, HandlerType, DispatchType,
   Evicting, leaseVars, tableVars, runnerVars, sweepVars, regVars, dispVars

(* What an eviction leaves of the lease table.                             *)
LEMMA Reclaiming ==
  ASSUME LeaseType, NEW e \in Exec, lease' = Reclaimed(e)
  PROVE  /\ lease' \in [Exec -> [state : {"none", "leased", "evicted"}, slot : Int, expires : Nat]]
         /\ lease'[e].state = "evicted" /\ lease'[e].slot = lease[e].slot
         /\ \A f \in Exec : f # e => lease'[f] = lease[f]
BY DEF LeaseType, Reclaimed

(* What a renewal leaves of it.                                            *)
LEMMA Renewing ==
  ASSUME LeaseType, NEW e \in Exec, NEW t \in Nat, Renew(e, t), ~Lapsed(e, t)
  PROVE  /\ lease' \in [Exec -> [state : {"none", "leased", "evicted"}, slot : Int, expires : Nat]]
         /\ lease'[e].state = "leased" /\ lease'[e].slot = lease[e].slot
         /\ lease'[e].expires = now + Timeout
         /\ \A f \in Exec : f # e => lease'[f] = lease[f]
         /\ lease[e].state = "leased" /\ t <= lease[e].expires
         /\ UNCHANGED <<slotOf, next>>
BY TimeAssumption DEF LeaseType, Renew, Lapsed, Expired

(* What a new lease adds to it.                                            *)
LEMMA Acquiring ==
  ASSUME LeaseType, NEW e \in Exec, Acquire(e), slotOf[e] = NoSlot
  PROVE  /\ lease' \in [Exec -> [state : {"none", "leased", "evicted"}, slot : Int, expires : Nat]]
         /\ lease'[e].state = "leased" /\ lease'[e].slot = next
         /\ lease'[e].expires = now + Timeout
         /\ \A f \in Exec : f # e => lease'[f] = lease[f]
         /\ slotOf' = [slotOf EXCEPT ![e] = next] /\ next' = next + 1
BY TimeAssumption DEF LeaseType, Acquire

(* Every step keeps the types.                                             *)
LEMMA TypeStep == TypeOK /\ [Next]_vars => TypeOK'
<1> SUFFICES ASSUME TypeOK, [Next]_vars PROVE TypeOK'
  OBVIOUS
<1> USE RegsAssumption, TimeAssumption, NoneAssumption
<1>0. /\ LeaseType /\ TableType /\ RunnerType
      /\ SweepType /\ HandlerType /\ DispatchType
  BY DEF TypeOK
<1>1. CASE UNCHANGED vars
  BY <1>1, Frame DEF vars, TypeOK
<1>2. CASE Tick
  <2>1. LeaseType'
    BY <1>0, <1>2 DEF Tick, LeaseType, leaseVars
  <2> QED
    BY <1>2, <2>1, Frame DEF Tick, TypeOK
<1>3. ASSUME NEW t \in 1 .. MaxTime, SweepStart(t) PROVE TypeOK'
  <2>1. late' \in BOOLEAN
    <3>1. CASE now > lastSweep + Timeout
      <4>1. late' = TRUE
        BY <1>3, <3>1, Zenon DEF SweepStart
      <4> QED
        BY <4>1, Zenon
    <3>2. CASE ~(now > lastSweep + Timeout)
      <4>1. late' = late
        BY <1>0, <1>3, <3>2, Zenon DEF SweepStart, SweepType
      <4> QED
        BY <1>0, <4>1, Zenon DEF SweepType
    <3> QED
      BY <3>1, <3>2
  <2>2. asOf' \in Nat /\ lastSweep' \in Nat /\ listed' \in Nat
    BY <1>0, <1>3 DEF SweepStart, LeaseType
  <2>3. spc = "idle" /\ spc' = "evict" /\ UNCHANGED <<victim, held>> /\ todo' \subseteq Exec
    BY <1>3 DEF SweepStart, ExpiredAt, LeasedNames
  <2>4. SweepType'
    BY <1>0, <2>1, <2>2, <2>3 DEF SweepType, Evicting
  <2> QED
    BY <1>3, <2>4, Frame DEF SweepStart, TypeOK
<1>4. ASSUME NEW e \in Exec, EvictLease(e) PROVE TypeOK'
  <2>1. LeaseType'
    BY <1>0, <1>4, Reclaiming DEF EvictLease, Evict, LeaseType, NoSlot
  <2>2. SweepType'
    BY <1>0, <1>4 DEF EvictLease, SweepType, Evicting
  <2>3. HandlerType'
    <3>1. crossed' = crossed \cup {e} \/ crossed' = crossed \ {e}
      BY <1>4 DEF EvictLease
    <3> QED
      BY <1>0, <1>4, <3>1 DEF EvictLease, HandlerType
  <2>4. TableType'
    BY <1>0, <1>4 DEF EvictLease, TableType, tableVars
  <2> QED
    BY <1>4, <2>1, <2>2, <2>3, <2>4, Frame DEF EvictLease, TypeOK
<1>5. CASE EvictGet
  <2>1. SweepType'
    BY <1>0, <1>5 DEF EvictGet, SweepType, TableType, Evicting
  <2> QED
    BY <1>5, <2>1, Frame DEF EvictGet, TypeOK
<1>6. CASE EvictShutdown
  <2>1. SweepType' /\ <<victim, held>> \in Runners
    BY <1>0, <1>6 DEF EvictShutdown, SweepType, Evicting, Runners
  <2>2. RunnerType'
    BY <1>0, <1>6, <2>1 DEF EvictShutdown, RunnerType
  <2> QED
    BY <1>6, <2>1, <2>2, Frame DEF EvictShutdown, TypeOK
<1>7. CASE EvictWaited
  <2>1. SweepType' /\ <<victim, held>> \in Runners
    BY <1>0, <1>7 DEF EvictWaited, SweepType, Evicting, Runners
  <2>2. RunnerType'
    BY <1>0, <1>7, <2>1 DEF EvictWaited, RunnerType
  <2> QED
    BY <1>7, <2>1, <2>2, Frame DEF EvictWaited, TypeOK
<1>8. CASE EvictRemove
  <2>1. SweepType' /\ victim \in Exec
    BY <1>0, <1>8 DEF EvictRemove, SweepType, Evicting
  <2>2. TableType'
    BY <1>0, <1>8, <2>1 DEF EvictRemove, TableType, regVars
  <2> QED
    BY <1>8, <2>1, <2>2, Frame DEF EvictRemove, TypeOK
<1>9. CASE RenewList
  <2>1. SweepType'
    BY <1>0, <1>9 DEF RenewList, SweepType, Evicting, LeasedNames
  <2> QED
    BY <1>9, <2>1, Frame DEF RenewList, TypeOK
<1>10. ASSUME NEW e \in Exec, RenewOne(e) PROVE TypeOK'
  <2>1. LeaseType'
    BY <1>0, <1>10 DEF RenewOne, Renew, LeaseType, leaseVars
  <2>2. SweepType'
    BY <1>0, <1>10 DEF RenewOne, SweepType, Evicting
  <2> QED
    BY <1>10, <2>1, <2>2, Frame DEF RenewOne, TypeOK
<1>11. CASE SweepEnd
  <2>1. SweepType'
    BY <1>0, <1>11 DEF SweepEnd, SweepType, Evicting
  <2> QED
    BY <1>11, <2>1, Frame DEF SweepEnd, TypeOK
<1>12. ASSUME NEW h \in Handlers, NEW e \in Exec, Add(h, e) PROVE TypeOK'
  <2>1. regs' = [regs EXCEPT ![e] = @ + 1] /\ regs[e] < MaxRegs
    BY <1>12 DEF Add
  <2>2. TableType' /\ slot' \in [Runners -> {"none", "open", "closing", "released"}]
    <3>1. CASE runnerOf[e] # 0
      BY <1>0, <1>12, <2>1, <3>1 DEF Add, AddRunner, TableType, RunnerType, tableVars
    <3>2. CASE runnerOf[e] = 0
      <4>1. /\ made' = [made EXCEPT ![e] = made[e] + 1]
            /\ runnerOf' = [runnerOf EXCEPT ![e] = made[e] + 1]
            /\ slot' = [slot EXCEPT ![<<e, made[e] + 1>>] = "open"]
        BY <1>0, <1>12, <3>2 DEF Add, AddRunner, TableType
      <4>2. made[e] + 1 \in 1 .. MaxRegs
        BY <1>0, <2>1 DEF TableType
      <4>3. TableType'
        BY <1>0, <2>1, <4>1, <4>2 DEF TableType
      <4> QED
        BY <1>0, <4>1, <4>2, <4>3 DEF RunnerType
    <3> QED
      BY <3>1, <3>2
  <2>3. RunnerType' /\ HandlerType'
    BY <1>0, <1>12, <2>2 DEF Add, RunnerType, HandlerType
  <2> QED
    BY <1>12, <2>2, <2>3, Frame DEF Add, TypeOK
<1>13. ASSUME NEW h \in Handlers, Granted(h) PROVE TypeOK'
  <2>1. hexec[h] \in Exec /\ HandlerType'
    BY <1>0, <1>13 DEF Granted, HandlerType
  <2>2. LeaseType'
    BY <1>0, <1>13, <2>1 DEF Granted, Acquire, LeaseType, leaseVars
  <2>3. TableType'
    BY <1>0, <1>13 DEF Granted, TableType, tableVars
  <2> QED
    BY <1>13, <2>1, <2>2, <2>3, Frame DEF Granted, TypeOK
<1>14. ASSUME NEW j \in Job, (\E e \in Exec : Pick(e, j)) \/ PickNext(j) PROVE TypeOK'
  <2>1. DispatchType'
    BY <1>0, <1>14 DEF Pick, PickNext, DispatchType
  <2> QED
    BY <1>14, <2>1, Frame DEF Pick, PickNext, TypeOK
<1>15. CASE DispatchGet \/ BatchEnd
  <2>1. DispatchType'
    BY <1>0, <1>15 DEF DispatchGet, BatchEnd, Missing, DispatchType, TableType
  <2> QED
    BY <1>15, <2>1, Frame DEF DispatchGet, BatchEnd, TypeOK
<1>16. CASE DispatchEnqueue \/ DispatchSend
  <2>1. DispatchType' /\ djob \in Job /\ <<dexec, dheld>> \in Runners
    BY <1>0, <1>16 DEF DispatchEnqueue, DispatchSend, DispatchType, Runners
  <2>2. RunnerType'
    BY <1>0, <1>16, <2>1 DEF DispatchEnqueue, DispatchSend, RunnerType
  <2> QED
    BY <1>16, <2>1, <2>2, Frame DEF DispatchEnqueue, DispatchSend, TypeOK
<1>17. ASSUME NEW r \in Runners, RunnerStep(r) PROVE TypeOK'
  <2>1. RunnerType'
    BY <1>0, <1>17 DEF RunnerStep, StartJob, FinishJob, RunnerType
  <2> QED
    BY <1>17, <2>1, Frame DEF RunnerStep, StartJob, FinishJob, TypeOK
<1> QED
  BY <1>1, <1>2, <1>3, <1>4, <1>5, <1>6, <1>7, <1>8, <1>9, <1>10, <1>11, <1>12, <1>13,
     <1>14, <1>15, <1>16, <1>17 DEF Next, SweepStep, DispatchStep

-----------------------------------------------------------------------------
(* The steps that touch a lease, a runner's state or the sweep; the others *)
(* leave all of that as it is.                                             *)
LEMMA StepCases ==
  [Next]_vars =>
      \/ /\ UNCHANGED <<leaseVars, tableVars, slot, sweepVars, regVars>>
         /\ now' = now \/ now' = now + 1
      \/ \E t \in 1 .. MaxTime : SweepStart(t)
      \/ SweepStep
      \/ \E h \in Handlers, e \in Exec : Add(h, e)
      \/ \E h \in Handlers : Granted(h)
BY DEF Next, vars, Tick, Pick, PickNext, DispatchStep, DispatchGet, DispatchEnqueue, DispatchSend,
   BatchEnd, RunnerStep, StartJob, FinishJob, runnerVars

(* Acquires, evictions and renewals keep the two maps in agreement.        *)
LEMMA LeaseTableStep == TypeOK /\ LeaseTable /\ [Next]_vars => LeaseTable'
<1> SUFFICES ASSUME TypeOK, LeaseTable, [Next]_vars PROVE LeaseTable'
  OBVIOUS
<1>0. LeaseType /\ SweepType /\ HandlerType
  BY DEF TypeOK
<1>1. ASSUME UNCHANGED leaseVars PROVE LeaseTable'
  BY <1>1 DEF LeaseTable, leaseVars
<1>2. ASSUME NEW e \in Exec, EvictLease(e) PROVE LeaseTable'
  <2>1. lease' = Reclaimed(e) /\ slotOf' = [slotOf EXCEPT ![e] = NoSlot] /\ next' = next
    BY <1>2 DEF EvictLease, Evict
  <2> QED
    BY <1>0, <2>1, Reclaiming DEF LeaseTable, LeaseType
<1>3. ASSUME NEW e \in Exec, RenewOne(e) PROVE LeaseTable'
  <2>1. CASE Lapsed(e, asOf)
    BY <1>1, <1>3, <2>1 DEF RenewOne, Renew
  <2>2. CASE ~Lapsed(e, asOf)
    <3>1. Renew(e, asOf) /\ asOf \in Nat
      BY <1>0, <1>3 DEF RenewOne, SweepType
    <3> QED
      BY <1>0, <2>2, <3>1, Renewing DEF LeaseTable, LeaseType
  <2> QED
    BY <2>1, <2>2
<1>4. ASSUME NEW h \in Handlers, Granted(h) PROVE LeaseTable'
  <2>1. hexec[h] \in Exec /\ Acquire(hexec[h])
    BY <1>0, <1>4 DEF Granted, HandlerType
  <2>2. CASE slotOf[hexec[h]] # NoSlot
    BY <1>1, <2>1, <2>2 DEF Acquire
  <2>3. CASE slotOf[hexec[h]] = NoSlot
    BY <1>0, <2>1, <2>3, Acquiring DEF LeaseTable, LeaseType, NoSlot
  <2> QED
    BY <2>2, <2>3
<1> QED
  BY <1>1, <1>2, <1>3, <1>4, StepCases DEF SweepStep, SweepStart, EvictGet, EvictShutdown,
     EvictWaited, EvictRemove, RenewList, SweepEnd, Add

(* What is walked stays listed: no lease is ever forgotten.                *)
LEMMA ListedStep == TypeOK /\ Listed /\ [Next]_vars => Listed'
<1> SUFFICES ASSUME TypeOK, Listed, [Next]_vars PROVE Listed'
  OBVIOUS
<1>0. LeaseType /\ SweepType /\ HandlerType
  BY DEF TypeOK
<1>1. ASSUME \A e \in Exec : lease[e].state # "none" => lease'[e].state # "none",
             todo' \subseteq todo,
             UNCHANGED <<asOf, lastSweep>>, now' = now \/ now' = now + 1
      PROVE  Listed'
  BY <1>0, <1>1 DEF Listed, LeaseType, SweepType
<1>2. ASSUME NEW t \in 1 .. MaxTime, SweepStart(t) PROVE Listed'
  BY <1>0, <1>2 DEF SweepStart, Listed, ExpiredAt, LeasedNames, LeaseType, leaseVars
<1>3. ASSUME NEW e \in Exec, EvictLease(e) PROVE Listed'
  <2>1. \A f \in Exec : lease[f].state # "none" => lease'[f].state # "none"
    BY <1>0, <1>3, Reclaiming DEF EvictLease, Evict
  <2> QED
    BY <1>1, <1>3, <2>1 DEF EvictLease
<1>4. ASSUME NEW e \in Exec, RenewOne(e) PROVE Listed'
  <2>1. Renew(e, asOf) /\ asOf \in Nat
    BY <1>0, <1>4 DEF RenewOne, SweepType
  <2>2. \A f \in Exec : lease[f].state # "none" => lease'[f].state # "none"
    BY <1>0, <2>1, Renewing DEF Renew, leaseVars
  <2> QED
    BY <1>1, <1>4, <2>2 DEF RenewOne
<1>5. ASSUME NEW h \in Handlers, Granted(h) PROVE Listed'
  <2>1. hexec[h] \in Exec /\ Acquire(hexec[h])
    BY <1>0, <1>5 DEF Granted, HandlerType
  <2>2. \A f \in Exec : lease[f].state # "none" => lease'[f].state # "none"
    BY <1>0, <2>1, Acquiring DEF Acquire, leaseVars
  <2> QED
    BY <1>1, <1>5, <2>2 DEF Granted, sweepVars
<1>6. CASE RenewList
  BY <1>0, <1>6 DEF RenewList, Listed, LeasedNames, LeaseType, leaseVars
<1>7. CASE EvictGet \/ EvictShutdown \/ EvictWaited \/ EvictRemove \/ SweepEnd
  BY <1>1, <1>7 DEF EvictGet, EvictShutdown, EvictWaited, EvictRemove, SweepEnd, leaseVars
<1>8. ASSUME NEW h \in Handlers, NEW e \in Exec, Add(h, e) PROVE Listed'
  BY <1>1, <1>8 DEF Add, leaseVars, sweepVars
<1>9. ASSUME UNCHANGED <<leaseVars, sweepVars>>, now' = now \/ now' = now + 1 PROVE Listed'
  BY <1>1, <1>9 DEF leaseVars, sweepVars
<1> QED
  BY <1>2, <1>3, <1>4, <1>5, <1>6, <1>7, <1>8, <1>9, StepCases DEF SweepStep

(* Sweeps in time keep every lease ahead of the next sweep.                *)
LEMMA TimelyStep == TypeOK /\ LeaseTable /\ Listed /\ Timely /\ [Next]_vars => Timely'
<1> SUFFICES ASSUME TypeOK, LeaseTable, Listed, Timely, [Next]_vars, ~late' PROVE Timely'
  BY DEF Timely
<1> USE TimeAssumption
<1>0. /\ LeaseType /\ SweepType /\ HandlerType
      /\ now \in Nat /\ asOf \in Nat /\ lastSweep \in Nat
      /\ \A e \in Exec : lease[e].expires \in Nat
                       /\ lease[e].state \in {"none", "leased", "evicted"}
  BY DEF TypeOK, LeaseType, SweepType
<1>1. ASSUME UNCHANGED <<lease, sweepVars>> PROVE Timely'
  BY <1>1 DEF Timely, LeaseKept, Evicting, sweepVars
<1>2. ASSUME NEW t \in 1 .. MaxTime, SweepStart(t) PROVE Timely'
  <2>4. ~late /\ ~(now > lastSweep + Timeout)
    BY <1>2, Zenon DEF SweepStart
  <2>1. /\ ~late /\ now <= lastSweep + Timeout /\ spc = "idle" /\ t <= now
        /\ lease' = lease /\ asOf' = t /\ lastSweep' = now /\ spc' = "evict"
        /\ todo' = ExpiredAt(t)
    BY <1>0, <1>2, <2>4 DEF SweepStart, leaseVars
  <2>2. \A e \in Exec : lease[e].state # "evicted"
                    /\ (lease[e].state = "leased" => lease[e].expires >= t)
    BY <1>0, <2>1 DEF Timely, LeaseKept
  <2>3. todo' = {}
    BY <1>0, <2>1, <2>2 DEF ExpiredAt, Expired, LeasedNames
  <2> QED
    BY <2>1, <2>2, <2>3 DEF Timely, LeaseKept, Evicting
<1>3. ASSUME NEW e \in Exec, RenewOne(e) PROVE Timely'
  <2>1. /\ ~late /\ spc = "renew" /\ e \in todo /\ todo' = todo \ {e} /\ Renew(e, asOf)
        /\ UNCHANGED <<spc, asOf, lastSweep, late>>
    BY <1>3 DEF RenewOne
  <2>2. lease[e].state = "leased" /\ lease[e].expires >= asOf
    BY <1>0, <2>1 DEF Timely, LeaseKept, Listed
  <2>3. ~Lapsed(e, asOf)
    BY <1>0, <2>2 DEF Lapsed, Expired
  <2>4. /\ lease'[e].state = "leased" /\ lease'[e].expires = now + Timeout
        /\ \A f \in Exec : f # e => lease'[f] = lease[f]
    BY <1>0, <2>1, <2>3, Renewing
  <2>5. lease'[e].expires >= lastSweep + Timeout
    BY <1>0, <2>4 DEF Listed
  <2> QED
    BY <2>1, <2>4, <2>5 DEF Timely, LeaseKept, Evicting
<1>4. ASSUME NEW h \in Handlers, Granted(h) PROVE Timely'
  <2>1. /\ hexec[h] \in Exec /\ Acquire(hexec[h]) /\ ~late
        /\ UNCHANGED <<spc, asOf, todo, lastSweep, late>>
    BY <1>0, <1>4 DEF Granted, HandlerType, sweepVars
  <2>2. CASE slotOf[hexec[h]] # NoSlot
    BY <1>1, <1>4, <2>1, <2>2 DEF Acquire, Granted, leaseVars
  <2>3. CASE slotOf[hexec[h]] = NoSlot
    <3>1. /\ lease'[hexec[h]].state = "leased" /\ lease'[hexec[h]].expires = now + Timeout
          /\ \A f \in Exec : f # hexec[h] => lease'[f] = lease[f]
      BY <1>0, <2>1, <2>3, Acquiring
    <3>2. lease'[hexec[h]].expires >= lastSweep + Timeout
      BY <1>0, <3>1 DEF Listed
    <3> QED
      BY <2>1, <3>1, <3>2 DEF Timely, LeaseKept, Evicting
  <2> QED
    BY <2>2, <2>3
<1>5. CASE RenewList
  BY <1>0, <1>5 DEF RenewList, Timely, LeaseKept, Evicting, LeasedNames, leaseVars
<1>6. CASE SweepEnd
  BY <1>0, <1>6 DEF SweepEnd, Timely, LeaseKept, Evicting, leaseVars
<1>7. ASSUME NEW e \in Exec, EvictLease(e) PROVE FALSE
  BY <1>7 DEF EvictLease, Timely
<1>8. CASE EvictGet \/ EvictShutdown \/ EvictWaited \/ EvictRemove
  <2>1. ~late /\ Evicting
    BY <1>8 DEF EvictGet, EvictShutdown, EvictWaited, EvictRemove, Evicting
  <2> QED
    BY <2>1 DEF Timely
<1> QED
  BY <1>1, <1>2, <1>3, <1>4, <1>5, <1>6, <1>7, <1>8, StepCases DEF SweepStep, Add, leaseVars

(* What is still to be evicted stays lapsed: a new lease of the same       *)
(* executor has a number that was not given yet at the listing.            *)
LEMMA StaleStep == TypeOK /\ Stale /\ [Next]_vars => Stale'
<1> SUFFICES ASSUME TypeOK, Stale, [Next]_vars PROVE Stale'
  OBVIOUS
<1>0. /\ LeaseType /\ SweepType /\ HandlerType
      /\ now \in Nat /\ next \in Nat /\ listed \in Nat
      /\ \A e \in Exec : lease[e].expires \in Nat /\ lease[e].slot \in Int
  BY DEF TypeOK, LeaseType, SweepType
<1>1. ASSUME todo' \subseteq todo, spc' = "evict" \/ Evicting' => spc = "evict" \/ Evicting,
             \A e \in todo' : lease'[e] = lease[e],
             UNCHANGED <<next, listed>>, now' = now \/ now' = now + 1
      PROVE  Stale'
  <2> SUFFICES ASSUME NEW e \in todo', spc' = "evict" \/ Evicting', lease'[e].state = "leased"
               PROVE  now' > lease'[e].expires \/ lease'[e].slot >= listed
    BY <1>1 DEF Stale
  <2>1. e \in Exec /\ (now > lease[e].expires \/ lease[e].slot >= listed)
    BY <1>0, <1>1 DEF Stale, SweepType
  <2> QED
    BY <1>0, <1>1, <2>1
<1>2. ASSUME NEW t \in 1 .. MaxTime, SweepStart(t) PROVE Stale'
  BY <1>0, <1>2 DEF SweepStart, Stale, ExpiredAt, Expired, LeasedNames, leaseVars
<1>3. ASSUME NEW e \in Exec, EvictLease(e) PROVE Stale'
  <2>1. \A f \in Exec : f # e => lease'[f] = lease[f]
    BY <1>0, <1>3, Reclaiming DEF EvictLease, Evict
  <2> QED
    BY <1>0, <1>1, <1>3, <2>1 DEF EvictLease, Evict, SweepType
<1>4. ASSUME NEW h \in Handlers, Granted(h) PROVE Stale'
  <2>1. hexec[h] \in Exec /\ Acquire(hexec[h]) /\ UNCHANGED <<now, sweepVars>>
    BY <1>0, <1>4 DEF Granted, HandlerType
  <2>2. CASE slotOf[hexec[h]] # NoSlot
    BY <1>0, <1>1, <2>1, <2>2 DEF Acquire, leaseVars, sweepVars, Evicting, SweepType
  <2>3. CASE slotOf[hexec[h]] = NoSlot
    <3>1. /\ \A f \in Exec : f # hexec[h] => lease'[f] = lease[f]
          /\ lease'[hexec[h]].slot = next /\ next' = next + 1
      BY <1>0, <2>1, <2>3, Acquiring
    <3>2. listed' <= next'
      BY <1>0, <2>1, <3>1 DEF Stale, sweepVars
    <3> SUFFICES ASSUME NEW e \in todo, spc = "evict" \/ Evicting, lease'[e].state = "leased"
                 PROVE  now > lease'[e].expires \/ lease'[e].slot >= listed
      BY <2>1, <3>2 DEF Stale, sweepVars, Evicting
    <3>3. CASE e = hexec[h]
      BY <1>0, <3>1, <3>3 DEF Stale
    <3>4. CASE e # hexec[h]
      BY <1>0, <3>1, <3>4 DEF Stale, SweepType
    <3> QED
      BY <3>3, <3>4
  <2> QED
    BY <2>2, <2>3
<1>5. ASSUME NEW h \in Handlers, NEW e \in Exec, Add(h, e) PROVE Stale'
  BY <1>0, <1>1, <1>5 DEF Add, leaseVars, sweepVars, Evicting, SweepType
<1>6. CASE RenewList \/ SweepEnd \/ \E e \in Exec : RenewOne(e)
  BY <1>6 DEF RenewList, SweepEnd, RenewOne, Renew, Stale, Evicting, leaseVars
<1>7. CASE EvictGet \/ EvictShutdown \/ EvictWaited \/ EvictRemove
  BY <1>0, <1>1, <1>7 DEF EvictGet, EvictShutdown, EvictWaited, EvictRemove, Evicting, leaseVars,
     SweepType
<1>8. ASSUME UNCHANGED <<leaseVars, sweepVars>>, now' = now \/ now' = now + 1 PROVE Stale'
  BY <1>0, <1>1, <1>8 DEF leaseVars, sweepVars, Evicting, SweepType
<1> QED
  BY <1>2, <1>3, <1>4, <1>5, <1>6, <1>7, <1>8, StepCases DEF SweepStep

(* The order of registrations and evictions of one executor.               *)
LEMMA PairedStep == TypeOK /\ LeaseTable /\ Paired /\ [Next]_vars => Paired'
<1> SUFFICES ASSUME TypeOK, LeaseTable, Paired, [Next]_vars PROVE Paired'
  OBVIOUS
<1> USE NoneAssumption, RegsAssumption
<1>0. /\ LeaseType /\ TableType /\ RunnerType /\ SweepType /\ HandlerType
      /\ \A e \in Exec : runnerOf[e] # 0 => <<e, runnerOf[e]>> \in Runners
      /\ Evicting => victim \in Exec
  BY DEF TypeOK, TableType, Runners, SweepType
<1> DEFINE Opened(e) == runnerOf'[e] # 0 /\ slot'[<<e, runnerOf'[e]>>] = "open"
           Enters(e) == \E h \in Handlers : hexec'[h] = e
<1>1. ASSUME \A e \in Exec : lease'[e].state = lease[e].state,
             UNCHANGED <<runnerOf, slot, regVars, victim>>, Evicting' => Evicting
      PROVE  Paired'
  BY <1>0, <1>1 DEF Paired, HasOpenRunner, LeaseHasRunner, Registering, regVars
<1>2. ASSUME NEW t \in 1 .. MaxTime, SweepStart(t) PROVE Paired'
  BY <1>1, <1>2 DEF SweepStart, leaseVars, tableVars, runnerVars, Evicting
<1>3. ASSUME NEW e \in Exec, EvictLease(e) PROVE Paired'
  <2>1. /\ lease' = Reclaimed(e) /\ victim' = e /\ victim = None
        /\ UNCHANGED <<runnerOf, slot, hexec>>
        /\ crossed' = IF Registering(e) THEN crossed \cup {e} ELSE crossed \ {e}
    BY <1>0, <1>3 DEF EvictLease, Evict, tableVars, runnerVars, SweepType, Evicting
  <2>2. /\ lease'[e].state = "evicted"
        /\ \A f \in Exec : f # e => lease'[f] = lease[f]
    BY <1>0, <2>1, Reclaiming
  <2>3. \A f \in Exec : f # e => (f \in crossed' <=> f \in crossed)
    BY <2>1
  <2>4. e \notin crossed' => ~Registering(e)
    BY <2>1
  <2>5. \A f \in Exec : Enters(f) <=> Registering(f)
    BY <2>1 DEF Registering
  <2>6. \A f \in Exec \ crossed' : Enters(f) => Opened(f)
    BY <2>1, <2>3, <2>4, <2>5 DEF Paired, HasOpenRunner
  <2>7. LeaseHasRunner'
    BY <2>1, <2>2, <2>3, <2>5 DEF Paired, LeaseHasRunner, Registering
  <2>8. victim' \notin crossed' => lease'[victim'].state = "evicted" /\ ~Enters(victim')
    BY <2>1, <2>2, <2>4, <2>5
  <2>9. \A f \in Exec : f # victim' /\ runnerOf'[f] # 0 => slot'[<<f, runnerOf'[f]>>] = "open"
    BY <2>1 DEF Paired
  <2> QED
    BY <2>6, <2>7, <2>8, <2>9 DEF Paired, HasOpenRunner, Registering
<1>4. ASSUME NEW e \in Exec, RenewOne(e) PROVE Paired'
  <2>1. /\ Renew(e, asOf) /\ asOf \in Nat /\ UNCHANGED <<spc, victim, runnerOf, slot, regVars>>
    BY <1>0, <1>4 DEF RenewOne, SweepType, tableVars, runnerVars
  <2>2. \A f \in Exec : lease'[f].state = lease[f].state
    BY <1>0, <2>1, Renewing DEF Renew, leaseVars
  <2> QED
    BY <1>1, <2>1, <2>2 DEF Evicting
<1>5. ASSUME NEW h \in Handlers, Granted(h) PROVE Paired'
  <2> DEFINE e == hexec[h]
  <2>1. /\ e \in Exec /\ Acquire(e) /\ hexec' = [hexec EXCEPT ![h] = None]
        /\ UNCHANGED <<spc, victim, runnerOf, slot, crossed>>
    BY <1>0, <1>5 DEF Granted, HandlerType, tableVars, runnerVars, sweepVars
  <2>2. lease'[e].state = "leased" /\ \A f \in Exec : f # e => lease'[f] = lease[f]
    <3>1. CASE slotOf[e] # NoSlot
      BY <2>1, <3>1 DEF Acquire, leaseVars, LeaseTable
    <3>2. CASE slotOf[e] = NoSlot
      BY <1>0, <2>1, <3>2, Acquiring
    <3> QED
      BY <3>1, <3>2
  <2>3. Registering(e)
    BY DEF Registering
  <2>4. \A f \in Exec : Enters(f) => Registering(f)
    BY <1>0, <2>1 DEF Registering, HandlerType
  <2>5. \A f \in Exec : f # e => (Enters(f) <=> Registering(f))
    BY <1>0, <2>1 DEF Registering, HandlerType
  <2> HIDE DEF e
  <2>6. \A f \in Exec \ crossed' : Enters(f) => Opened(f)
    BY <2>1, <2>4 DEF Paired, HasOpenRunner
  <2>7. Evicting' /\ victim' \notin crossed' =>
           lease'[victim'].state = "evicted" /\ ~Enters(victim')
    BY <1>0, <2>1, <2>2, <2>3, <2>5 DEF Paired, Evicting
  <2>8. \A f \in Exec : f # victim' /\ runnerOf'[f] # 0 => slot'[<<f, runnerOf'[f]>>] = "open"
    BY <2>1 DEF Paired
  <2>9. \A f \in Exec : f # victim' /\ ~Enters(f) =>
           /\ runnerOf'[f] # 0 => lease'[f].state = "leased"
           /\ lease'[f].state = "leased" /\ f \notin crossed' => runnerOf'[f] # 0
    <3> SUFFICES ASSUME NEW f \in Exec, f # victim', ~Enters(f)
                 PROVE  /\ runnerOf'[f] # 0 => lease'[f].state = "leased"
                        /\ lease'[f].state = "leased" /\ f \notin crossed' => runnerOf'[f] # 0
      OBVIOUS
    <3>1. CASE f = e
      BY <2>1, <2>2, <2>3, <3>1 DEF Paired, HasOpenRunner
    <3>2. CASE f # e
      BY <2>1, <2>2, <2>5, <3>2 DEF Paired, LeaseHasRunner
    <3> QED
      BY <3>1, <3>2
  <2>10. LeaseHasRunner'
    BY <2>8, <2>9 DEF LeaseHasRunner, Registering
  <2> QED
    BY <2>6, <2>7, <2>8, <2>10 DEF Paired, HasOpenRunner, Registering
<1>6. ASSUME NEW h \in Handlers, NEW e \in Exec, Add(h, e) PROVE Paired'
  <2>1. /\ hexec' = [hexec EXCEPT ![h] = e] /\ hexec[h] = None
        /\ crossed' = IF victim = e THEN crossed \cup {e} ELSE crossed \ {e}
        /\ UNCHANGED <<spc, victim, lease>>
    BY <1>0, <1>6 DEF Add, HandlerType, leaseVars, sweepVars
  <2>2. /\ \A f \in Exec : f # e => runnerOf'[f] = runnerOf[f] /\ (Opened(f) <=> HasOpenRunner(f))
        /\ e # victim => Opened(e)
    <3>1. CASE runnerOf[e] # 0
      BY <1>6, <3>1 DEF Add, AddRunner, tableVars, HasOpenRunner, Paired
    <3>2. CASE runnerOf[e] = 0
      <4>1. /\ made' = [made EXCEPT ![e] = made[e] + 1]
            /\ runnerOf' = [runnerOf EXCEPT ![e] = made[e] + 1]
            /\ slot' = [slot EXCEPT ![<<e, made[e] + 1>>] = "open"]
        BY <1>0, <1>6, <3>2 DEF Add, AddRunner, TableType
      <4>2. made[e] \in Nat /\ made[e] + 1 \in 1 .. MaxRegs
        BY <1>0, <1>6 DEF Add, TableType
      <4>3. Opened(e)
        BY <1>0, <4>1, <4>2 DEF TableType, RunnerType, Runners
      <4>4. ASSUME NEW f \in Exec, f # e
            PROVE  runnerOf'[f] = runnerOf[f] /\ (Opened(f) <=> HasOpenRunner(f))
        <5>1. runnerOf'[f] = runnerOf[f]
          BY <1>0, <4>1, <4>4 DEF TableType
        <5>2. CASE runnerOf[f] # 0
          BY <1>0, <4>1, <4>4, <5>1, <5>2 DEF RunnerType, HasOpenRunner
        <5>3. CASE runnerOf[f] = 0
          BY <5>1, <5>3 DEF HasOpenRunner
        <5> QED
          BY <5>1, <5>2, <5>3
      <4> QED
        BY <4>3, <4>4
    <3> QED
      BY <3>1, <3>2
  <2>3. /\ Enters(e) /\ \A f \in Exec : f # e => (Enters(f) <=> Registering(f))
        /\ \A f \in Exec : f # e => (f \in crossed' <=> f \in crossed)
        /\ e \notin crossed' => e # victim
    BY <1>0, <2>1 DEF Registering, HandlerType
  <2>4. \A f \in Exec \ crossed' : Enters(f) => Opened(f)
    BY <2>2, <2>3 DEF Paired
  <2>5. Evicting' /\ victim' \notin crossed' =>
           lease'[victim'].state = "evicted" /\ ~Enters(victim')
    BY <1>0, <2>1, <2>3 DEF Paired, Evicting
  <2>6. \A f \in Exec : f # victim' /\ runnerOf'[f] # 0 => slot'[<<f, runnerOf'[f]>>] = "open"
    BY <2>1, <2>2 DEF Paired, HasOpenRunner
  <2>7. LeaseHasRunner'
    <3> SUFFICES ASSUME NEW f \in Exec, f # victim', ~Enters(f)
                 PROVE  /\ runnerOf'[f] # 0 => lease'[f].state = "leased"
                        /\ lease'[f].state = "leased" /\ f \notin crossed' => runnerOf'[f] # 0
      BY <2>6 DEF LeaseHasRunner, Registering
    <3>1. f # e
      BY <2>3
    <3> QED
      BY <2>1, <2>2, <2>3, <3>1 DEF Paired, LeaseHasRunner
  <2> QED
    BY <2>4, <2>5, <2>6, <2>7 DEF Paired, HasOpenRunner, Registering
<1>7. CASE EvictGet \/ RenewList \/ SweepEnd
  BY <1>1, <1>7 DEF EvictGet, RenewList, SweepEnd, leaseVars, tableVars, runnerVars, Evicting
<1>8. CASE EvictShutdown \/ EvictWaited
  <2>1. /\ victim \in Exec /\ Evicting
        /\ UNCHANGED <<lease, runnerOf, regVars, victim>>
        /\ \/ slot' = slot
           \/ slot' = [slot EXCEPT ![<<victim, held>>] = "closing"]
           \/ slot' = [slot EXCEPT ![<<victim, held>>] = "released"]
    BY <1>0, <1>8 DEF EvictShutdown, EvictWaited, SweepType, Evicting, leaseVars, tableVars
  <2>2. \A f \in Exec : f # victim => (Opened(f) <=> HasOpenRunner(f))
    BY <1>0, <2>1 DEF HasOpenRunner, RunnerType
  <2>3. \A f \in Exec \ crossed : Registering(f) => f # victim
    BY <2>1 DEF Paired
  <2>4. \A f \in Exec \ crossed : Registering(f) => Opened(f)
    BY <2>2, <2>3 DEF Paired
  <2>5. \A f \in Exec : f # victim' /\ runnerOf'[f] # 0 => slot'[<<f, runnerOf'[f]>>] = "open"
    BY <2>1, <2>2 DEF Paired, HasOpenRunner
  <2>6. LeaseHasRunner'
    BY <2>1, <2>5 DEF Paired, LeaseHasRunner, Registering, regVars
  <2> QED
    BY <2>1, <2>4, <2>5, <2>6 DEF Paired, HasOpenRunner, Registering, regVars
<1>9. CASE EvictRemove
  <2>1. /\ victim \in Exec /\ Evicting /\ ~Evicting' /\ victim' = None
        /\ runnerOf' = [runnerOf EXCEPT ![victim] = 0]
        /\ UNCHANGED <<lease, slot, regVars>>
    BY <1>0, <1>9 DEF EvictRemove, SweepType, Evicting, leaseVars, runnerVars
  <2>2. /\ \A f \in Exec : f # victim => runnerOf'[f] = runnerOf[f]
        /\ runnerOf'[victim] = 0
    BY <1>0, <2>1 DEF TableType
  <2>3. victim \notin crossed => lease[victim].state = "evicted" /\ ~Registering(victim)
    BY <2>1 DEF Paired
  <2>4. \A f \in Exec \ crossed : Registering(f) => Opened(f)
    BY <2>1, <2>2, <2>3 DEF Paired, HasOpenRunner
  <2>5. \A f \in Exec : runnerOf'[f] # 0 => slot'[<<f, runnerOf'[f]>>] = "open"
    BY <2>1, <2>2 DEF Paired
  <2>6. LeaseHasRunner'
    BY <2>1, <2>2, <2>3, <2>5 DEF Paired, LeaseHasRunner, Registering, regVars
  <2> QED
    BY <2>1, <2>4, <2>5, <2>6 DEF Paired, HasOpenRunner, Registering, regVars
<1>10. ASSUME UNCHANGED <<leaseVars, tableVars, slot, sweepVars, regVars>> PROVE Paired'
  BY <1>1, <1>10 DEF leaseVars, tableVars, sweepVars, Evicting
<1> QED
  BY <1>2, <1>3, <1>4, <1>5, <1>6, <1>7, <1>8, <1>9, <1>10, StepCases DEF SweepStep

-----------------------------------------------------------------------------
(* The invariant holds of every state the program reaches.                 *)
LEMMA Invariance == Spec => []IInv
<1>1. Init => IInv
  BY InitInvariant
<1>2. IInv /\ [Next]_vars => IInv'
  <2> SUFFICES ASSUME IInv, [Next]_vars PROVE IInv'
    OBVIOUS
  <2>1. TypeOK /\ LeaseTable /\ Listed /\ Timely /\ Paired /\ Stale
    BY DEF IInv
  <2>2. TypeOK' /\ LeaseTable' /\ Listed' /\ Timely' /\ Paired' /\ Stale'
    BY <2>1, TypeStep, LeaseTableStep, ListedStep, TimelyStep, PairedStep, StaleStep
  <2> QED
    BY <2>2 DEF IInv
<1> QED
  BY <1>1, <1>2, PTL DEF Spec

(* Every table, the sweep and the handlers keep to their types; in         *)
(* particular no runner is dispatched to, shut down or removed that was    *)
(* never made.                                                             *)
THEOREM TypesKept == Spec => []TypeOK
<1>1. IInv => TypeOK
  BY DEF IInv
<1> QED
  BY <1>1, Invariance, PTL

(* The leases and the slot numbers agree, and no number is held twice, for *)
(* any number of executors, sweeps and registrations (lease.go:34-81).     *)
THEOREM LeaseTableAgrees == Spec => []LeaseTable
<1>1. IInv => LeaseTable
  BY DEF IInv
<1> QED
  BY <1>1, Invariance, PTL

(* While sweeps start at most one lease timeout apart, no lease is ever    *)
(* evicted (heartbeat.go:50-60, lease.go:118-128).                         *)
THEOREM TimelySweepsKeepLeases == Spec => []LeaseKept
<1>1. IInv => LeaseKept
  BY DEF IInv, Timely, LeaseKept
<1> QED
  BY <1>1, Invariance, PTL

(* For any number of registrations and evictions, however they overlap: a  *)
(* runner in the table accepts work and comes with a lease, and a lease    *)
(* comes with a runner unless its last eviction crossed a registration     *)
(* (server.go:159-160, evictor.go:31-43).                                  *)
THEOREM LeaseMeansRunner == Spec => []LeaseHasRunner
<1>1. IInv => LeaseHasRunner
  BY DEF IInv, Paired
<1> QED
  BY <1>1, Invariance, PTL

(* An evicted lease comes back only with a number that no lease had.       *)
THEOREM ReclaimedNotRevived == Spec => NoRevival
<1>1. IInv /\ [Next]_vars =>
         [\A e \in Exec : lease[e].state = "evicted" /\ lease'[e].state # "evicted" =>
            \A f \in Exec : lease'[e].slot > lease[f].slot]_vars
  <2> SUFFICES ASSUME IInv, [Next]_vars, NEW e \in Exec,
                      lease[e].state = "evicted", lease'[e].state # "evicted"
               PROVE  \A f \in Exec : lease'[e].slot > lease[f].slot
    OBVIOUS
  <2>0. LeaseType /\ SweepType /\ HandlerType /\ LeaseTable
    BY DEF IInv, TypeOK
  <2>1. ASSUME UNCHANGED leaseVars PROVE FALSE
    BY <2>1 DEF leaseVars
  <2>2. ASSUME NEW f \in Exec, EvictLease(f) PROVE FALSE
    BY <2>0, <2>2, Reclaiming DEF EvictLease, Evict
  <2>3. ASSUME NEW f \in Exec, RenewOne(f) PROVE FALSE
    <3>1. Renew(f, asOf) /\ asOf \in Nat
      BY <2>0, <2>3 DEF RenewOne, SweepType
    <3> QED
      BY <2>0, <2>1, <3>1, Renewing DEF Renew
  <2>4. ASSUME NEW h \in Handlers, Granted(h)
        PROVE  \A f \in Exec : lease'[e].slot > lease[f].slot
    <3>1. hexec[h] \in Exec /\ Acquire(hexec[h])
      BY <2>0, <2>4 DEF Granted, HandlerType
    <3>2. slotOf[hexec[h]] = NoSlot
      BY <2>1, <3>1 DEF Acquire
    <3>3. hexec[h] = e /\ lease'[e].slot = next
      BY <2>0, <3>1, <3>2, Acquiring
    <3>4. \A f \in Exec : lease[f].slot \in Int /\ lease[f].slot < next /\ next \in Int
      BY <2>0 DEF LeaseTable, LeaseType
    <3> QED
      BY <3>3, <3>4
  <2> QED
    BY <2>1, <2>2, <2>3, <2>4, StepCases DEF SweepStep, SweepStart, EvictGet, EvictShutdown,
       EvictWaited, EvictRemove, RenewList, SweepEnd, Add
<1> QED
  BY <1>1, Invariance, PTL DEF Spec, NoRevival

(* However old the list the sweep works from and whoever came back since:  *)
(* the lease an eviction takes has lapsed, or is younger than the list     *)
(* (heartbeat.go:50-58, evictor.go:29-31, lease.go:118-128).               *)
THEOREM EvictionsJustified == Spec => OnlyStaleEvicted
<1>1. IInv /\ [Next]_vars =>
         [\A e \in Exec :
            lease[e].state = "leased" /\ lease'[e].state = "evicted" =>
               now > lease[e].expires \/ lease[e].slot >= listed]_vars
  <2> SUFFICES ASSUME IInv, [Next]_vars, NEW e \in Exec,
                      lease[e].state = "leased", lease'[e].state = "evicted"
               PROVE  now > lease[e].expires \/ lease[e].slot >= listed
    OBVIOUS
  <2>0. LeaseType /\ SweepType /\ HandlerType /\ Stale
    BY DEF IInv, TypeOK
  <2>1. ASSUME UNCHANGED leaseVars PROVE FALSE
    BY <2>1 DEF leaseVars
  <2>2. ASSUME NEW f \in Exec, EvictLease(f)
        PROVE  now > lease[e].expires \/ lease[e].slot >= listed
    <3>1. f = e /\ e \in todo /\ spc = "evict"
      BY <2>0, <2>2, Reclaiming DEF EvictLease, Evict
    <3> QED
      BY <2>0, <3>1 DEF Stale
  <2>3. ASSUME NEW f \in Exec, RenewOne(f) PROVE FALSE
    <3>1. Renew(f, asOf) /\ asOf \in Nat
      BY <2>0, <2>3 DEF RenewOne, SweepType
    <3> QED
      BY <2>0, <2>1, <3>1, Renewing DEF Renew
  <2>4. ASSUME NEW h \in Handlers, Granted(h) PROVE FALSE
    <3>1. hexec[h] \in Exec /\ Acquire(hexec[h])
      BY <2>0, <2>4 DEF Granted, HandlerType
    <3>2. slotOf[hexec[h]] = NoSlot
      BY <2>1, <3>1 DEF Acquire
    <3> QED
      BY <2>0, <3>1, <3>2, Acquiring
  <2> QED
    BY <2>1, <2>2, <2>3, <2>4, StepCases DEF SweepStep, SweepStart, EvictGet, EvictShutdown,
       EvictWaited, EvictRemove, RenewList, SweepEnd, Add
<1> QED
  BY <1>1, Invariance, PTL DEF Spec, OnlyStaleEvicted
=============================================================================
