------------------------------- MODULE Runner -------------------------------
(***************************************************************************)
(* One executor slot (internal/exec/runner.go) together with the replay    *)
(* window of internal/dispatch.  The processes are the callers of Enqueue, *)
(* the replayers that run ReplayWindow, the callers of Shutdown, and the   *)
(* goroutine that NewRunner starts (run and execute).  A step is what one  *)
(* of them does between two points where another can interfere: a critical *)
(* section of r.mu, one operation on a channel or on the WaitGroup, or the *)
(* handler.                                                                *)
(*                                                                         *)
(* r.mu needs no variable of its own: the only operation that blocks while *)
(* holding it is the channel send of sendLocked, so it is free exactly     *)
(* when no replayer is inside sendLocked.  A timer of the code may expire  *)
(* at any moment of the send it guards.                                    *)
(***************************************************************************)
EXTENDS Integers, Sequences, Functions

CONSTANTS
    Inst,           \* instances; NewInstance makes a fresh one for each call
    Key,            \* dedupe keys
    KeyOf,          \* the key each instance carries
    Callers,        \* goroutines that call Enqueue
    Replayers,      \* goroutines that run ReplayWindow
    Closers,        \* goroutines that call Shutdown
    QueueSize,      \* capacity of the channel r.in
    None            \* no instance

ASSUME KeyAssumption  == KeyOf \in [Inst -> Key]
ASSUME SizeAssumption == QueueSize \in Nat \ {0}
ASSUME NoneAssumption == None \notin Inst

VARIABLES
    in,             \* r.in, a buffered channel
    inflight,       \* r.inflight, the reserved dedupe keys
    replay, buffer, \* r.replay and r.buffer
    closed,         \* r.closed
    stop, done,     \* whether r.stop and r.done are closed
    wg,             \* r.inflightWG
    cpc, carg,      \* each caller: where in Enqueue it is, with which instance
    rpc, rarg,      \* each replayer: where it is, the instance being sent
    flush,          \* each replayer: EndReplay's local list
    spc,            \* each closer: where in Shutdown it is
    wpc, cur,       \* the run goroutine and the instance it received
    result,         \* history: what the call for each instance returned
    calls,          \* history: the instances each caller passed, in call order
    path,           \* history: how each instance got in, one of Paths
    ran             \* history: the instances whose handler was started

chanVars   == <<in, inflight, replay, buffer>>
closeVars  == <<closed, stop, done, spc>>
callVars   == <<cpc, carg, calls, path>>
replayVars == <<rpc, rarg, flush>>
workVars   == <<wg, wpc, cur, ran>>
vars == <<chanVars, closeVars, callVars, replayVars, workVars, result>>

(* Sent at once (or not at all), after waiting for room without the lock,  *)
(* parked in r.buffer, or replayed.                                        *)
Paths == {"direct", "slow", "parked", "replayed"}

Answers == {"nil", "ErrDuplicate", "ErrFull", "ErrClosed"}

(* NewRunner.                                                              *)
Init ==
    /\ in = <<>> /\ inflight = {} /\ replay = FALSE /\ buffer = <<>>
    /\ closed = FALSE /\ stop = FALSE /\ done = FALSE
    /\ spc = [s \in Closers |-> "idle"]
    /\ cpc = [c \in Callers |-> "idle"]
    /\ carg = [c \in Callers |-> None]
    /\ calls = [c \in Callers |-> <<>>]
    /\ path = [i \in Inst |-> "direct"]
    /\ rpc = [p \in Replayers |-> "idle"]
    /\ rarg = [p \in Replayers |-> None]
    /\ flush = [p \in Replayers |-> <<>>]
    /\ wg = 0 /\ wpc = "select" /\ cur = None /\ ran = <<>>
    /\ result = [i \in Inst |-> "new"]

MuFree == \A p \in Replayers : rpc[p] \notin {"replaySend", "flushSend"}

(* Variant: the capacity is off by one.                                    *)
FullVariant == Len(in) > QueueSize

Full == Len(in) = QueueSize

Send(i) == ~Full /\ in' = Append(in, i)

(* Variants: the send has no timer; the key is not reserved.               *)
TimesOutNever == FALSE
ReservedNot(i) == inflight

(* A timer that has fired may win the select although there is room.       *)
TimesOut == TRUE

Reserved(i) == inflight \cup {KeyOf[i]}

Released(i) == inflight \ {KeyOf[i]}

Returns(i, r) == result' = [result EXCEPT ![i] = r]

-----------------------------------------------------------------------------
(* Enqueue: what its critical section does with a fresh instance.          *)

Parks == replay

EnqueueRefused(c, i) ==
    /\ \/ closed /\ Returns(i, "ErrClosed")
       \/ ~closed /\ KeyOf[i] \in inflight /\ Returns(i, "ErrDuplicate")
    /\ UNCHANGED <<cpc, carg, chanVars>>

EnqueueBuffered(c, i) ==
    /\ ~closed /\ KeyOf[i] \notin inflight /\ Parks
    /\ buffer' = Append(buffer, i)
    /\ Returns(i, "nil")
    /\ UNCHANGED <<cpc, carg, in, inflight, replay>>

EnqueueFast(c, i) ==
    /\ ~closed /\ KeyOf[i] \notin inflight /\ ~Parks
    /\ Send(i)
    /\ inflight' = Reserved(i)
    /\ Returns(i, "nil")
    /\ UNCHANGED <<cpc, carg, replay, buffer>>

(* Variant: no slow path, a full channel swallows the instance.            *)
EnqueueSlowSwallowed(c, i) ==
    /\ ~closed /\ KeyOf[i] \notin inflight /\ ~Parks
    /\ Full /\ Returns(i, "nil")
    /\ UNCHANGED <<cpc, carg, chanVars>>

(* The reservation made for the fast path is deleted again and the call    *)
(* goes on to the slow select without the lock.                            *)
EnqueueSlow(c, i) ==
    /\ ~closed /\ KeyOf[i] \notin inflight /\ ~Parks
    /\ Full
    /\ cpc' = [cpc EXCEPT ![c] = "slow"]
    /\ carg' = [carg EXCEPT ![c] = i]
    /\ Returns(i, "calling")
    /\ UNCHANGED chanVars

Enqueue(c, i) ==
    /\ MuFree
    /\ cpc[c] = "idle" /\ result[i] = "new"
    /\ calls' = [calls EXCEPT ![c] = Append(@, i)]
    /\ \/ EnqueueRefused(c, i)
       \/ EnqueueBuffered(c, i)
       \/ EnqueueFast(c, i)
       \/ EnqueueSlow(c, i)
    /\ path' = [path EXCEPT ![i] = IF cpc'[c] = "slow" THEN "slow"
                                  ELSE IF buffer' # buffer THEN "parked" ELSE @]
    /\ UNCHANGED <<closeVars, replayVars, workVars>>

(* Variants: the select is in a loop that a successful send does not       *)
(* leave; the key is checked again, after the send.                        *)
AfterSendLoops == "slow"
SlowAnswerChecked(i) == IF KeyOf[i] \in inflight THEN "ErrDuplicate" ELSE "nil"

AfterSend == "reserve"

SlowAnswer(i) == "nil"

(* The slow select: send, time out, or see the runner stopped.             *)
SlowSend(c) ==
    /\ cpc[c] = "slow"
    /\ Send(carg[c])
    /\ cpc' = [cpc EXCEPT ![c] = AfterSend]
    /\ UNCHANGED <<inflight, replay, buffer, carg, calls, path, result>>
    /\ UNCHANGED <<closeVars, replayVars, workVars>>

SlowFail(c) ==
    /\ cpc[c] = "slow"
    /\ \/ TimesOut /\ Returns(carg[c], "ErrFull")
       \/ stop /\ Returns(carg[c], "ErrClosed")
    /\ cpc' = [cpc EXCEPT ![c] = "idle"]
    /\ carg' = [carg EXCEPT ![c] = None]
    /\ UNCHANGED <<calls, path, chanVars, closeVars, replayVars, workVars>>

(* Only after the send is the key reserved.                                *)
SlowReserve(c) ==
    /\ MuFree
    /\ cpc[c] = "reserve"
    /\ inflight' = Reserved(carg[c])
    /\ Returns(carg[c], SlowAnswer(carg[c]))
    /\ cpc' = [cpc EXCEPT ![c] = "idle"]
    /\ carg' = [carg EXCEPT ![c] = None]
    /\ UNCHANGED <<in, replay, buffer, calls, path, closeVars, replayVars, workVars>>

-----------------------------------------------------------------------------
(* ReplayWindow: BeginReplay, the work, EndReplay.                         *)

(* Variant: a window may be opened inside another.                         *)
MayReplayNested == ~closed

MayReplay == ~closed /\ ~replay

(* BeginReplay returns false, and ReplayWindow an error, when the runner   *)
(* is closed or replaying: nothing changes then.                           *)
BeginReplay(p) ==
    /\ MuFree
    /\ rpc[p] = "idle"
    /\ MayReplay
    /\ replay' = TRUE
    /\ buffer' = <<>>
    /\ rpc' = [rpc EXCEPT ![p] = "work"]
    /\ UNCHANGED <<in, inflight, rarg, flush, result>>
    /\ UNCHANGED <<closeVars, callVars, workVars>>

(* ReplayWrite takes the lock; sendLocked reserves and keeps the lock      *)
(* until the send succeeds or times out.  An error ends the work.          *)
ReplayWrite(p, i) ==
    /\ MuFree
    /\ rpc[p] = "work" /\ result[i] = "new"
    /\ path' = [path EXCEPT ![i] = "replayed"]
    /\ \/ /\ closed
          /\ Returns(i, "ErrClosed")
          /\ rpc' = [rpc EXCEPT ![p] = "end"]
          /\ UNCHANGED <<inflight, rarg>>
       \/ /\ ~closed
          /\ Returns(i, "calling")
          /\ rpc' = [rpc EXCEPT ![p] = "replaySend"]
          /\ rarg' = [rarg EXCEPT ![p] = i]
          /\ inflight' = Reserved(i)
    /\ UNCHANGED <<in, replay, buffer, flush, cpc, carg, calls, closeVars, workVars>>

ReplaySent(p) ==
    /\ rpc[p] = "replaySend"
    /\ \/ /\ Send(rarg[p])
          /\ Returns(rarg[p], "nil")
          /\ rpc' = [rpc EXCEPT ![p] = "work"]
          /\ UNCHANGED inflight
       \/ /\ TimesOut
          /\ inflight' = Released(rarg[p])
          /\ Returns(rarg[p], "ErrFull")
          /\ rpc' = [rpc EXCEPT ![p] = "end"]
          /\ UNCHANGED in
    /\ rarg' = [rarg EXCEPT ![p] = None]
    /\ UNCHANGED <<replay, buffer, flush, closeVars, callVars, workVars>>

(* The work may return after any number of writes.                         *)
EndReplay(p) ==
    /\ MuFree
    /\ rpc[p] \in {"work", "end"}
    /\ flush' = [flush EXCEPT ![p] = buffer]
    /\ replay' = FALSE
    /\ buffer' = <<>>
    /\ rpc' = [rpc EXCEPT ![p] = "flush"]
    /\ UNCHANGED <<in, inflight, rarg, result, closeVars, callVars, workVars>>

(* EndReplay's loop: each buffered instance goes through sendLocked, and   *)
(* its error is dropped.                                                   *)
FlushNext(p) ==
    /\ rpc[p] = "flush"
    /\ \/ /\ flush[p] = <<>>
          /\ rpc' = [rpc EXCEPT ![p] = "idle"]
          /\ UNCHANGED <<inflight, rarg, flush>>
       \/ /\ flush[p] # <<>> /\ MuFree
          /\ rarg' = [rarg EXCEPT ![p] = Head(flush[p])]
          /\ flush' = [flush EXCEPT ![p] = Tail(@)]
          /\ inflight' = Reserved(Head(flush[p]))
          /\ rpc' = [rpc EXCEPT ![p] = "flushSend"]
    /\ UNCHANGED <<in, replay, buffer, result, closeVars, callVars, workVars>>

FlushSent(p) ==
    /\ rpc[p] = "flushSend"
    /\ \/ Send(rarg[p]) /\ UNCHANGED inflight
       \/ TimesOut /\ inflight' = Released(rarg[p]) /\ UNCHANGED in
    /\ rarg' = [rarg EXCEPT ![p] = None]
    /\ rpc' = [rpc EXCEPT ![p] = "flush"]
    /\ UNCHANGED <<replay, buffer, flush, result, closeVars, callVars, workVars>>

-----------------------------------------------------------------------------
(* The run goroutine.                                                      *)

Receive ==
    /\ wpc = "select"
    /\ in # <<>>
    /\ cur' = Head(in)
    /\ in' = Tail(in)
    /\ wpc' = "check"
    /\ UNCHANGED <<inflight, replay, buffer, wg, ran, result>>
    /\ UNCHANGED <<closeVars, callVars, replayVars>>

ExitOnStop ==
    /\ wpc = "select"
    /\ stop
    /\ wpc' = "exited"
    /\ UNCHANGED <<wg, cur, ran, result>>
    /\ UNCHANGED <<chanVars, closeVars, callVars, replayVars>>

(* Variant: a closed runner goes on executing.                             *)
StopsNever == FALSE

Stops == closed

(* Under the lock: a closed runner drops what it received and exits.       *)
CheckClosed ==
    /\ MuFree
    /\ wpc = "check"
    /\ \/ /\ Stops
          /\ wpc' = "exited"
          /\ cur' = None
          /\ UNCHANGED <<wg, ran>>
       \/ /\ ~Stops
          /\ wg' = wg + 1
          /\ wpc' = "handler"
          /\ ran' = Append(ran, cur)
          /\ UNCHANGED cur
    /\ UNCHANGED <<chanVars, closeVars, callVars, replayVars, result>>

(* execute: the handler's result is ignored.                               *)
HandlerReturns ==
    /\ wpc = "handler"
    /\ wpc' = "finish"
    /\ UNCHANGED <<wg, cur, ran, result>>
    /\ UNCHANGED <<chanVars, closeVars, callVars, replayVars>>

ReleaseKey ==
    /\ MuFree
    /\ wpc = "finish"
    /\ inflight' = Released(cur)
    /\ wpc' = "wgDone"
    /\ UNCHANGED <<in, replay, buffer, wg, cur, ran, result>>
    /\ UNCHANGED <<closeVars, callVars, replayVars>>

(* Variant: Done is not deferred and is skipped.                           *)
DoneSkipped == wg

Done == wg - 1

WgDone ==
    /\ wpc = "wgDone"
    /\ wg' = Done
    /\ wpc' = "select"
    /\ cur' = None
    /\ UNCHANGED <<ran, result, chanVars, closeVars, callVars, replayVars>>

-----------------------------------------------------------------------------
(* Shutdown: only the first caller waits and releases.                     *)

Shutdown(s) ==
    /\ MuFree
    /\ spc[s] = "idle"
    /\ \/ closed /\ spc' = [spc EXCEPT ![s] = "returned"] /\ UNCHANGED closed
       \/ ~closed /\ closed' = TRUE /\ spc' = [spc EXCEPT ![s] = "waiting"]
    /\ UNCHANGED <<stop, done, result, chanVars, callVars, replayVars, workVars>>

(* Variant: the slot is released without waiting.                          *)
WaitedNot == TRUE

Waited == wg = 0

(* inflightWG.Wait returns and r.stop is closed.                           *)
WaitReturns(s) ==
    /\ spc[s] = "waiting" /\ Waited
    /\ stop' = TRUE
    /\ spc' = [spc EXCEPT ![s] = "stopped"]
    /\ UNCHANGED <<closed, done, result>>
    /\ UNCHANGED <<chanVars, callVars, replayVars, workVars>>

CloseDone(s) ==
    /\ spc[s] = "stopped"
    /\ done' = TRUE
    /\ spc' = [spc EXCEPT ![s] = "returned"]
    /\ UNCHANGED <<closed, stop, result>>
    /\ UNCHANGED <<chanVars, callVars, replayVars, workVars>>

-----------------------------------------------------------------------------
CallerStep(c)   == SlowSend(c) \/ SlowFail(c) \/ SlowReserve(c)
ReplayerStep(p) == ReplaySent(p) \/ EndReplay(p) \/ FlushNext(p) \/ FlushSent(p)
WorkerStep      == \/ Receive \/ ExitOnStop \/ CheckClosed
                   \/ HandlerReturns \/ ReleaseKey \/ WgDone
CloserStep(s)   == WaitReturns(s) \/ CloseDone(s)

Next ==
    \/ \E c \in Callers, i \in Inst : Enqueue(c, i)
    \/ \E c \in Callers : CallerStep(c)
    \/ \E p \in Replayers : BeginReplay(p) \/ ReplayerStep(p)
    \/ \E p \in Replayers, i \in Inst : ReplayWrite(p, i)
    \/ WorkerStep
    \/ \E s \in Closers : Shutdown(s) \/ CloserStep(s)

Spec == Init /\ [][Next]_vars

(* Goroutines that have work to do are scheduled, the handler returns, and *)
(* a goroutine waiting for r.mu gets it (sync.Mutex has no starvation).    *)
(* Nothing makes a client call, a replay begin or a shutdown happen.       *)
Fairness ==
    /\ \A c \in Callers : WF_vars(CallerStep(c))
    /\ \A p \in Replayers : WF_vars(ReplayerStep(p))
    /\ WF_vars(WorkerStep)
    /\ \A s \in Closers : WF_vars(CloserStep(s))

FairSpec == Spec /\ Fairness

-----------------------------------------------------------------------------
(* Where an instance can be.                                               *)

Sending   == {rarg[p] : p \in Replayers} \ {None}
Flushing  == UNION {Range(flush[p]) : p \in Replayers}
Executing == wpc = "handler"

(* In r.buffer, or in the list that an EndReplay is flushing.              *)
Parked(i) ==
    \/ i \in Range(buffer) \cup Flushing
    \/ \E p \in Replayers : rpc[p] = "flushSend" /\ rarg[p] = i

(* Accepted by the slot and not yet given to a handler.                    *)
Waiting(i) == Parked(i) \/ i \in Range(in) \/ (wpc = "check" /\ cur = i)

(* Holding, or about to hold, its key: queued or being executed.           *)
InFlight(i) ==
    \/ i \in Range(in) \cup Sending
    \/ wpc \in {"check", "handler", "finish"} /\ cur = i

-----------------------------------------------------------------------------
(* Type invariant, by group of variables.                                  *)
ChanType ==
    /\ in \in Seq(Inst) /\ Len(in) <= QueueSize
    /\ inflight \subseteq Key
    /\ replay \in BOOLEAN
    /\ buffer \in Seq(Inst)

CloseType ==
    /\ closed \in BOOLEAN /\ stop \in BOOLEAN /\ done \in BOOLEAN
    /\ spc \in [Closers -> {"idle", "waiting", "stopped", "returned"}]

CallType ==
    /\ cpc \in [Callers -> {"idle", "slow", "reserve"}]
    /\ carg \in [Callers -> Inst \cup {None}]
    /\ path \in [Inst -> Paths]
    /\ \A c \in Callers : cpc[c] # "idle" => carg[c] \in Inst
    /\ calls \in [Callers -> Seq(Inst)]

InSend == {"replaySend", "flushSend"}

ReplayType ==
    /\ rpc \in [Replayers -> {"idle", "work", "end", "flush"} \cup InSend]
    /\ rarg \in [Replayers -> Inst \cup {None}]
    /\ \A p \in Replayers : rpc[p] \in InSend => rarg[p] \in Inst
    /\ flush \in [Replayers -> Seq(Inst)]

Holding == {"check", "handler", "finish", "wgDone"}

WorkType ==
    /\ wg \in Int
    /\ wpc \in {"select", "exited"} \cup Holding
    /\ cur \in Inst \cup {None}
    /\ wpc \in Holding => cur \in Inst
    /\ ran \in Seq(Inst)

ResultType == result \in [Inst -> {"new", "calling"} \cup Answers]

TypeOK ==
    ChanType /\ CloseType /\ CallType /\ ReplayType /\ WorkType /\ ResultType

(* The slot is released only when no handler is running on it and none     *)
(* will ever start: "the in-flight instance finishes first, then the queue *)
(* is closed and the slot is released" (runner.go:142-143).                *)
ReleasedIdle == done => wpc \in {"select", "check", "exited"}

Windowing(p) == rpc[p] \in {"work", "replaySend", "end"}

(* Exclusion between windows: at most one replayer is between BeginReplay  *)
(* and EndReplay, r.replay says exactly whether one is, and live instances *)
(* are parked in r.buffer only while one is.                               *)
OneWindow ==
    /\ \A p, q \in Replayers : Windowing(p) /\ Windowing(q) => p = q
    /\ replay <=> \E p \in Replayers : Windowing(p)
    /\ buffer # <<>> => replay

(* While the slot is open, an instance whose call returned nil is waiting  *)
(* for its handler or was given to it, unless it was parked: Enqueue's nil *)
(* is a promise, which only the flush of EndReplay breaks (runner.go:130). *)
NoSilentDrop ==
    ~closed => \A i \in Inst :
        result[i] = "nil" /\ path[i] # "parked" => Waiting(i) \/ i \in Range(ran)

(* And the converse: an instance whose call was refused never runs, not    *)
(* even when the refusal raced the send, the shutdown or a timer.          *)
RefusedNeverRuns ==
    \A i \in Inst : result[i] \in Answers \ {"nil"} =>
        ~Waiting(i) /\ i \notin Range(ran)

(* ErrDuplicate tells the caller the truth: another instance with the same *)
(* key is queued or executing at that moment (runner.go:16-17).            *)
DuplicateMeansInFlight ==
    [][\A i \in Inst : result[i] = "new" /\ result'[i] = "ErrDuplicate" =>
          \E j \in Inst \ {i} : KeyOf[j] = KeyOf[i] /\ InFlight(j)]_vars

(* The dedupe promise itself: two instances with one key are never queued  *)
(* or executing together, as long as all of the key are sent at once: the  *)
(* slow path, the flush and ReplayWrite do not look whether it is taken.   *)
OnePerKey ==
    \A i, j \in Inst : KeyOf[i] = KeyOf[j] /\ InFlight(i) /\ InFlight(j) =>
        i = j \/ \E k \in Inst : KeyOf[k] = KeyOf[i] /\ path[k] # "direct"

(* "Runner delivers instances to one executor slot in order"               *)
(* (runner.go:26): of the instances one caller passed, those that ran did  *)
(* so once and in the order of the calls, apart from parked ones, which a  *)
(* later call overtakes while EndReplay flushes without the lock.          *)
LiveInOrder ==
    \A c \in Callers : \A k, l \in 1 .. Len(calls[c]), m, n \in 1 .. Len(ran) :
        /\ k <= l /\ ran[m] = calls[c][k] /\ ran[n] = calls[c][l]
        /\ "parked" \notin {path[ran[m]], path[ran[n]]}
        => m <= n

(* "Live dispatches are buffered for the whole duration of the work so     *)
(* replayed tasks always precede them" (catchup.go:9-10): while a window   *)
(* stays open, only its replayed instances enter the channel.              *)
ReplayPrecedesLive ==
    [][replay /\ replay' =>
          \A i \in Range(in') \ Range(in) : path[i] = "replayed"]_vars

(* A shutdown that has begun releases the slot: the wait for the in-flight *)
(* instance, the lock and the channel never hold it up forever.            *)
ShutdownReleases == closed ~> done

(* Every Enqueue and ReplayWrite returns to its caller.                    *)
CallsReturn == \A i \in Inst : result[i] = "calling" ~> result[i] \in Answers

(* An instance in the channel runs, unless the slot is closed first: the   *)
(* worker is never stuck behind a sender that holds the lock.              *)
QueuedRuns == \A i \in Inst : i \in Range(in) ~> i \in Range(ran) \/ closed

-----------------------------------------------------------------------------
(* Refinement of the abstract slot.                                        *)

SlotState == IF done THEN "released" ELSE IF closed THEN "closing" ELSE "open"

StageOf(i) ==
    IF i \in Range(ran) THEN IF Executing /\ cur = i THEN "running" ELSE "finished"
    ELSE IF Parked(i) THEN "parked"
    ELSE IF Waiting(i) THEN "pending"
    ELSE IF result[i] = "nil" \/ \E c \in Callers : cpc[c] = "reserve" /\ carg[c] = i
         THEN "lost"
    ELSE IF result[i] \in {"new", "calling"} THEN result[i] ELSE "refused"

Slot == INSTANCE ExecutorSlot WITH
            slot <- SlotState, st <- [i \in Inst |-> StageOf(i)]

(* Clients that know the abstract slot only are never surprised by the     *)
(* queue, the dedupe table, the replay buffer and the shutdown sequence.   *)
RefinesSlot == Slot!SlotSpec
=============================================================================
