----------------------------- MODULE Scheduler ------------------------------
(***************************************************************************)
(* From a publish request to the hand-off: the publish pipeline            *)
(* (internal/publish) run by concurrent HTTP handlers, the task store with *)
(* its dispatch cursor (internal/store), the waiting queue                 *)
(* (internal/queue), the task states of the registry, and the tick         *)
(* goroutine (cmd/jobsched/main.go, Dispatcher.Tick).  Each of them has    *)
(* its own mutex, so every call into one is a step.                        *)
(*                                                                         *)
(* The executors are outside: what lease table, limiter and runner answer  *)
(* is any answer they can give, as far as the environment allows.  Task    *)
(* ids are numbers because the queue breaks ties of due times by comparing *)
(* ids; a publisher may draw any unused one, as uuids are.                 *)
(***************************************************************************)
EXTENDS Integers, FiniteSets, Sequences, Functions

CONSTANTS
    Task,           \* task ids
    Publishers,     \* concurrent publish requests
    Interval,       \* TickInterval in units of time
    Phase,          \* when in an interval the ticker fires
    Past,           \* bound on how far in the past a due time may be
    Environments    \* the environments to run in, one of which is chosen

(* No executor is leased; the limiter refuses; the runner refuses; steps   *)
(* of goroutines take time.                                                *)
AllFaults == {"noExecutor", "limited", "refused", "slow"}

DueTime == {d \in Int : d >= -Past}

(* What may go wrong, how long after its append a task can be due, which   *)
(* is less than the request's due_after by the time that the handler took  *)
(* to declare the dependencies, and may be in the past; the tasks          *)
(* published with a dependency not satisfied, StoreCapacity, the limit of  *)
(* the waiting queue, the bound on the clock, and which of the actors of   *)
(* module Readers are there.                                               *)
EnvironmentType ==
    [faults : SUBSET AllFaults, delays : SUBSET DueTime, blocked : SUBSET Task,
     capacity : Nat \ {0}, queueSize : Nat \ {0}, maxTime : Nat,
     readers : SUBSET {"catchUp", "handler", "status"}]

ASSUME TaskAssumption == Task \subseteq Nat
ASSUME TimeAssumption == Interval \in Nat \ {0} /\ Phase \in 0 .. Interval - 1 /\ Past \in Nat
ASSUME EnvironmentAssumption == \A e \in Environments : e \in EnvironmentType

VARIABLES
    env,                \* the environment, which never changes
    now, ticker,        \* the clock and the time waiting in ticker.C, or Never
    due, answer,        \* each task: its due time, what Publish returned
    seq, seqOf,         \* Store.seq and the sequence given to each task
    retained,           \* the tasks in Store.ring
    committed,          \* Store.committed
    marked,             \* Store.dispatched, a set of sequences
    records,            \* the tasks with an entry in Store.records
    state,              \* the registry's state of each task
    queue,              \* the tasks in the waiting queue
    progress,           \* Broker.progress
    ppc, ptask,         \* each publisher: its step and its task
    tpc, batch, begin, cur, \* the tick: its step, the rest of its batch, its
                        \* window's begin, the task being dispatched
    handed,             \* history: the tasks handed off, in order
    lost                \* history: queued tasks that left the queue for good
                        \* without being handed off

storeVars == <<seq, seqOf, retained, committed, marked, records>>
pubVars   == <<ppc, ptask, progress, due, answer>>
tickVars  == <<tpc, batch, begin, cur, handed, lost>>
vars == <<env, now, ticker, storeVars, state, queue, pubVars, tickVars>>

Never == -1

Init ==
    /\ env \in Environments
    /\ now = 0 /\ ticker = Never
    /\ due = [t \in Task |-> 0] /\ answer = [t \in Task |-> "new"]
    /\ seq = 0 /\ seqOf = [t \in Task |-> 0]
    /\ retained = {} /\ committed = 0 /\ marked = {} /\ records = {}
    /\ state = [t \in Task |-> "none"]
    /\ queue = {} /\ progress = 0
    /\ ppc = [p \in Publishers |-> "idle"] /\ ptask = [p \in Publishers |-> 0]
    /\ tpc = "idle" /\ batch = {} /\ begin = 0 /\ cur = 0
    /\ handed = <<>> /\ lost = {}

Idle == tpc = "idle" /\ ticker = Never /\ \A p \in Publishers : ppc[p] = "idle"

(* The ticker fires once per Interval; while its value is not taken, later *)
(* ones are dropped.                                                       *)
Clock ==
    /\ now < env.maxTime
    /\ "slow" \in env.faults \/ Idle
    /\ now' = now + 1
    /\ ticker' = IF ticker = Never /\ (now' % Interval) = Phase THEN now' ELSE ticker
    /\ UNCHANGED <<env, storeVars, state, queue, pubVars, tickVars>>

-----------------------------------------------------------------------------
(* handlePublish and Broker.Publish.                                       *)

(* Variant: Push does not compare count and cap.                           *)
RingNeverFull == FALSE

RingFull == Cardinality(retained) = env.capacity

(* Variant: the cursor follows the last commit, backwards too.             *)
AdvancedAny(pos, s) == s

(* The store's cursor and the broker's never move backwards.               *)
Advanced(pos, s) == IF s > pos THEN s ELSE pos

Answer(p, r) ==
    /\ answer' = [answer EXCEPT ![ptask[p]] = r]
    /\ ppc' = [ppc EXCEPT ![p] = "idle"]

(* A full store refuses the task after the sequence was taken.             *)
AppendTask(p, t, d) ==
    /\ ppc[p] = "idle" /\ answer[t] = "new"
    /\ due' = [due EXCEPT ![t] = now + d]
    /\ seq' = seq + 1
    /\ IF RingFull
       THEN /\ answer' = [answer EXCEPT ![t] = "error"]
            /\ UNCHANGED <<ppc, ptask, retained, seqOf>>
       ELSE /\ retained' = retained \cup {t}
            /\ seqOf' = [seqOf EXCEPT ![t] = seq']
            /\ ptask' = [ptask EXCEPT ![p] = t]
            /\ answer' = [answer EXCEPT ![t] = "calling"]
            /\ ppc' = [ppc EXCEPT ![p] = "clear"]
    /\ UNCHANGED <<env, now, ticker, committed, marked, records, state, queue, progress, tickVars>>

(* Variant: the whole map is replaced.                                     *)
WithoutAny(S, t) == {}

Without(S, t) == S \ {t}

ClearTaskRecord(p) ==
    /\ ppc[p] = "clear"
    /\ records' = Without(records, ptask[p])
    /\ ppc' = [ppc EXCEPT ![p] = "register"]
    /\ UNCHANGED <<env, now, ticker, seq, seqOf, retained, committed, marked, state, queue>>
    /\ UNCHANGED <<ptask, progress, due, answer, tickVars>>

Register(p) ==
    /\ ppc[p] = "register"
    /\ state' = [state EXCEPT ![ptask[p]] = "pending"]
    /\ ppc' = [ppc EXCEPT ![p] = "enqueue"]
    /\ UNCHANGED <<env, now, ticker, storeVars, queue, ptask, progress, due, answer, tickVars>>

(* A task that is not ready is not enqueued; a full queue fails the call.  *)
EnqueueTask(p) ==
    /\ ppc[p] = "enqueue"
    /\ IF ptask[p] \notin env.blocked /\ Cardinality(queue) >= env.queueSize
       THEN Answer(p, "error") /\ UNCHANGED queue
       ELSE /\ queue' = IF ptask[p] \in env.blocked THEN queue ELSE queue \cup {ptask[p]}
            /\ ppc' = [ppc EXCEPT ![p] = "advance"]
            /\ UNCHANGED answer
    /\ UNCHANGED <<env, now, ticker, storeVars, state, ptask, progress, due, tickVars>>

AdvanceProgress(p) ==
    /\ ppc[p] = "advance"
    /\ progress' = Advanced(progress, seqOf[ptask[p]])
    /\ Answer(p, "ok")
    /\ UNCHANGED <<env, now, ticker, storeVars, state, queue, ptask, due, tickVars>>

-----------------------------------------------------------------------------
(* Dispatcher.Tick.  A batch is a set: Drain pops it from the heap in the  *)
(* order of Earliest.                                                      *)

Precedes(t, u) == due[t] < due[u] \/ (due[t] = due[u] /\ t < u)

Earliest(S) == CHOOSE t \in S : \A u \in S \ {t} : Precedes(t, u)

(* Variant: the task that was looked at is not taken out.                  *)
RestAll(S) == S

Rest(S) == S \ {Earliest(S)}

(* clock.NextWindow: the begin of the interval that contains t.            *)
NextWindow(t) == t - (t % Interval)

(* Variant: the begin of the window is left out of it.                     *)
InWindowOpen(t) == begin < due[t] /\ due[t] < begin + Interval

InWindow(t) == begin <= due[t] /\ due[t] < begin + Interval

(* The window is that of the time the ticker sent, however old it is.      *)
Drain ==
    /\ tpc = "idle" /\ ticker # Never
    /\ ticker' = Never
    /\ begin' = NextWindow(ticker)
    /\ batch' = queue
    /\ queue' = {}
    /\ tpc' = IF queue = {} THEN "idle" ELSE "executors"
    /\ UNCHANGED <<env, now, storeVars, state, pubVars, cur, handed, lost>>

Executors ==
    /\ tpc = "executors"
    /\ \/ tpc' = "next"
       \/ "noExecutor" \in env.faults /\ tpc' = "requeue"
    /\ UNCHANGED <<env, now, ticker, storeVars, state, queue, pubVars>>
    /\ UNCHANGED <<batch, begin, cur, handed, lost>>

(* Enqueue's ErrFull is dropped, and the task with it.                     *)
Requeue ==
    /\ tpc = "requeue" /\ batch # {}
    /\ LET t == Earliest(batch)
       IN  /\ batch' = Rest(batch)
           /\ IF Cardinality(queue) < env.queueSize
              THEN queue' = queue \cup {t} /\ UNCHANGED lost
              ELSE lost' = lost \cup {t} /\ UNCHANGED queue
    /\ UNCHANGED <<env, now, ticker, storeVars, state, pubVars, tpc, begin, cur, handed>>

TickReturns ==
    /\ tpc \in {"next", "requeue"} /\ batch = {}
    /\ tpc' = "idle"
    /\ UNCHANGED <<env, now, ticker, storeVars, state, queue, pubVars>>
    /\ UNCHANGED <<batch, begin, cur, handed, lost>>

(* Variant: batch[i+1:].                                                   *)
PutBackTail(S) == Rest(S)

(* What Tick puts back, batch[i:].                                         *)
PutBack(S) == S

(* The first task outside the window sends the rest of the batch back.     *)
OutOfWindow ==
    /\ tpc = "next" /\ batch # {}
    /\ ~InWindow(Earliest(batch))
    /\ tpc' = "requeue"
    /\ batch' = PutBack(batch)
    /\ UNCHANGED <<env, now, ticker, storeVars, state, queue, pubVars>>
    /\ UNCHANGED <<begin, cur, handed, lost>>

(* dispatchOne: a task the limiter or the runner refuses is not put back.  *)
NotHanded ==
    /\ tpc = "next" /\ batch # {}
    /\ InWindow(Earliest(batch))
    /\ env.faults \cap {"limited", "refused"} # {}
    /\ batch' = Rest(batch)
    /\ lost' = lost \cup {Earliest(batch)}
    /\ UNCHANGED <<env, now, ticker, storeVars, state, queue, pubVars>>
    /\ UNCHANGED <<tpc, begin, cur, handed>>

HandOff ==
    /\ tpc = "next" /\ batch # {}
    /\ InWindow(Earliest(batch))
    /\ cur' = Earliest(batch)
    /\ batch' = Rest(batch)
    /\ handed' = Append(handed, cur')
    /\ tpc' = "mark"
    /\ UNCHANGED <<env, now, ticker, storeVars, state, queue, pubVars, begin, lost>>

(* Variant: the sequence given last is taken for one never given.          *)
WithMarkBelow(S, s) == IF s >= seq THEN S ELSE S \cup {s}

WithMark(S, s) == IF s > seq THEN S ELSE S \cup {s}

Mark ==
    /\ tpc = "mark"
    /\ marked' = WithMark(marked, seqOf[cur])
    /\ tpc' = "commit"
    /\ UNCHANGED <<env, now, ticker, seq, seqOf, retained, committed, records, state, queue>>
    /\ UNCHANGED <<pubVars, batch, begin, cur, handed, lost>>

(* No sequence is above Store.seq, so there is no ErrInvalidSequence.      *)
Commit ==
    /\ tpc = "commit"
    /\ committed' = Advanced(committed, seqOf[cur])
    /\ tpc' = "setState"
    /\ UNCHANGED <<env, now, ticker, seq, seqOf, retained, marked, records, state, queue>>
    /\ UNCHANGED <<pubVars, batch, begin, cur, handed, lost>>

SetState ==
    /\ tpc = "setState"
    /\ state' = IF state[cur] = "none" THEN state ELSE [state EXCEPT ![cur] = "dispatched"]
    /\ tpc' = "next"
    /\ cur' = 0
    /\ UNCHANGED <<env, now, ticker, storeVars, queue, pubVars, batch, begin, handed, lost>>

-----------------------------------------------------------------------------
Next ==
    \/ Clock
    \/ \E p \in Publishers, t \in Task, d \in env.delays : AppendTask(p, t, d)
    \/ \E p \in Publishers :
          ClearTaskRecord(p) \/ Register(p) \/ EnqueueTask(p) \/ AdvanceProgress(p)
    \/ Drain \/ Executors \/ Requeue \/ TickReturns \/ OutOfWindow
    \/ NotHanded \/ HandOff \/ Mark \/ Commit \/ SetState

Spec == Init /\ [][Next]_vars

-----------------------------------------------------------------------------
Handed == Range(handed)

(* Type invariant.                                                         *)
TypeOK ==
    /\ env \in Environments
    /\ now \in Nat /\ ticker \in Nat \cup {Never}
    /\ due \in [Task -> DueTime]
    /\ answer \in [Task -> {"new", "calling", "ok", "error"}]
    /\ seq \in Nat /\ seqOf \in [Task -> 0 .. seq]
    /\ retained \subseteq Task /\ Cardinality(retained) <= env.capacity
    /\ committed \in 0 .. seq /\ marked \subseteq 1 .. seq
    /\ records \subseteq Task
    /\ state \in [Task -> {"none", "pending", "dispatched"}]
    /\ queue \subseteq Task /\ Cardinality(queue) <= env.queueSize
    /\ progress \in 0 .. seq
    /\ ppc \in [Publishers -> {"idle", "clear", "register", "enqueue", "advance"}]
    /\ ptask \in [Publishers -> Task \cup {0}]
    /\ \A p \in Publishers : ppc[p] # "idle" => ptask[p] \in Task
    /\ tpc \in {"idle", "executors", "requeue", "next", "mark", "commit", "setState"}
    /\ batch \subseteq Task /\ begin \in Nat
    /\ tpc \in {"mark", "commit", "setState"} => cur \in Task
    /\ handed \in Seq(Task) /\ lost \subseteq Task

(* "the same task is not concurrently run twice" (BENZHI_README.md:5-6):   *)
(* draining, requeueing and concurrent publishing never hand a task off a  *)
(* second time.                                                            *)
HandedOnce == \A m, n \in 1 .. Len(handed) : handed[m] = handed[n] => m = n

(* The cursor is never ahead of the hand-offs: the highest committed       *)
(* sequence belongs to a task that was handed off and is marked.           *)
CursorBacked ==
    committed # 0 =>
        /\ committed \in marked
        /\ \E t \in Handed : seqOf[t] = committed

(* What the console shows is what happened: once the tick is through with  *)
(* a task it handed off, its state is dispatched, its sequence is marked   *)
(* and the cursor has reached it; and no other task is shown dispatched.   *)
StateTruthful ==
    \A t \in Task :
        /\ t \in Handed /\ cur # t =>
              state[t] = "dispatched" /\ seqOf[t] \in marked /\ seqOf[t] <= committed
        /\ state[t] = "dispatched" => t \in Handed

(* A task whose publish was answered ok, and that has no open dependency,  *)
(* is waiting, handed off, or was lost by a drop the model names; and a    *)
(* task is only ever in one of these places.                               *)
Accounted ==
    /\ \A t \in Task \ env.blocked :
          answer[t] = "ok" => t \in queue \cup batch \cup Handed \cup lost
    /\ queue \cap batch = {}
    /\ (queue \cup batch) \cap (Handed \cup lost) = {}
    /\ Handed \cap lost = {}

(* "The batch is ordered by due time, so once a task is out of the window  *)
(* everything after it is too" (dispatch.go:140-142): no task that is put  *)
(* back at that point belongs to the window.                               *)
TailOutside ==
    [][tpc = "next" /\ tpc' = "requeue" => \A t \in batch : ~InWindow(t)]_vars

(* "The scheduler hands due tasks by scheduling window to an executor that *)
(* holds a lease" and tasks are not lost (BENZHI_README.md:4-6): with      *)
(* executors always there, nothing refused and goroutines in time, a task  *)
(* accepted for publishing is handed off in the interval it is due, if all *)
(* tasks are published at least an interval ahead and the tick could put   *)
(* back what publishers left room for; a queue with room for all the store *)
(* retains loses none.  (A task whose interval has already had its tick is *)
(* in no later window.)                                                    *)
OnTime ==
    env.faults = {} /\ (\A d \in env.delays : d >= Interval) =>
        /\ \A t \in Task \ env.blocked :
              answer[t] = "ok" /\ Idle /\ now >= NextWindow(due[t]) + Interval
                  => t \in Handed \cup lost
        /\ env.queueSize >= env.capacity => lost = {}
=============================================================================
