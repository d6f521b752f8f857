---------------------------- MODULE ExecutorSlot ----------------------------
(***************************************************************************)
(* What an executor slot promises to its clients, without queues, locks,   *)
(* dedupe tables or replay windows: a call made while the slot is open may *)
(* be accepted, parked or refused; an accepted instance is started at most *)
(* once, one at a time, and only while the slot is open; it is given up    *)
(* only once the slot is closing, a parked one also earlier; and the slot  *)
(* is released when nothing runs.  Module Runner refines this one.         *)
(***************************************************************************)
CONSTANT Inst       \* execution attempts, one per call

VARIABLES
    slot,           \* "open", then "closing", then "released"
    st              \* st[i] : where instance i is in its life

slotVars == <<slot, st>>

Stages == {"new", "calling", "refused", "parked", "pending", "running", "finished", "lost"}

SlotInit ==
    /\ slot = "open"
    /\ st = [i \in Inst |-> "new"]

Move(i, from, to) ==
    /\ st[i] = from
    /\ st' = [st EXCEPT ![i] = to]

(* A call begins; it has a chance only while the slot is open.             *)
Call(i) == slot = "open" /\ Move(i, "new", "calling") /\ UNCHANGED slot

(* A call that begins and is answered at once.                             *)
CallAccepted(i) == slot = "open" /\ Move(i, "new", "pending") /\ UNCHANGED slot
CallParked(i)   == slot = "open" /\ Move(i, "new", "parked") /\ UNCHANGED slot
CallRefused(i)  == Move(i, "new", "refused") /\ UNCHANGED slot

(* A waiting call is answered, whatever became of the slot meanwhile.      *)
Accept(i) == Move(i, "calling", "pending") /\ UNCHANGED slot
Refuse(i) == Move(i, "calling", "refused") /\ UNCHANGED slot

(* What is parked is queued later, or is dropped.                          *)
Unpark(i) == Move(i, "parked", "pending") /\ UNCHANGED slot
Drop(i)   == Move(i, "parked", "lost") /\ UNCHANGED slot

Start(i) ==
    /\ slot = "open"
    /\ \A j \in Inst : st[j] # "running"
    /\ Move(i, "pending", "running")
    /\ UNCHANGED slot

Finish(i) == slot # "released" /\ Move(i, "running", "finished") /\ UNCHANGED slot

GiveUp(i) == slot # "open" /\ Move(i, "pending", "lost") /\ UNCHANGED slot

Close == slot = "open" /\ slot' = "closing" /\ UNCHANGED st

Release ==
    /\ slot = "closing"
    /\ \A i \in Inst : st[i] # "running"
    /\ slot' = "released"
    /\ UNCHANGED st

SlotNext ==
    \/ \E i \in Inst :
          \/ Call(i) \/ CallAccepted(i) \/ CallParked(i) \/ CallRefused(i)
          \/ Accept(i) \/ Refuse(i) \/ Unpark(i) \/ Drop(i)
          \/ Start(i) \/ Finish(i) \/ GiveUp(i)
    \/ Close
    \/ Release

SlotSpec == SlotInit /\ [][SlotNext]_slotVars
=============================================================================
