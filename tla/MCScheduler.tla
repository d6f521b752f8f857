---------------------------- MODULE MCScheduler -----------------------------
(***************************************************************************)
(* Instances of Scheduler and Readers for TLC.  Rough has every fault and  *)
(* requests that are overdue when they come; Tight the smallest limits;    *)
(* Calm no fault and early requests, and Crowded the same with a queue     *)
(* smaller than the store; Watched a status page; Replayed a catch-up and  *)
(* the handler; Hasty no fault and requests that are due at once.          *)
(***************************************************************************)
EXTENDS Readers, TLC

Symmetric == Permutations(Publishers)

Rough == [faults |-> AllFaults, delays |-> {-1, 1, 3}, blocked |-> {},
          capacity |-> 2, queueSize |-> 2, maxTime |-> 4, readers |-> {}]

Tight == [faults |-> AllFaults, delays |-> {0, 2}, blocked |-> {3},
          capacity |-> 2, queueSize |-> 1, maxTime |-> 4, readers |-> {}]

Calm == [faults |-> {}, delays |-> {2, 3}, blocked |-> {3},
         capacity |-> 3, queueSize |-> 3, maxTime |-> 7, readers |-> {}]

Crowded == [faults |-> {}, delays |-> {2, 3}, blocked |-> {},
            capacity |-> 3, queueSize |-> 1, maxTime |-> 4, readers |-> {}]

Hasty == [faults |-> {}, delays |-> {0}, blocked |-> {},
          capacity |-> 2, queueSize |-> 2, maxTime |-> 5, readers |-> {}]

Watched == [faults |-> {}, delays |-> {0}, blocked |-> {},
            capacity |-> 2, queueSize |-> 2, maxTime |-> 1, readers |-> {"status"}]

Replayed == [faults |-> {}, delays |-> {0, 2}, blocked |-> {},
             capacity |-> 2, queueSize |-> 2, maxTime |-> 2,
             readers |-> {"catchUp", "handler"}]

MixedEnvironments == {Rough, Tight, Calm, Crowded, Watched, Replayed}
HastyEnvironments == {Hasty}
=============================================================================
