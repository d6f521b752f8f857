------------------------------ MODULE MCTables ------------------------------
(***************************************************************************)
(* Instances of Groups, Deps, Limiter and Retry for TLC, in one run: none  *)
(* of them knows of another, and each has the run to itself in some of the *)
(* behaviours, from the initial state on.  A token is four grains, so that *)
(* the rates yield three quarters of a token and a token and a quarter per *)
(* unit of time; the third policy is invalid.                              *)
(***************************************************************************)
EXTENDS MCGroups, MCDeps, Limiter, Retry

Configured == {[rate |-> 3, burst |-> 2], [rate |-> 5, burst |-> 1],
               [rate |-> 0, burst |-> 3]}
Fallback   == [rate |-> 2, burst |-> 3]

VARIABLE part       \* the module that takes the steps

TablesInit ==
    /\ GroupsInit /\ DepsInit /\ LimiterInit /\ RetryInit
    /\ part \in {"groups", "deps", "limiter", "retry"}
    /\ part # "limiter" => policy = Fallback

TablesNext ==
    /\ UNCHANGED part
    /\ \/ /\ part = "groups" /\ GroupsNext
          /\ UNCHANGED <<depsVars, limiterVars, retryVars>>
       \/ /\ part = "deps" /\ DepsNext
          /\ UNCHANGED <<groupsVars, limiterVars, retryVars>>
       \/ /\ part = "limiter" /\ LimiterNext
          /\ UNCHANGED <<groupsVars, depsVars, retryVars>>
       \/ /\ part = "retry" /\ RetryNext
          /\ UNCHANGED <<groupsVars, depsVars, limiterVars>>

TablesSpec ==
    TablesInit /\ [][TablesNext]_<<groupsVars, depsVars, limiterVars, retryVars, part>>
=============================================================================
