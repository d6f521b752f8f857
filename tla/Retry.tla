------------------------------- MODULE Retry --------------------------------
(***************************************************************************)
(* The retry planner (internal/retry).  Nothing in cmd/jobsched uses it: a *)
(* client of the package that saw a task fail asks Requeueable and then    *)
(* calls Plan for the next instance, which carries the task's dedupe key   *)
(* (for what the executor does with it see module Runner).  Each call      *)
(* takes the planner's mutex once; between its two calls a client may be   *)
(* overtaken by others that retry the same task, or reset it.              *)
(***************************************************************************)
EXTENDS Integers, Sequences

CONSTANTS
    Failed,         \* the ids of tasks that failed
    Keyless,        \* those of them that have no dedupe key
    Clients,        \* goroutines that retry
    MaxAttempts,    \* Planner.max
    MaxResets       \* bound on calls of Reset

ASSUME RetryAssumption == /\ Keyless \subseteq Failed
                          /\ MaxAttempts \in Nat /\ MaxResets \in Nat

VARIABLES
    attempts,       \* Planner.attempts; 0 for a missing entry
    asked,          \* the task each client has been told it can retry, or none
    resets,         \* counter for the bound
    planned         \* history: the attempt numbers Plan gave since the last Reset

retryVars == <<attempts, asked, resets, planned>>

RetryInit ==
    /\ attempts = [t \in Failed |-> 0]
    /\ asked = [c \in Clients |-> {}]
    /\ resets = 0
    /\ planned = [t \in Failed |-> <<>>]

Requeueable(c, t) ==
    /\ asked[c] = {} /\ attempts[t] < MaxAttempts
    /\ asked' = [asked EXCEPT ![c] = {t}]
    /\ UNCHANGED <<attempts, resets, planned>>

(* Variant: that Requeueable said yes is taken for enough.                 *)
ExhaustedNever(t) == FALSE

Exhausted(t) == attempts[t] + 1 > MaxAttempts

(* Validate's error and ErrTooManyRetries change nothing.                  *)
Plan(c, t) ==
    /\ t \in asked[c]
    /\ asked' = [asked EXCEPT ![c] = {}]
    /\ IF t \in Keyless \/ Exhausted(t)
       THEN UNCHANGED <<attempts, planned>>
       ELSE /\ attempts' = [attempts EXCEPT ![t] = @ + 1]
            /\ planned' = [planned EXCEPT ![t] = Append(@, attempts'[t])]
    /\ UNCHANGED resets

Reset(t) ==
    /\ resets < MaxResets
    /\ resets' = resets + 1
    /\ attempts' = [attempts EXCEPT ![t] = 0]
    /\ planned' = [planned EXCEPT ![t] = <<>>]
    /\ UNCHANGED asked

RetryNext ==
    \/ \E c \in Clients, t \in Failed : Requeueable(c, t) \/ Plan(c, t)
    \/ \E t \in Failed : Reset(t)

RetrySpec == RetryInit /\ [][RetryNext]_retryVars

-----------------------------------------------------------------------------
(* However many clients were told that the task can be retried before any  *)
(* of them planned, the instances planned since the last reset are at most *)
(* the budget, and are numbered one by one: no two are the same attempt.   *)
RetryBudget ==
    \A t \in Failed :
        /\ Len(planned[t]) <= MaxAttempts
        /\ \A k \in 1 .. Len(planned[t]) : planned[t][k] = k
=============================================================================
