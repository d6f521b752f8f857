------------------------------- MODULE Limiter -------------------------------
(***************************************************************************)
(* The token bucket of each executor (internal/flow).  Allow reads the     *)
(* clock and updates the bucket under one mutex, so a call is one step,    *)
(* whoever makes it.                                                       *)
(*                                                                         *)
(* The code counts in float64 tokens and seconds.  Here a token is Unit    *)
(* grains and a policy's rate is in grains per unit of time, so fractions  *)
(* of a token are kept; the rounding of floats is not modelled.            *)
(***************************************************************************)
EXTENDS Integers, FiniteSetsExt

CONSTANTS
    Exec,           \* executor ids
    Unit,           \* grains in a token
    Policies,       \* the policies that may be configured
    DefaultPolicy,  \* flow.DefaultPolicy()
    MaxTime         \* bound on the clock

Policy == [rate : Int, burst : Int]
Valid(p) == p.rate > 0 /\ p.burst > 0

ASSUME UnitAssumption   == Unit \in Nat \ {0} /\ MaxTime \in Nat
ASSUME PolicyAssumption == /\ Policies \subseteq Policy
                           /\ DefaultPolicy \in Policy /\ Valid(DefaultPolicy)

VARIABLES
    now,
    policy,         \* Limiter.rate and Limiter.burst
    tokens, seen,   \* Limiter.last: each bucket's grains and last use, or Never
    allowed         \* history: allowed[e][s] calls were allowed at time s or later

bucketVars == <<tokens, seen, allowed>>
limiterVars == <<now, policy, bucketVars>>

Never == -1
Time  == 0 .. MaxTime

(* NewLimiter: an invalid policy is replaced.                              *)
LimiterInit ==
    /\ now = 0
    /\ \E p \in Policies : policy = IF Valid(p) THEN p ELSE DefaultPolicy
    /\ tokens = [e \in Exec |-> 0] /\ seen = [e \in Exec |-> Never]
    /\ allowed = [e \in Exec |-> [s \in Time |-> 0]]

Clock ==
    /\ now < MaxTime
    /\ now' = now + 1
    /\ UNCHANGED <<policy, bucketVars>>

Capacity == Unit * policy.burst

(* Variant: the bucket is not capped.                                      *)
RefilledUncapped(e) ==
    IF seen[e] = Never THEN Capacity
    ELSE tokens[e] + policy.rate * (now - seen[e])

(* What the bucket holds once the time since its last use is credited.     *)
Refilled(e) ==
    IF seen[e] = Never THEN Capacity
    ELSE LET credited == tokens[e] + policy.rate * (now - seen[e])
         IN  IF credited > Capacity THEN Capacity ELSE credited

(* Variants: a refused call forgets the fraction of a token it found; a    *)
(* token is taken although there is only a part of one.                    *)
FoundForgotten(e) == tokens[e]
RefusesEmpty(e) == Refilled(e) <= 0

Found(e) == Refilled(e)

Refuses(e) == Refilled(e) < Unit

Allow(e) ==
    /\ seen' = [seen EXCEPT ![e] = now]
    /\ IF Refuses(e)
       THEN /\ tokens' = [tokens EXCEPT ![e] = Found(e)]
            /\ UNCHANGED allowed
       ELSE /\ tokens' = [tokens EXCEPT ![e] = Refilled(e) - Unit]
            /\ allowed' = [allowed EXCEPT ![e] =
                              [s \in Time |-> IF s <= now THEN @[s] + 1 ELSE @[s]]]
    /\ UNCHANGED <<now, policy>>

LimiterNext == Clock \/ \E e \in Exec : Allow(e)

LimiterSpec == LimiterInit /\ [][LimiterNext]_limiterVars

-----------------------------------------------------------------------------
(* Type invariant.  A bucket never holds more than the burst nor less than *)
(* nothing.                                                                *)
LimiterTypeOK ==
    /\ now \in Time
    /\ policy \in Policy /\ Valid(policy)
    /\ tokens \in [Exec -> 0 .. Capacity]
    /\ \A e \in Exec : seen[e] \in -1 .. now
    /\ seen \in [Exec -> Int]
    /\ allowed \in [Exec -> [Time -> Nat]]

Budget(e, s) == Capacity + policy.rate * (now - s)

(* "a slow executor cannot stall the whole scheduler" (flow.go:1-2): in no *)
(* stretch of time is an executor given more than the burst plus what the  *)
(* rate yields in that time, however the calls are spaced.                 *)
WindowBound ==
    \A e \in Exec : \A s \in 0 .. now : Unit * allowed[e][s] <= Budget(e, s)

TightestLeft(e) == Min({Budget(e, s) - Unit * allowed[e][s] : s \in 0 .. now})

(* And the limiter is not stricter than that: what a bucket can give now   *)
(* is what the tightest stretch leaves, so a call is refused only where    *)
(* allowing it would exceed the budget of some stretch.                    *)
Exact == \A e \in Exec : Refilled(e) = TightestLeft(e)
=============================================================================
