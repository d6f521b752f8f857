---------------------------- MODULE LimiterProofs ----------------------------
(***************************************************************************)
(* That the token bucket keeps every executor within its budget, for every *)
(* policy, number of executors and granularity.                            *)
(*                                                                         *)
(* WindowBound is not inductive: it says nothing of what a bucket may      *)
(* still give.  Spent adds the tokens left at the last use to what was     *)
(* given since s, and that sum stays within the budget of the stretch from *)
(* s to the last use.  Exact, that no call is refused without need, has    *)
(* Tight: some stretch meets that bound, so the tokens are not too few.    *)
(*                                                                         *)
(* The module also proves what the retry planner, the other part that      *)
(* counts what it gives against a budget, promises.                        *)
(***************************************************************************)
EXTENDS Limiter, Retry, TLAPS

Spent ==
    \A e \in Exec : \A s \in Time :
        /\ s <= seen[e] =>
              Unit * allowed[e][s] + tokens[e] <= Capacity + policy.rate * (seen[e] - s)
        /\ s > seen[e] => allowed[e][s] = 0

IInv == LimiterTypeOK /\ Spent

(* What a rate yields in a stretch of time is the sum of what it yields in *)
(* its parts, and is never negative.                                       *)
LEMMA Yield ==
    ASSUME NEW r \in Nat, NEW a \in Nat, NEW b \in Nat
    PROVE  /\ r * (a + b) = r * a + r * b
           /\ r * a \in Nat
  OBVIOUS

(* What a bucket is refilled to: at most its capacity, and at most what    *)
(* it held plus what the rate yields since its last use.                   *)
LEMMA RefilledBounds ==
    ASSUME LimiterTypeOK, NEW e \in Exec
    PROVE  /\ Capacity \in Nat
           /\ Refilled(e) \in 0 .. Capacity
           /\ seen[e] # Never =>
                 /\ now - seen[e] \in Nat
                 /\ Refilled(e) <= tokens[e] + policy.rate * (now - seen[e])
  <1>1. now \in Nat /\ policy.rate \in Nat /\ policy.burst \in Nat
    BY UnitAssumption DEF UnitAssumption, LimiterTypeOK, Policy, Valid, Time
  <1>2. Capacity \in Nat
    BY <1>1, UnitAssumption, Yield DEF UnitAssumption, Capacity
  <1>3. tokens[e] \in 0 .. Capacity /\ seen[e] \in -1 .. now
    BY DEF LimiterTypeOK
  <1>4. CASE seen[e] = Never
    BY <1>2, <1>4 DEF Refilled
  <1>5. CASE seen[e] # Never
    <2>1. now - seen[e] \in Nat
      BY <1>1, <1>3, <1>5 DEF Never
    <2>2. policy.rate * (now - seen[e]) \in Nat
      BY <1>1, <2>1, Yield
    <2> QED
      BY <1>2, <1>3, <1>5, <2>1, <2>2 DEF Refilled
  <1> QED
    BY <1>4, <1>5

(* The clock, the rate and the unit are numbers, and the bounds of Time    *)
(* contain every moment there has been.                                    *)
LEMMA Numbers ==
    ASSUME LimiterTypeOK
    PROVE  /\ now \in Nat /\ policy.rate \in Nat /\ Unit \in Nat
           /\ \A s \in 0 .. now : s \in Time /\ s \in Nat
  <1>1. MaxTime \in Nat /\ Unit \in Nat
    BY UnitAssumption DEF UnitAssumption
  <1>2. now \in Time
    BY DEF LimiterTypeOK
  <1>3. now \in Nat /\ \A s \in 0 .. now : s \in Time /\ s \in Nat
    BY <1>1, <1>2 DEF Time
  <1>4. policy.rate \in Nat
    BY DEF LimiterTypeOK, Policy, Valid
  <1> QED
    BY <1>1, <1>3, <1>4

(* A limiter without buckets satisfies the invariant, also when its policy *)
(* was replaced by the default.                                            *)
LEMMA InitHolds == LimiterInit => IInv
  <1> SUFFICES ASSUME LimiterInit PROVE IInv
    OBVIOUS
  <1>1. policy \in Policy /\ Valid(policy)
    BY PolicyAssumption DEF PolicyAssumption, LimiterInit
  <1>2. Capacity \in Nat
    BY <1>1, UnitAssumption, Yield DEF UnitAssumption, Capacity, Policy, Valid
  <1>3. LimiterTypeOK
    BY <1>1, <1>2, UnitAssumption DEF UnitAssumption, LimiterInit, LimiterTypeOK, Never, Time
  <1>4. Spent
    BY DEF LimiterInit, Spent, Never, Time
  <1> QED
    BY <1>3, <1>4 DEF IInv

(* The time alone changes: the buckets are judged at their last use.       *)
LEMMA ClockKeeps ==
    ASSUME IInv, Clock
    PROVE  IInv'
  <1> USE DEF Clock, bucketVars
  <1>1. LimiterTypeOK'
    BY UnitAssumption DEF UnitAssumption, IInv, LimiterTypeOK, Time, Capacity
  <1>2. Spent'
    BY DEF IInv, Spent, Capacity
  <1> QED
    BY <1>1, <1>2 DEF IInv

(* A call of Allow leaves the bucket between empty and full.               *)
LEMMA AllowTyped ==
    ASSUME IInv, NEW e \in Exec, Allow(e)
    PROVE  LimiterTypeOK'
  <1>1. LimiterTypeOK /\ now \in Nat
    BY DEF IInv, LimiterTypeOK, Time
  <1>2. Capacity \in Nat /\ Refilled(e) \in 0 .. Capacity
    BY <1>1, RefilledBounds
  <1>3. Capacity' = Capacity
    BY DEF Allow, Found, Refuses, Capacity
  <1>4. seen' \in [Exec -> Int] /\ \A f \in Exec : seen'[f] \in -1 .. now'
    BY <1>1 DEF Allow, Found, Refuses, LimiterTypeOK
  <1>5. tokens' \in [Exec -> 0 .. Capacity]
    <2>1. CASE Refilled(e) < Unit
      BY <1>1, <1>2, <2>1 DEF Allow, Found, Refuses, LimiterTypeOK
    <2>2. CASE ~(Refilled(e) < Unit)
      <3>1. Refilled(e) - Unit \in 0 .. Capacity
        BY <1>2, <2>2, UnitAssumption DEF UnitAssumption
      <3> QED
        BY <1>1, <2>2, <3>1 DEF Allow, Found, Refuses, LimiterTypeOK
    <2> QED
      BY <2>1, <2>2
  <1>6. allowed' \in [Exec -> [Time -> Nat]]
    BY <1>1 DEF Allow, Found, Refuses, LimiterTypeOK
  <1> QED
    BY <1>1, <1>3, <1>4, <1>5, <1>6 DEF Allow, Found, Refuses, LimiterTypeOK

(* A call of Allow for e moves a token from what is left to what was given *)
(* in every stretch that has begun, or none if there is not a whole one.   *)
LEMMA AllowMoves ==
    ASSUME IInv, NEW e \in Exec, Allow(e)
    PROVE  /\ Refilled(e) \in 0 .. Capacity /\ tokens'[e] \in 0 .. Capacity
           /\ seen[e] \in -1 .. now /\ seen'[e] = now
           /\ policy' = policy /\ Capacity' = Capacity /\ now' = now
           /\ \A f \in Exec \ {e} :
                 seen'[f] = seen[f] /\ tokens'[f] = tokens[f] /\ allowed'[f] = allowed[f]
           /\ \A s \in Time :
                 /\ Unit * allowed[e][s] \in Nat /\ Unit * allowed'[e][s] \in Nat
                 /\ s <= now => Unit * allowed'[e][s] + tokens'[e]
                                    = Unit * allowed[e][s] + Refilled(e)
                 /\ s > now => allowed'[e][s] = allowed[e][s]
  <1> DEFINE gain(s) == IF Refilled(e) >= Unit /\ s <= now THEN 1 ELSE 0
  <1>1. /\ LimiterTypeOK /\ now \in Nat /\ Unit \in Nat
        /\ policy' = policy /\ Capacity' = Capacity /\ now' = now
    <2>1. LimiterTypeOK
      BY DEF IInv
    <2>2. policy' = policy /\ Capacity' = Capacity /\ now' = now
      BY DEF Allow, Capacity
    <2> QED
      BY <2>1, <2>2, Numbers
  <1>2. /\ Capacity \in Nat /\ Refilled(e) \in 0 .. Capacity
        /\ seen[e] \in -1 .. now /\ seen' = [seen EXCEPT ![e] = now]
    BY <1>1, RefilledBounds DEF LimiterTypeOK, Allow
  <1>3. \A f \in Exec \ {e} :
            seen'[f] = seen[f] /\ tokens'[f] = tokens[f] /\ allowed'[f] = allowed[f]
    BY <1>1 DEF Allow, Found, Refuses, LimiterTypeOK
  <1>4. seen'[e] = now
    BY <1>1, <1>2 DEF LimiterTypeOK
  <1>5. tokens'[e] \in 0 .. Capacity
    BY <1>1, AllowTyped DEF LimiterTypeOK
  <1>6. \A s \in Time :
            /\ allowed[e][s] \in Nat
            /\ allowed'[e][s] = allowed[e][s] + gain(s)
            /\ s <= now => tokens'[e] = Refilled(e) - Unit * gain(s)
    <2>1. CASE Refilled(e) < Unit
      BY <1>1, <1>2, <2>1 DEF Allow, Found, Refuses, LimiterTypeOK
    <2>2. CASE Refilled(e) >= Unit
      BY <1>1, <1>2, <2>2 DEF Allow, Found, Refuses, LimiterTypeOK
    <2> QED
      BY <1>1, <1>2, <2>1, <2>2
  <1>7. ASSUME NEW s \in Time
        PROVE  /\ Unit * allowed[e][s] \in Nat /\ Unit * gain(s) \in Nat
               /\ Unit * allowed'[e][s] = Unit * allowed[e][s] + Unit * gain(s)
    <2>1. /\ gain(s) \in Nat /\ allowed[e][s] \in Nat
          /\ allowed'[e][s] = allowed[e][s] + gain(s)
      BY <1>6
    <2> HIDE DEF gain
    <2>2. Unit * (allowed[e][s] + gain(s)) = Unit * allowed[e][s] + Unit * gain(s)
      BY <1>1, <2>1, Yield
    <2>3. Unit * allowed[e][s] \in Nat /\ Unit * gain(s) \in Nat
      BY <1>1, <2>1, Yield
    <2> QED
      BY <2>1, <2>2, <2>3
  <1>8. ASSUME NEW s \in Time
        PROVE  /\ Unit * allowed[e][s] \in Nat /\ Unit * allowed'[e][s] \in Nat
               /\ s <= now => Unit * allowed'[e][s] + tokens'[e]
                                  = Unit * allowed[e][s] + Refilled(e)
               /\ s > now => allowed'[e][s] = allowed[e][s]
    <2>1. s > now => gain(s) = 0
      BY <1>1, UnitAssumption DEF UnitAssumption, Time
    <2>2. s > now => allowed'[e][s] = allowed[e][s]
      BY <1>6, <2>1
    <2> QED
      BY <1>2, <1>6, <1>7, <2>2
  <1> QED
    BY <1>1, <1>2, <1>3, <1>4, <1>5, <1>8

(* What the rate yields from s to now is what it yields up to m and since. *)
LEMMA YieldSplit ==
    ASSUME NEW r \in Nat, NEW s \in Nat, NEW m \in Nat, NEW n \in Nat, s <= m, m <= n
    PROVE  /\ r * (n - s) = r * (m - s) + r * (n - m)
           /\ r * (m - s) \in Nat /\ r * (n - m) \in Nat
  <1>1. PICK a \in Nat, b \in Nat : a = m - s /\ b = n - m
    OBVIOUS
  <1>2. n - s = a + b
    BY <1>1
  <1> QED
    BY <1>1, <1>2, Yield

(* The heart of the argument: the sum Spent bounds grows by what the rate  *)
(* yielded since the last use, and a grant only moves a token from what is *)
(* left to what was given.                                                 *)
LEMMA AllowSpends ==
    ASSUME IInv, NEW e \in Exec, Allow(e)
    PROVE  Spent'
  <1>1. /\ LimiterTypeOK /\ Spent /\ now \in Nat /\ policy.rate \in Nat /\ Unit \in Nat
        /\ Capacity \in Nat
    BY Numbers, RefilledBounds DEF IInv
  <1>2. ASSUME NEW s \in Time, s <= now
        PROVE  Unit * allowed'[e][s] + tokens'[e] <= Capacity + policy.rate * (now - s)
    <2>1. s \in Nat /\ now - s \in Nat /\ policy.rate * (now - s) \in Nat
      BY <1>1, <1>2, Yield, UnitAssumption DEF UnitAssumption, Time
    <2>2. Unit * allowed'[e][s] + tokens'[e] = Unit * allowed[e][s] + Refilled(e)
      BY <1>2, AllowMoves
    <2>3. CASE s > seen[e]
      <3>1. Unit * allowed[e][s] = 0
        BY <1>1, <2>3 DEF Spent
      <3> QED
        BY <1>1, <2>1, <2>2, <3>1, AllowMoves
    <2>4. CASE s <= seen[e]
      <3>1. seen[e] \in Nat /\ seen[e] <= now /\ seen[e] # Never
        BY <1>1, <2>1, <2>4, AllowMoves DEF Never
      <3>2. Refilled(e) <= tokens[e] + policy.rate * (now - seen[e])
        BY <1>1, <3>1, RefilledBounds
      <3>3. /\ policy.rate * (now - s)
                   = policy.rate * (seen[e] - s) + policy.rate * (now - seen[e])
            /\ policy.rate * (seen[e] - s) \in Nat
            /\ policy.rate * (now - seen[e]) \in Nat
        BY <1>1, <2>1, <2>4, <3>1, YieldSplit
      <3>4. Unit * allowed[e][s] + tokens[e]
                <= Capacity + policy.rate * (seen[e] - s)
        BY <1>1, <2>4 DEF Spent
      <3>5. /\ Unit * allowed[e][s] \in Nat /\ tokens[e] \in Nat
            /\ Refilled(e) \in Nat
        BY <1>1, AllowMoves DEF LimiterTypeOK
      <3> QED
        BY <1>1, <2>1, <2>2, <3>2, <3>3, <3>4, <3>5
    <2> QED
      BY <1>1, <2>1, <2>3, <2>4, AllowMoves
  <1>3. ASSUME NEW s \in Time, s > now
        PROVE  allowed'[e][s] = 0
    <2>1. s > seen[e]
      BY <1>1, <1>3, AllowMoves, UnitAssumption DEF UnitAssumption, Time
    <2> QED
      BY <1>1, <1>3, <2>1, AllowMoves DEF Spent
  <1> QED
    BY <1>1, <1>2, <1>3, AllowMoves DEF Spent

(* For Exact the bound must be met: some stretch that had begun at the     *)
(* last use leaves exactly the grains that are in the bucket.              *)
Tight ==
    \A e \in Exec : seen[e] # Never =>
        \E s \in 0 .. seen[e] :
            Unit * allowed[e][s] + tokens[e] = Capacity + policy.rate * (seen[e] - s)

(* What is in the bucket once it was refilled is what some stretch up to   *)
(* now leaves: the one of Tight, or the one that begins now if the bucket  *)
(* was capped or is new.                                                   *)
LEMMA RefilledMeetsBudget ==
    ASSUME IInv, Tight, NEW e \in Exec
    PROVE  \E s \in 0 .. now :
               Unit * allowed[e][s] + Refilled(e) = Capacity + policy.rate * (now - s)
  <1>1. /\ LimiterTypeOK /\ Spent /\ now \in Nat /\ policy.rate \in Nat /\ Unit \in Nat
        /\ Capacity \in Nat /\ \A s \in 0 .. now : s \in Time
    BY Numbers, RefilledBounds DEF IInv
  <1>2. tokens[e] \in 0 .. Capacity /\ seen[e] \in -1 .. now
    BY <1>1 DEF LimiterTypeOK
  <1>3. CASE Refilled(e) = Capacity /\ seen[e] < now
    <2>1. allowed[e][now] = 0
      BY <1>1, <1>2, <1>3 DEF Spent
    <2>2. now - now = 0 /\ policy.rate * 0 = 0 /\ Unit * 0 = 0
      BY <1>1
    <2>3. Unit * allowed[e][now] + Refilled(e) = Capacity + policy.rate * (now - now)
      BY <1>1, <1>3, <2>1, <2>2
    <2> QED
      BY <1>1, <2>3
  <1>4. CASE /\ seen[e] # Never
             /\ Refilled(e) = tokens[e] + policy.rate * (now - seen[e])
    <2>1. PICK s \in 0 .. seen[e] :
              Unit * allowed[e][s] + tokens[e] = Capacity + policy.rate * (seen[e] - s)
      BY <1>4 DEF Tight
    <2>2. /\ seen[e] \in Nat /\ seen[e] <= now
          /\ s \in 0 .. now /\ s \in Nat /\ s <= seen[e]
      BY <1>1, <1>2, <1>4, <2>1 DEF Never
    <2>3. /\ policy.rate * (now - s)
                 = policy.rate * (seen[e] - s) + policy.rate * (now - seen[e])
          /\ policy.rate * (seen[e] - s) \in Nat /\ policy.rate * (now - seen[e]) \in Nat
      BY <1>1, <2>2, YieldSplit
    <2>4. Unit * allowed[e][s] \in Nat
      <3>1. allowed[e][s] \in Nat
        BY <1>1, <2>2 DEF LimiterTypeOK
      <3> QED
        BY <1>1, <3>1, Yield
    <2>5. Unit * allowed[e][s] + Refilled(e) = Capacity + policy.rate * (now - s)
      BY <1>1, <1>2, <1>4, <2>1, <2>3, <2>4
    <2> QED
      BY <2>2, <2>5
  <1>5. CASE seen[e] = Never
    BY <1>1, <1>3, <1>5 DEF Refilled, Never
  <1>6. CASE seen[e] # Never /\ seen[e] = now
    <2>1. now - seen[e] = 0 /\ policy.rate * 0 = 0
      BY <1>1, <1>6
    <2>2. tokens[e] + policy.rate * (now - seen[e]) = tokens[e]
      BY <1>1, <1>2, <2>1
    <2>3. Refilled(e) = tokens[e] + policy.rate * (now - seen[e])
      BY <1>1, <1>2, <1>6, <2>2 DEF Refilled
    <2> QED
      BY <1>4, <1>6, <2>3
  <1>7. CASE seen[e] # Never /\ seen[e] < now
    BY <1>3, <1>4, <1>7 DEF Refilled
  <1> QED
    BY <1>1, <1>2, <1>5, <1>6, <1>7

(* A call of Allow leaves the bucket with what that stretch leaves.        *)
LEMMA AllowTight ==
    ASSUME IInv, Tight, NEW e \in Exec, Allow(e)
    PROVE  Tight'
  <1> SUFFICES ASSUME NEW f \in Exec, seen'[f] # Never
               PROVE  \E s \in 0 .. seen'[f] :
                          Unit * allowed'[f][s] + tokens'[f]
                              = Capacity' + policy'.rate * (seen'[f] - s)
    BY DEF Tight
  <1>1. LimiterTypeOK /\ now \in Nat /\ \A s \in 0 .. now : s \in Time
    BY Numbers DEF IInv
  <1>2. CASE f # e
    BY <1>2, AllowMoves DEF Tight
  <1>3. CASE f = e
    <2>1. PICK s \in 0 .. now :
              Unit * allowed[e][s] + Refilled(e) = Capacity + policy.rate * (now - s)
      BY RefilledMeetsBudget
    <2>2. s \in Time /\ s <= now
      BY <1>1
    <2>3. Unit * allowed'[e][s] + tokens'[e] = Unit * allowed[e][s] + Refilled(e)
      BY <2>2, AllowMoves
    <2> QED
      BY <1>3, <2>1, <2>3, AllowMoves
  <1> QED
    BY <1>2, <1>3

(* Every step keeps the tightest stretch tight.                            *)
LEMMA StepTight == IInv /\ Tight /\ [LimiterNext]_limiterVars => Tight'
  <1> SUFFICES ASSUME IInv, Tight, [LimiterNext]_limiterVars PROVE Tight'
    OBVIOUS
  <1>1. CASE Clock \/ UNCHANGED limiterVars
    BY <1>1 DEF Clock, limiterVars, bucketVars, Tight, Capacity
  <1>2. ASSUME NEW e \in Exec, Allow(e) PROVE Tight'
    BY <1>2, AllowTight
  <1> QED
    BY <1>1, <1>2 DEF LimiterNext

(* The least that a stretch leaves is what is in the bucket.               *)
LEMMA LeastLeft ==
    ASSUME IInv, Tight
    PROVE  Exact
  <1> SUFFICES ASSUME NEW e \in Exec PROVE Refilled(e) = TightestLeft(e)
    BY DEF Exact
  <1>1. /\ LimiterTypeOK /\ Spent /\ now \in Nat /\ policy.rate \in Nat /\ Unit \in Nat
        /\ Capacity \in Nat /\ Refilled(e) \in 0 .. Capacity
        /\ \A s \in 0 .. now : s \in Time /\ s \in Nat
    BY Numbers, RefilledBounds DEF IInv
  <1>2. tokens[e] \in 0 .. Capacity /\ seen[e] \in -1 .. now
    BY <1>1 DEF LimiterTypeOK
  <1> DEFINE left(s) == Budget(e, s) - Unit * allowed[e][s]
             S == {left(s) : s \in 0 .. now}
  <1>3. ASSUME NEW s \in 0 .. now
        PROVE  /\ Unit * allowed[e][s] \in Nat /\ policy.rate * (now - s) \in Nat
               /\ left(s) \in Int /\ Refilled(e) <= left(s)
    <2>1. allowed[e][s] \in Nat /\ now - s \in Nat
      BY <1>1 DEF LimiterTypeOK
    <2>2. Unit * allowed[e][s] \in Nat /\ policy.rate * (now - s) \in Nat
      BY <1>1, <2>1, Yield
    <2>3. CASE s > seen[e]
      <3>1. allowed[e][s] = 0 /\ Unit * 0 = 0
        BY <1>1, <2>3 DEF Spent
      <3> QED
        BY <1>1, <2>2, <3>1 DEF Budget
    <2>4. CASE s <= seen[e]
      <3>1. seen[e] \in Nat /\ seen[e] <= now /\ seen[e] # Never /\ s \in Nat
        BY <1>1, <1>2, <2>4 DEF Never
      <3>2. Refilled(e) <= tokens[e] + policy.rate * (now - seen[e])
        BY <1>1, <3>1, RefilledBounds
      <3>3. /\ policy.rate * (now - s)
                   = policy.rate * (seen[e] - s) + policy.rate * (now - seen[e])
            /\ policy.rate * (seen[e] - s) \in Nat /\ policy.rate * (now - seen[e]) \in Nat
        BY <1>1, <2>4, <3>1, YieldSplit
      <3>4. Unit * allowed[e][s] + tokens[e] <= Capacity + policy.rate * (seen[e] - s)
        BY <1>1, <2>4 DEF Spent
      <3> QED
        BY <1>1, <1>2, <2>2, <3>2, <3>3, <3>4 DEF Budget
    <2> QED
      BY <1>1, <1>2, <2>3, <2>4
  <1>4. PICK s \in 0 .. now :
            Unit * allowed[e][s] + Refilled(e) = Capacity + policy.rate * (now - s)
    BY RefilledMeetsBudget
  <1>5. left(s) = Refilled(e)
    BY <1>1, <1>3, <1>4 DEF Budget
  <1>6. Refilled(e) \in S /\ \A x \in S : Refilled(e) <= x /\ x \in Int
    BY <1>3, <1>5
  <1> HIDE DEF S
  <1>7. \A x \in S : (\A y \in S : x <= y) => x = Refilled(e)
    BY <1>1, <1>6
  <1>8. Min(S) = Refilled(e)
    BY <1>6, <1>7 DEF Min
  <1> QED
    BY <1>8 DEF TightestLeft, S

(* Time and calls keep the invariant, for every executor.                  *)
LEMMA StepKeeps == IInv /\ [LimiterNext]_limiterVars => IInv'
  <1> SUFFICES ASSUME IInv, [LimiterNext]_limiterVars PROVE IInv'
    OBVIOUS
  <1>1. CASE Clock
    BY <1>1, ClockKeeps
  <1>2. ASSUME NEW e \in Exec, Allow(e) PROVE IInv'
    BY <1>2, AllowTyped, AllowSpends DEF IInv
  <1>3. CASE UNCHANGED limiterVars
    BY <1>3
    DEF limiterVars, bucketVars, IInv, LimiterTypeOK, Spent, Capacity
  <1> QED
    BY <1>1, <1>2, <1>3 DEF LimiterNext

(* The invariant implies the budget: what is left in a bucket is not       *)
(* negative, and no time passes backwards since its last use.              *)
LEMMA Budgeted == IInv => WindowBound
  <1> SUFFICES ASSUME IInv, NEW e \in Exec, NEW s \in 0 .. now
               PROVE  Unit * allowed[e][s] <= Budget(e, s)
    BY DEF WindowBound
  <1>1. /\ LimiterTypeOK /\ Spent /\ Capacity \in Nat /\ Unit \in Nat
        /\ now \in Nat /\ policy.rate \in Nat /\ s \in Time
    <2>1. LimiterTypeOK /\ Spent
      BY DEF IInv
    <2> QED
      BY <2>1, RefilledBounds, Numbers
  <1>2. /\ tokens[e] \in 0 .. Capacity /\ seen[e] \in -1 .. now
        /\ allowed[e][s] \in Nat
    BY <1>1 DEF LimiterTypeOK
  <1>3. s \in Nat /\ now - s \in Nat /\ policy.rate * (now - s) \in Nat
    BY <1>1, Yield
  <1>4. CASE s > seen[e]
    BY <1>1, <1>3, <1>4 DEF Spent, Budget
  <1>5. CASE s <= seen[e]
    <2>1. seen[e] - s \in Nat /\ now - seen[e] \in Nat
      BY <1>1, <1>2, <1>3, <1>5
    <2>2. policy.rate * (now - s)
              = policy.rate * (seen[e] - s) + policy.rate * (now - seen[e])
      <3>1. PICK a \in Nat, b \in Nat : a = seen[e] - s /\ b = now - seen[e]
        BY <2>1
      <3>2. now - s = a + b
        BY <1>1, <1>2, <1>3, <3>1
      <3>3. policy.rate * (a + b) = policy.rate * a + policy.rate * b
        BY <1>1, Yield
      <3> QED
        BY <3>1, <3>2, <3>3
    <2>3. /\ policy.rate * (seen[e] - s) \in Nat
          /\ policy.rate * (now - seen[e]) \in Nat
          /\ Unit * allowed[e][s] \in Nat
      BY <1>1, <1>2, <2>1, Yield
    <2>4. Unit * allowed[e][s] + tokens[e] <= Capacity + policy.rate * (seen[e] - s)
      BY <1>1, <1>5 DEF Spent
    <2> QED
      BY <1>1, <1>2, <2>2, <2>3, <2>4 DEF Budget
  <1> QED
    BY <1>1, <1>2, <1>3, <1>4, <1>5

(* No bucket of Limiter.last ever leaves its range, whatever the policy    *)
(* and the times of the calls of Allow.                                    *)
THEOREM BucketTyped == LimiterSpec => []LimiterTypeOK
  <1>1. IInv => LimiterTypeOK
    BY DEF IInv
  <1> QED
    BY InitHolds, StepKeeps, <1>1, PTL DEF LimiterSpec

(* Allow never gives an executor more, in any stretch of time, than the    *)
(* burst and what the rate yields in that stretch.                         *)
THEOREM BudgetKept == LimiterSpec => []WindowBound
  BY InitHolds, StepKeeps, Budgeted, PTL DEF LimiterSpec

(* And Allow is not stricter than that: a bucket holds exactly what the    *)
(* tightest stretch leaves, so that a refusal is never needless.           *)
THEOREM RefusalsJustified == LimiterSpec => []Exact
  <1>1. LimiterInit => Tight
    BY DEF LimiterInit, Tight
  <1>2. IInv /\ Tight => Exact
    BY LeastLeft
  <1> QED
    BY InitHolds, StepKeeps, StepTight, <1>1, <1>2, PTL DEF LimiterSpec

-----------------------------------------------------------------------------
(* Retry: the counter of a task is the number of instances planned since   *)
(* its last reset, and they carry the numbers up to it.                    *)
Numbered ==
    /\ attempts \in [Failed -> 0 .. MaxAttempts]
    /\ planned \in [Failed -> Seq(Nat)]
    /\ \A t \in Failed :
          /\ Len(planned[t]) = attempts[t]
          /\ \A k \in 1 .. Len(planned[t]) : planned[t][k] = k

(* Planning appends the next number; a reset starts again from none.       *)
LEMMA RetryKeeps == Numbered /\ [RetryNext]_retryVars => Numbered'
  <1> SUFFICES ASSUME Numbered, [RetryNext]_retryVars PROVE Numbered'
    OBVIOUS
  <1> USE RetryAssumption DEF RetryAssumption
  <1>1. ASSUME NEW c \in Clients, NEW t \in Failed, Plan(c, t) PROVE Numbered'
    <2>1. CASE UNCHANGED <<attempts, planned>>
      BY <2>1 DEF Numbered
    <2>2. CASE /\ ~Exhausted(t)
               /\ attempts' = [attempts EXCEPT ![t] = attempts[t] + 1]
               /\ planned' = [planned EXCEPT ![t] = Append(planned[t], attempts'[t])]
      <3>1. attempts'[t] = attempts[t] + 1 /\ attempts'[t] \in 0 .. MaxAttempts
        BY <2>2 DEF Numbered, Exhausted
      <3>2. PICK n \in Nat : n = attempts'[t]
        BY <3>1
      <3>3. planned[t] \in Seq(Nat) /\ Len(planned[t]) = attempts[t]
        BY DEF Numbered
      <3> DEFINE longer == Append(planned[t], n)
      <3>4. /\ longer \in Seq(Nat) /\ Len(longer) = n /\ longer[n] = n
            /\ \A k \in 1 .. n - 1 : longer[k] = k
        BY <3>1, <3>2, <3>3 DEF Numbered
      <3> HIDE DEF longer
      <3>5. \A k \in 1 .. Len(longer) : longer[k] = k
        BY <3>4
      <3>6. planned' = [planned EXCEPT ![t] = longer]
        BY <2>2, <3>2 DEF longer
      <3> QED
        BY <2>2, <3>1, <3>2, <3>4, <3>5, <3>6 DEF Numbered
    <2> QED
      BY <1>1, <2>1, <2>2 DEF Plan, Numbered
  <1>2. ASSUME NEW t \in Failed, Reset(t) PROVE Numbered'
    <2>1. <<>> \in Seq(Nat) /\ Len(<<>>) = 0
      OBVIOUS
    <2> QED
      BY <1>2, <2>1 DEF Reset, Numbered
  <1>3. ASSUME NEW c \in Clients, NEW t \in Failed, Requeueable(c, t) PROVE Numbered'
    BY <1>3 DEF Requeueable, Numbered
  <1>4. CASE UNCHANGED retryVars
    BY <1>4 DEF retryVars, Numbered
  <1> QED
    BY <1>1, <1>2, <1>3, <1>4 DEF RetryNext

(* However the calls of Requeueable and Plan interleave, and whatever the  *)
(* budget, no attempt is planned beyond it and none twice                  *)
(* (retry/retry.go:39-53).                                                 *)
THEOREM RetriesBounded == RetrySpec => []RetryBudget
  <1>1. RetryInit => Numbered
    <2>1. <<>> \in Seq(Nat) /\ Len(<<>>) = 0
      OBVIOUS
    <2> QED
      BY <2>1, RetryAssumption DEF RetryAssumption, RetryInit, Numbered
  <1>2. Numbered => RetryBudget
    BY RetryAssumption DEF RetryAssumption, Numbered, RetryBudget
  <1> QED
    BY <1>1, <1>2, RetryKeeps, PTL DEF RetrySpec
=============================================================================
