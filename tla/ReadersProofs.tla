--------------------------- MODULE ReadersProofs ----------------------------
(***************************************************************************)
(* Proofs about Readers.  The invariant of Scheduler is kept by the        *)
(* readers too; what is added to it are facts about the store that only    *)
(* grow, and what each reader has seen of them.                            *)
(***************************************************************************)
EXTENDS Readers, SchedulerProofs

(* The sequences of the retained tasks are the first ones, without a gap:  *)
(* a full store takes sequences, but never stores a task again.            *)
Stored ==
    /\ \A t \in Task : seqOf[t] # 0 => t \in retained
    /\ \A t \in retained : answer[t] # "new" /\ seqOf[t] # 0
    /\ \A t \in retained : \A s \in 1 .. seqOf[t] : \E u \in retained : seqOf[u] = s
    /\ ~RingFull => \A s \in 1 .. seq : \E u \in retained : seqOf[u] = s

(* What the catch-up has read.                                             *)
Replaying ==
    /\ cpc \in {"idle", "since", "replay", "closed"} /\ from \in Nat
    /\ \A t \in before : t \in Handed /\ seqOf[t] <= committed
    /\ \A t \in Range(missed) : t \in retained /\ \E u \in Handed : seqOf[t] <= seqOf[u]
    /\ ReplayCovers

(* What the handler has recorded.                                          *)
Recorded == \A t \in Task : <<t, "live">> \in ran => t \in Handed /\ t \in records

(* What the status page has read.                                          *)
Viewed ==
    /\ spc \in 1 .. 9 /\ view \in [Range(Reads) -> Int]
    /\ spc > 1 => view["next"] \in 1 .. seq + 1
    /\ spc \in 3 .. 4 => (view["first"] > view["next"] => committed >= view["next"])
    /\ spc > 4 => (view["first"] > view["next"] => view["committed"] >= view["next"])
    /\ spc > 3 => view["pending"] <= Cardinality(retained)
    /\ spc > 5 => view["pending"] <= view["retained"]
    /\ spc > 4 => /\ view["committed"] <= committed
                  /\ view["committed"] # 0 => marked # {}
    /\ spc > 6 => (view["committed"] # 0 => view["dispatched"] # 0)
    /\ spc > 8 => (view["highest"] # 0 => view["committed"] < view["highest"])

(* The invariant of Scheduler, with what the store and the readers add.    *)
RInv == IInv /\ Stored /\ Replaying /\ Recorded /\ Viewed

-----------------------------------------------------------------------------
(* A set of numbers with a bound has a greatest one.                       *)
LEMMA MaxNat ==
  ASSUME NEW S, NEW b \in Nat, S \subseteq 0 .. b, S # {}
  PROVE  Max(S) \in S
<1> DEFINE D == {b - n : n \in S}
<1>1. D \subseteq Nat /\ D # {}
  <2>1. \A n \in S : b - n \in Nat
    OBVIOUS
  <2> QED
    BY <2>1
<1>2. PICK d \in D : \A m \in D : d <= m
  BY <1>1, LeastNat
<1>3. PICK x \in S : d = b - x
  BY <1>2
<1>4. ASSUME NEW y \in S PROVE x >= y
  <2>1. b - y \in D /\ d <= b - y
    BY <1>2
  <2> QED
    BY <1>3, <2>1
<1> QED
  BY <1>4, Zenon DEF Max

(* The least of a set of numbers is in the set and below the others.       *)
LEMMA MinNat ==
  ASSUME NEW S, S \subseteq Nat, S # {}
  PROVE  Min(S) \in S /\ \A n \in S : Min(S) <= n
<1>1. \E n \in S : \A m \in S : n <= m
  BY LeastNat
<1> QED
  BY <1>1, Zenon DEF Min

(* The counters of the status page, in the order it reads them.            *)
LEMMA ReadsAre ==
  /\ Reads[1] = "next" /\ Reads[2] = "first" /\ Reads[3] = "pending"
  /\ Reads[4] = "committed" /\ Reads[5] = "retained" /\ Reads[6] = "dispatched"
  /\ Reads[7] = "retryable" /\ Reads[8] = "highest" /\ Len(Reads) = 8
  /\ Range(Reads) = {"next", "first", "pending", "committed",
                     "retained", "dispatched", "retryable", "highest"}
<1>1. /\ Reads[1] = "next" /\ Reads[2] = "first" /\ Reads[3] = "pending"
      /\ Reads[4] = "committed" /\ Reads[5] = "retained" /\ Reads[6] = "dispatched"
      /\ Reads[7] = "retryable" /\ Reads[8] = "highest" /\ Len(Reads) = 8
  BY DEF Reads
<1>2. DOMAIN Reads = {1, 2, 3, 4, 5, 6, 7, 8}
  BY DEF Reads
<1> QED
  BY <1>1, <1>2 DEF Range

(* The store, the marks, the cursor and the hand-offs only ever grow.      *)
LEMMA StoreGrows ==
  ASSUME IInv, Stored, [Next]_vars
  PROVE  /\ seq <= seq' /\ committed <= committed'
         /\ retained \subseteq retained' /\ marked \subseteq marked'
         /\ Cardinality(retained) <= Cardinality(retained')
         /\ Handed \subseteq Handed'
         /\ \A t \in retained \cup Handed : seqOf'[t] = seqOf[t]
<1> USE DEF storeVars, pubVars, tickVars
<1>0. TypeOK /\ Types' /\ Handed \subseteq Task /\ \A t \in Handed : answer[t] # "new"
  BY RangeOfHanded, TypesStep DEF IInv, Types, Places, Placed
<1>1. seq \in Nat /\ committed \in Nat /\ IsFiniteSet(retained')
  BY <1>0 DEF TypeOK, Types
<1>2. seq <= seq' /\ \A t \in retained \cup Handed : seqOf'[t] = seqOf[t]
  <2>1. ASSUME NEW p \in Publishers, NEW t \in Task, NEW d \in env.delays,
               AppendTask(p, t, d)
        PROVE  seq <= seq' /\ \A u \in retained \cup Handed : seqOf'[u] = seqOf[u]
    BY <1>0, <1>1, <2>1 DEF AppendTask, Stored, TypeOK
  <2> QED
    BY <1>1, <2>1 DEF Next, Clock, ClearTaskRecord, Register, EnqueueTask, AdvanceProgress,
       Drain, Executors, Requeue, TickReturns, OutOfWindow, NotHanded, HandOff, Mark,
       Commit, SetState, vars
<1>3. retained \subseteq retained'
  BY DEF Next, AppendTask, Clock, ClearTaskRecord, Register, EnqueueTask, AdvanceProgress,
     Drain, Executors, Requeue, TickReturns, OutOfWindow, NotHanded, HandOff, Mark,
     Commit, SetState, vars
<1>4. Cardinality(retained) <= Cardinality(retained')
  BY <1>1, <1>3, FS_Subset
<1>5. marked \subseteq marked'
  BY DEF Next, AppendTask, Clock, ClearTaskRecord, Register, EnqueueTask, AdvanceProgress,
     Drain, Executors, Requeue, TickReturns, OutOfWindow, NotHanded, HandOff, Mark,
     Commit, SetState, vars, WithMark
<1>6. committed <= committed'
  <2>1. CASE Commit
    BY <1>0, <1>1, <2>1 DEF Commit, Advanced, TypeOK, Types
  <2>2. CASE ~Commit
    BY <1>1, <2>2 DEF Next, AppendTask, Clock, ClearTaskRecord, Register, EnqueueTask,
       AdvanceProgress, Drain, Executors, Requeue, TickReturns, OutOfWindow, NotHanded,
       HandOff, Mark, SetState, vars
  <2> QED
    BY <2>1, <2>2
<1>7. Handed \subseteq Handed'
  <2>1. CASE HandOff
    BY <1>0, <2>1, HandedGrows
  <2>2. CASE ~HandOff
    BY <2>2 DEF Next, AppendTask, Clock, ClearTaskRecord, Register, EnqueueTask,
       AdvanceProgress, Drain, Executors, Requeue, TickReturns, OutOfWindow, NotHanded,
       Commit, Mark, SetState, vars, Handed
  <2> QED
    BY <2>1, <2>2
<1> QED
  BY <1>2, <1>3, <1>4, <1>5, <1>6, <1>7

-----------------------------------------------------------------------------
(* A task that is stored takes the sequence after the last one stored.     *)
LEMMA StoredStep == IInv /\ Stored /\ [Next]_vars => Stored'
<1> SUFFICES ASSUME IInv, Stored, [Next]_vars PROVE Stored'
  OBVIOUS
<1> USE DEF storeVars, pubVars, tickVars
<1>0. TypeOK /\ seq \in Nat /\ \A t \in Task : seqOf[t] \in 0 .. seq
  BY DEF IInv, Types, TypeOK
<1>1. ASSUME UNCHANGED <<env, seq, seqOf, retained>>,
             \A t \in Task : answer[t] # "new" => answer'[t] # "new"
      PROVE  Stored'
  BY <1>0, <1>1 DEF Stored, RingFull, TypeOK
<1>2. ASSUME NEW p \in Publishers, NEW t \in Task, NEW d \in env.delays,
             AppendTask(p, t, d)
      PROVE  Stored'
  <2>1. t \notin retained /\ env' = env /\ seq' = seq + 1
    BY <1>2 DEF AppendTask, Stored
  <2>2. CASE RingFull
    <3>1. UNCHANGED <<seqOf, retained>> /\ answer' = [answer EXCEPT ![t] = "error"]
      BY <1>2, <2>2 DEF AppendTask
    <3> QED
      BY <1>0, <2>1, <2>2, <3>1 DEF Stored, RingFull, TypeOK
  <2>3. CASE ~RingFull
    <3>1. /\ retained' = retained \cup {t}
          /\ seqOf' = [seqOf EXCEPT ![t] = seq + 1]
          /\ answer' = [answer EXCEPT ![t] = "calling"]
      BY <1>2, <2>1, <2>3 DEF AppendTask
    <3>2. /\ \A u \in retained : seqOf'[u] = seqOf[u] /\ answer'[u] = answer[u]
          /\ seqOf'[t] = seq + 1 /\ answer'[t] = "calling"
          /\ \A u \in Task \ {t} : seqOf'[u] = seqOf[u]
          /\ retained \subseteq Task
      BY <1>0, <2>1, <3>1 DEF TypeOK
    <3>3. \A s \in 1 .. seq + 1 : \E u \in retained' : seqOf'[u] = s
      <4>1. \A s \in 1 .. seq : \E u \in retained' : seqOf'[u] = s
        BY <2>3, <3>1, <3>2 DEF Stored
      <4>2. t \in retained' /\ seqOf'[t] = seq + 1
        BY <3>1, <3>2
      <4> QED
        BY <1>0, <4>1, <4>2
    <3>4. \A u \in retained' : \A s \in 1 .. seqOf'[u] : s \in 1 .. seq + 1
      BY <1>0, <3>1, <3>2
    <3>5. \A u \in retained' : seqOf'[u] # 0 /\ answer'[u] # "new"
      BY <1>0, <3>1, <3>2 DEF Stored
    <3> QED
      BY <2>1, <3>1, <3>2, <3>3, <3>4, <3>5 DEF Stored
  <2> QED
    BY <2>2, <2>3
<1>3. ASSUME NEW p \in Publishers,
             ClearTaskRecord(p) \/ Register(p) \/ EnqueueTask(p) \/ AdvanceProgress(p)
      PROVE  Stored'
  <2>1. UNCHANGED <<env, seq, seqOf, retained>>
    BY <1>3 DEF ClearTaskRecord, Register, EnqueueTask, AdvanceProgress
  <2>2. \A t \in Task : answer[t] # "new" => answer'[t] # "new"
    BY <1>0, <1>3 DEF ClearTaskRecord, Register, EnqueueTask, AdvanceProgress, Answer, TypeOK
  <2> QED
    BY <1>1, <2>1, <2>2
<1>4. CASE TickStep
  BY <1>1, <1>4 DEF TickStep, Clock, Drain, Executors, Requeue, TickReturns, OutOfWindow,
     NotHanded, HandOff, Mark, Commit, SetState, vars
<1> QED
  BY <1>2, <1>3, <1>4, NextCases

(* What the catch-up does itself keeps what it has read true.              *)
LEMMA CatchUpStep ==
  ASSUME IInv, Stored, Replaying, UNCHANGED vars,
         \/ \E f \in From : OpenWindow(f)
         \/ Since \/ ReplayWrite \/ CloseWindow
  PROVE  Replaying'
<1>0. TypeOK /\ Marking /\ Handed \subseteq Task /\ Places
  BY RangeOfHanded DEF IInv, Types
<1>1. UNCHANGED <<Handed, seqOf, committed, retained>>
  BY DEF vars, storeVars, tickVars, Handed
<1>2. ASSUME NEW f \in From, OpenWindow(f) PROVE Replaying'
  <2>1. \A t \in Handed \ {cur} : seqOf[t] <= committed
    BY <1>0 DEF Marking
  <2> QED
    BY <1>1, <1>2, <2>1, FromAssumption DEF OpenWindow, Replaying, ReplayCovers
<1>3. CASE Since
  <2> DEFINE P == {t \in retained : Passed(seqOf[t])}
             n == Cardinality(P)
  <2>1. IsFiniteSet(P) /\ n \in Nat
    BY FS_Subset, FS_CardinalityType DEF IInv, Types
  <2>2. missed' \in [1 .. n -> P]
    BY <1>3 DEF Since, InOrder
  <2>3. \A i, j \in 1 .. n : i < j => seqOf[missed'[i]] < seqOf[missed'[j]]
    BY <1>3 DEF Since, InOrder
  <2>4. \A t \in P : seqOf[t] \in Nat
    BY <1>0 DEF TypeOK
  <2>5. \A i, j \in 1 .. n : missed'[i] = missed'[j] => i = j
    <3> SUFFICES ASSUME NEW i \in 1 .. n, NEW j \in 1 .. n, missed'[i] = missed'[j], i # j
                 PROVE  FALSE
      OBVIOUS
    <3>1. i < j \/ j < i
      BY <2>1
    <3>2. seqOf[missed'[i]] \in Nat /\ seqOf[missed'[j]] \in Nat
      BY <2>2, <2>4
    <3> QED
      BY <2>3, <3>1, <3>2
  <2>6. Range(missed') = P
    <3>1. missed' \in Injection(1 .. n, P)
      BY <2>2, <2>5 DEF Injection, IsInjective
    <3>2. Cardinality(1 .. n) = n
      BY <2>1, FS_Interval
    <3>3. missed' \in Surjection(1 .. n, P)
      BY <2>1, <3>1, <3>2, FS_Injection
    <3> QED
      BY <2>2, <3>3 DEF Surjection, Range
  <2>7. committed # 0 => \E u \in Handed : seqOf[u] = committed
    BY <1>0 DEF Marking, CursorBacked
  <2>8. \A t \in P : seqOf[t] # 0 /\ seqOf[t] <= committed
    BY DEF Stored, Passed
  <2>9. \A t \in P : \E u \in Handed : seqOf[t] <= seqOf[u]
    BY <1>0, <2>4, <2>7, <2>8 DEF TypeOK
  <2>10. \A t \in before : seqOf[t] > from => t \in P
    <3>1. \A t \in before : t \in Handed /\ seqOf[t] <= committed /\ t \in Task
      BY <1>0 DEF Replaying
    <3>2. \A t \in Handed : t \in retained
      BY <1>0 DEF Places, Placed, Stored
    <3>3. from \in Nat /\ \A t \in Task : seqOf[t] \in Nat
      BY <1>0 DEF TypeOK, Replaying
    <3> QED
      BY <3>1, <3>2, <3>3 DEF Passed
  <2>11. UNCHANGED <<before, from>> /\ cpc' = "replay"
    BY <1>3 DEF Since
  <2> QED
    BY <1>1, <2>6, <2>9, <2>10, <2>11 DEF Replaying, ReplayCovers
<1>4. CASE ReplayWrite \/ CloseWindow
  BY <1>1, <1>4 DEF ReplayWrite, CloseWindow, Replaying, ReplayCovers
<1> QED
  BY <1>2, <1>3, <1>4

(* What the catch-up has read stays true while hand-offs go on.            *)
LEMMA ReplayingNext ==
  ASSUME IInv, Stored, Replaying, [Next]_vars, UNCHANGED catchVars
  PROVE  Replaying'
<1>a. TypeOK /\ Types'
  BY TypesStep DEF IInv, Types
<1>b. TypeOK'
  BY <1>a DEF Types
<1>0. TypeOK /\ committed \in Nat /\ committed' \in Nat
  BY <1>a, <1>b DEF TypeOK
<1>1. /\ committed <= committed' /\ retained \subseteq retained' /\ Handed \subseteq Handed'
      /\ \A t \in retained \cup Handed : seqOf'[t] = seqOf[t]
  BY StoreGrows
<1>2. \A t \in Handed \cup retained : t \in Task /\ seqOf[t] \in Nat
  BY <1>0, RangeOfHanded DEF TypeOK
<1>3. \A t \in before : t \in Handed' /\ seqOf'[t] <= committed'
  BY <1>0, <1>1, <1>2 DEF Replaying
<1>4. \A t \in Range(missed) : t \in retained' /\ \E u \in Handed' : seqOf'[t] <= seqOf'[u]
  BY <1>1 DEF Replaying
<1>5. ReplayCovers'
  BY <1>1 DEF Replaying, ReplayCovers, catchVars
<1> QED
  BY <1>3, <1>4, <1>5 DEF Replaying, catchVars

(* A step of the handler changes the records, which no other part of the   *)
(* invariant but the types speaks of.                                      *)
LEMMA HandleFrame ==
  ASSUME RInv, NEW t \in Task, NEW how \in {"live", "replay"}, Handle(t, how)
  PROVE  IInv' /\ Stored' /\ Replaying' /\ Viewed'
<1>1. /\ UNCHANGED <<env, now, ticker, seq, seqOf, retained, committed, marked, state>>
      /\ UNCHANGED <<queue, pubVars, tickVars, catchVars, spc, view>>
      /\ records' = records \cup {t}
  BY DEF Handle
<1> USE <1>1 DEF pubVars, tickVars, catchVars, RInv
<1>2. Types'
  BY DEF IInv, Types, TypeOK
<1>3. Publishing' /\ Places' /\ Marking'
  BY DEF IInv, Publishing, Busy, Placed, Places, Accounted, HandedOnce, Handed, Marking,
     InHand, CursorBacked
<1>4. Stored' /\ Replaying' /\ Viewed'
  BY DEF Stored, RingFull, Replaying, ReplayCovers, Handed, Viewed
<1> QED
  BY <1>2, <1>3, <1>4 DEF IInv

(* The handler records what it was handed, and no record goes after that.  *)
LEMMA RecordedStep ==
  ASSUME RInv, [ReadersNext]_<<vars, readerVars>>
  PROVE  Recorded'
<1>0. Recorded /\ IInv /\ Stored
  BY DEF RInv
<1>1. ASSUME [Next]_vars, UNCHANGED ran PROVE Recorded'
  <2>1. Handed \subseteq Handed'
    BY <1>0, <1>1, StoreGrows
  <2>2. \A t \in Handed : t \in records => t \in records'
    <3>1. ASSUME NEW p \in Publishers, ClearTaskRecord(p)
          PROVE  \A t \in Handed : t \in records => t \in records'
      <4>1. ptask[p] \notin Handed
        BY <1>0, <3>1 DEF ClearTaskRecord, IInv, Publishing, Busy, Placed
      <4> QED
        BY <3>1, <4>1 DEF ClearTaskRecord, Without
    <3>2. ASSUME ~\E p \in Publishers : ClearTaskRecord(p) PROVE records' = records
      BY <1>1, <3>2 DEF Next, AppendTask, Clock, Register, EnqueueTask, AdvanceProgress,
         Drain, Executors, Requeue, TickReturns, OutOfWindow, NotHanded, HandOff, Mark,
         Commit, SetState, vars, storeVars
    <3> QED
      BY <3>1, <3>2
  <2> QED
    BY <1>0, <1>1, <2>1, <2>2 DEF Recorded
<1>2. ASSUME NEW t \in Task, NEW how \in {"live", "replay"}, Handle(t, how) PROVE Recorded'
  BY <1>0, <1>2 DEF Handle, Recorded, Handed, tickVars
<1> QED
  BY <1>1, <1>2 DEF ReadersNext, OpenWindow, Since, ReplayWrite, CloseWindow, ReadNext,
     readerVars

-----------------------------------------------------------------------------
(* What the status page has read stays true while the store moves on.      *)
LEMMA ViewedNext ==
  ASSUME IInv, Stored, Viewed, [Next]_vars, UNCHANGED <<spc, view>>
  PROVE  Viewed'
<1>1. TypeOK /\ Types'
  BY TypesStep DEF IInv, Types
<1>2. /\ seq <= seq' /\ committed <= committed' /\ marked \subseteq marked'
      /\ Cardinality(retained) <= Cardinality(retained')
  BY StoreGrows
<1>3. /\ seq \in Nat /\ seq' \in Nat /\ committed \in Nat /\ committed' \in Nat
      /\ Cardinality(retained) \in Nat /\ Cardinality(retained') \in Nat
  BY <1>1, FS_CardinalityType DEF IInv, Types, TypeOK
<1>4. view["next"] \in Int /\ view["first"] \in Int /\ view["pending"] \in Int
      /\ view["committed"] \in Int
  BY ReadsAre DEF Viewed
<1> QED
  BY <1>2, <1>3, <1>4 DEF Viewed

(* What Pending returns is retained, numbered and ahead of the cursor.     *)
LEMMA PendingFacts ==
  ASSUME IInv, Stored
  PROVE  /\ IsFiniteSet(Pending) /\ Cardinality(Pending) \in Nat
         /\ Cardinality(Pending) <= Cardinality(retained)
         /\ \A n \in {seqOf[t] : t \in Pending} : n \in 1 .. seq /\ n > committed
         /\ Pending # {} => {seqOf[t] : t \in Pending} # {}
<1>1. TypeOK /\ IsFiniteSet(retained)
  BY DEF IInv, Types
<1>2. Pending \in SUBSET retained
  BY DEF Pending
<1>3. \A t \in Pending : seqOf[t] \in 1 .. seq /\ seqOf[t] > committed
  BY <1>1 DEF Pending, Stored, TypeOK
<1>4. Pending # {} => {seqOf[t] : t \in Pending} # {}
  OBVIOUS
<1> QED
  BY <1>1, <1>2, <1>3, <1>4, FS_Subset, FS_CardinalityType

(* What each of the reads returns at the moment it is made.                *)
LEMMA ValueFacts ==
  ASSUME IInv, Stored
  PROVE  /\ \A r \in Range(Reads) : Value(r) \in Int
         /\ Value("next") = seq + 1
         /\ \A n \in 1 .. seq : Value("first") > n => committed >= n
         /\ Value("first") <= seq
         /\ Value("pending") <= Cardinality(retained)
         /\ Value("committed") = committed
         /\ Value("retained") = Cardinality(retained)
         /\ Value("dispatched") = 0 => marked = {}
         /\ Value("highest") # 0 => committed < Value("highest")
<1>0. TypeOK /\ seq \in Nat /\ committed \in Nat /\ IsFiniteSet(retained)
  BY DEF IInv, Types, TypeOK
<1> DEFINE sequences == {seqOf[t] : t \in Pending}
<1>1. /\ IsFiniteSet(Pending) /\ Cardinality(Pending) \in Nat
      /\ Cardinality(Pending) <= Cardinality(retained)
      /\ \A n \in sequences : n \in 1 .. seq /\ n > committed
      /\ Pending # {} => sequences # {}
  BY PendingFacts
<1>2. /\ Value("next") = seq + 1
      /\ Value("first") = IF Pending = {} THEN 0 ELSE Min(sequences)
      /\ Value("pending") = Cardinality(Pending)
      /\ Value("committed") = committed
      /\ Value("retained") = Cardinality(retained)
      /\ Value("dispatched") = Cardinality(marked)
      /\ Value("retryable") = Cardinality({t \in Pending : seqOf[t] \notin marked})
      /\ Value("highest") = IF Pending = {} THEN 0 ELSE Max(sequences)
  BY DEF Value
<1>3. Pending # {} => /\ Min(sequences) \in sequences
                      /\ \A n \in sequences : Min(sequences) <= n
                      /\ Max(sequences) \in sequences
  <2>1. sequences \subseteq Nat /\ sequences \subseteq 0 .. seq
    BY <1>1
  <2> HIDE DEF sequences
  <2> QED
    BY <1>0, <1>1, <2>1, MinNat, MaxNat
<1>4. IsFiniteSet(marked) /\ Cardinality(marked) \in Nat
      /\ (Cardinality(marked) = 0 => marked = {})
  <2>1. IsFiniteSet(1 .. seq)
    BY <1>0, FS_Interval
  <2>2. IsFiniteSet(marked)
    BY <1>0, <2>1, FS_Subset DEF TypeOK
  <2> QED
    BY <2>2, FS_CardinalityType, FS_EmptySet
<1>5. Cardinality({t \in Pending : seqOf[t] \notin marked}) \in Nat
  BY <1>1, FS_Subset, FS_CardinalityType
<1>6. Cardinality(retained) \in Nat
  BY <1>0, FS_CardinalityType
<1>7. ASSUME NEW n \in 1 .. seq, Value("first") > n PROVE committed >= n
  <2>0. n \in Nat /\ n > 0
    OBVIOUS
  <2>1. Pending # {}
    BY <1>2, <1>7, <2>0
  <2> DEFINE least == Min(sequences)
  <2>2. least > n /\ least \in sequences /\ \A m \in sequences : least <= m
    BY <1>2, <1>3, <1>7, <2>1
  <2>3. PICK t \in retained : seqOf[t] = least
    BY <2>2 DEF Pending
  <2>4. seqOf[t] \in Nat
    BY <1>0 DEF TypeOK
  <2> HIDE DEF least
  <2>5. PICK u \in retained : seqOf[u] = n
    BY <2>2, <2>3, <2>4 DEF Stored
  <2>6. u \notin Pending
    BY <2>0, <2>2, <2>3, <2>4, <2>5
  <2> QED
    BY <1>0, <2>0, <2>5, <2>6 DEF Pending
<1>8. /\ Pending # {} => Min(sequences) \in 1 .. seq /\ Max(sequences) \in 1 .. seq
      /\ Pending # {} => Max(sequences) > committed
  BY <1>1, <1>3
<1>9. \A r \in Range(Reads) : Value(r) \in Int
  <2>1. /\ Value("next") \in Int /\ Value("first") \in Int /\ Value("pending") \in Int
        /\ Value("committed") \in Int /\ Value("retained") \in Int
        /\ Value("dispatched") \in Int /\ Value("retryable") \in Int
        /\ Value("highest") \in Int
    BY <1>0, <1>1, <1>2, <1>4, <1>5, <1>6, <1>8
  <2> QED
    BY <2>1, ReadsAre
<1> QED
  BY <1>0, <1>1, <1>2, <1>4, <1>6, <1>7, <1>8, <1>9

(* One more read agrees with those the status page made before.            *)
LEMMA ViewedRead ==
  ASSUME IInv, Stored, Viewed, ReadNext
  PROVE  Viewed'
<1>0. /\ spc \in 1 .. 8 /\ spc' = spc + 1
      /\ view' = [view EXCEPT ![Reads[spc]] = Value(Reads[spc])]
      /\ UNCHANGED <<seq, committed, marked, retained>>
  BY ReadsAre DEF ReadNext, Viewed, vars, storeVars
<1>1. /\ seq \in Nat /\ committed \in Nat /\ Cardinality(retained) \in Nat
      /\ (committed # 0 => marked # {})
  BY FS_CardinalityType DEF IInv, Types, TypeOK, Marking, CursorBacked
<1>2. Reads[spc] \in Range(Reads)
  BY <1>0, ReadsAre DEF Range
<1>3. view' \in [Range(Reads) -> Int] /\ spc' \in 1 .. 9
  BY <1>0, <1>2, ValueFacts DEF Viewed
<1>4. \A r \in Range(Reads) : view'[r] = IF r = Reads[spc] THEN Value(r) ELSE view[r]
  BY <1>0 DEF Viewed
<1>5. \A r \in Range(Reads) : view[r] \in Int
  BY DEF Viewed
<1> DEFINE new(r) == view'[r] = Value(r)
           old(S) == \A r \in S : view'[r] = view[r]
<1>6. CASE spc = 1
  <2>1. new("next") /\ Value("next") = seq + 1
    BY <1>4, <1>6, ReadsAre, ValueFacts
  <2> QED
    BY <1>0, <1>1, <1>3, <1>6, <2>1 DEF Viewed
<1>7. CASE spc = 2
  <2>1. new("first") /\ view'["next"] = view["next"]
    BY <1>4, <1>7, ReadsAre
  <2>2. \A n \in 1 .. seq : Value("first") > n => committed >= n
    BY ValueFacts
  <2>3. Value("first") \in Int /\ Value("first") <= seq /\ view["next"] \in 1 .. seq + 1
    BY <1>7, ReadsAre, ValueFacts DEF Viewed
  <2>4. view'["first"] > view'["next"] => committed >= view'["next"]
    BY <1>1, <2>1, <2>2, <2>3
  <2> QED
    BY <1>0, <1>1, <1>3, <1>7, <2>1, <2>3, <2>4 DEF Viewed
<1>8. CASE spc = 3
  <2>1. new("pending") /\ view'["next"] = view["next"] /\ view'["first"] = view["first"]
    BY <1>4, <1>8, ReadsAre
  <2>2. Value("pending") <= Cardinality(retained)
    BY ValueFacts
  <2> QED
    BY <1>0, <1>1, <1>3, <1>8, <2>1, <2>2 DEF Viewed
<1>9. CASE spc = 4
  <2>1. /\ new("committed") /\ view'["next"] = view["next"]
        /\ view'["first"] = view["first"] /\ view'["pending"] = view["pending"]
    BY <1>4, <1>9, ReadsAre
  <2>2. Value("committed") = committed
    BY ValueFacts
  <2> QED
    BY <1>0, <1>1, <1>3, <1>9, <2>1, <2>2 DEF Viewed
<1> DEFINE early == {"next", "first", "pending", "committed"}
<1>10. CASE spc = 5
  <2>1. new("retained") /\ old(early)
    BY <1>4, <1>10, ReadsAre
  <2>2. Value("retained") = Cardinality(retained)
    BY ValueFacts
  <2> QED
    BY <1>0, <1>1, <1>3, <1>10, <2>1, <2>2 DEF Viewed
<1>11. CASE spc = 6
  <2>1. new("dispatched") /\ old(early \cup {"retained"})
    BY <1>4, <1>11, ReadsAre
  <2>2. Value("dispatched") = 0 => marked = {}
    BY ValueFacts
  <2> QED
    BY <1>0, <1>1, <1>3, <1>11, <2>1, <2>2 DEF Viewed
<1>12. CASE spc = 7
  <2>1. old(early \cup {"retained", "dispatched"})
    BY <1>4, <1>12, ReadsAre
  <2> QED
    BY <1>0, <1>1, <1>3, <1>12, <2>1 DEF Viewed
<1>13. CASE spc = 8
  <2>1. new("highest") /\ old(early \cup {"retained", "dispatched"})
    BY <1>4, <1>13, ReadsAre
  <2>2. Value("highest") # 0 => committed < Value("highest")
    BY ValueFacts
  <2>3. Value("highest") \in Int /\ view["committed"] \in Int /\ view["committed"] <= committed
    BY <1>5, <1>13, ReadsAre, ValueFacts DEF Viewed
  <2>4. view'["highest"] # 0 => view'["committed"] < view'["highest"]
    BY <1>1, <2>1, <2>2, <2>3
  <2> QED
    BY <1>0, <1>1, <1>3, <1>13, <2>1, <2>4 DEF Viewed
<1> QED
  BY <1>0, <1>6, <1>7, <1>8, <1>9, <1>10, <1>11, <1>12, <1>13

-----------------------------------------------------------------------------
(* Readers that have not begun satisfy the invariant.                      *)
LEMMA RInvInit == ReadersInit => RInv
<1> SUFFICES ASSUME ReadersInit PROVE RInv
  OBVIOUS
<1>1. Init /\ IInv
  BY InitInvariant DEF ReadersInit
<1>2. Handed = {} /\ Range(missed) = {}
  BY DEF ReadersInit, Init, Handed, Range
<1>3. Stored
  BY <1>1 DEF Stored, Init
<1>4. Replaying
  BY <1>2 DEF Replaying, ReplayCovers, ReadersInit
<1>5. Recorded
  BY DEF Recorded, ReadersInit
<1>6. Viewed
  BY DEF Viewed, ReadersInit, Blank
<1> QED
  BY <1>1, <1>3, <1>4, <1>5, <1>6 DEF RInv

(* The invariant is inductive for the scheduler with its readers.          *)
LEMMA RInvStep == RInv /\ [ReadersNext]_<<vars, readerVars>> => RInv'
<1> SUFFICES ASSUME RInv, [ReadersNext]_<<vars, readerVars>> PROVE RInv'
  OBVIOUS
<1>0. IInv /\ Stored /\ Replaying /\ Viewed
  BY DEF RInv
<1>1. Recorded'
  BY RecordedStep
<1>2. ASSUME [Next]_vars PROVE IInv' /\ Stored'
  BY <1>0, <1>2, IInvStep, StoredStep
<1>3. ASSUME [Next]_vars, UNCHANGED readerVars PROVE RInv'
  BY <1>0, <1>1, <1>2, <1>3, ReplayingNext, ViewedNext DEF RInv, readerVars
<1>4. ASSUME UNCHANGED <<vars, spc, view>>,
             (\E f \in From : OpenWindow(f)) \/ Since \/ ReplayWrite \/ CloseWindow
      PROVE  RInv'
  BY <1>0, <1>1, <1>2, <1>4, CatchUpStep, ViewedNext DEF RInv
<1>5. ASSUME NEW t \in Task, NEW how \in {"live", "replay"}, Handle(t, how) PROVE RInv'
  BY <1>1, <1>5, HandleFrame DEF RInv
<1>6. CASE ReadNext
  BY <1>0, <1>1, <1>2, <1>6, ViewedRead, ReplayingNext DEF RInv, ReadNext
<1> QED
  BY <1>3, <1>4, <1>5, <1>6
     DEF ReadersNext, OpenWindow, Since, ReplayWrite, CloseWindow, readerVars

(* The invariant holds always.                                             *)
LEMMA ReadersInvariance == ReadersSpec => []RInv
BY RInvInit, RInvStep, PTL DEF ReadersSpec

(* The readers disturb nothing: with a catch-up, the handler and the       *)
(* status page at work, nothing is handed off twice, the cursor is backed, *)
(* states are truthful and accepted tasks are accounted for.               *)
THEOREM ReadersHarmless ==
  ReadersSpec => [](TypeOK /\ HandedOnce /\ CursorBacked /\ StateTruthful /\ Accounted)
<1>1. RInv => TypeOK /\ HandedOnce /\ CursorBacked /\ StateTruthful /\ Accounted
  BY RangeOfHanded DEF RInv, IInv, Types, Places, Marking, StateTruthful
<1> QED
  BY <1>1, ReadersInvariance, PTL

(* A replay misses nothing the tick was through with when its window was   *)
(* opened (CatchUpFrom, Store.Since).                                      *)
THEOREM ReplayComplete == ReadersSpec => []ReplayCovers
<1>1. RInv => ReplayCovers
  BY DEF RInv, Replaying
<1> QED
  BY <1>1, ReadersInvariance, PTL

(* A replay holds nothing beyond the last hand-off (Store.Since).          *)
THEOREM ReplayBehindHandOffs == ReadersSpec => []ReplayBacked
<1>1. RInv => ReplayBacked
  BY DEF RInv, Replaying, ReplayBacked
<1> QED
  BY <1>1, ReadersInvariance, PTL

(* The record a live execution left is never cleared (publish.go:47).      *)
THEOREM RecordsStay == ReadersSpec => []RecordKept
<1>1. RInv => RecordKept
  BY DEF RInv, Recorded, RecordKept
<1> QED
  BY <1>1, ReadersInvariance, PTL

(* The backlog makes sense although each of its values is read under a     *)
(* lock of its own (backlog.go:15-32).                                     *)
THEOREM BacklogMakesSense == ReadersSpec => []BacklogCoherent
<1>1. RInv => BacklogCoherent
  BY ReadsAre DEF RInv, Viewed, BacklogCoherent
<1> QED
  BY <1>1, ReadersInvariance, PTL
=============================================================================
