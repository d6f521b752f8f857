---------------------------- MODULE RunnerProofs ----------------------------
(***************************************************************************)
(* Proofs about Runner for any number of instances, callers, replayers and *)
(* closers and any queue size: its types, the order of Shutdown, that one  *)
(* replay window is open at most; and what Enqueue promises: an accepted   *)
(* instance is not lost while the slot is open, a refused one never runs,  *)
(* and one key is never in flight twice.                                   *)
(***************************************************************************)
EXTENDS Runner, TLAPS

(* r.inflightWG counts the instance being executed: CheckClosed adds it    *)
(* before the handler starts, WgDone takes it back.                        *)
WgCounts == wg = IF wpc \in {"handler", "finish", "wgDone"} THEN 1 ELSE 0

(* The order of Shutdown: closed is set first, r.stop is closed once the   *)
(* WaitGroup is at zero, r.done last.                                      *)
ShutdownOrder ==
    /\ \A s \in Closers : spc[s] = "waiting" => closed
    /\ \A s \in Closers : spc[s] = "stopped" => stop
    /\ stop => closed /\ wg = 0
    /\ done => stop

IInv == TypeOK /\ WgCounts /\ ShutdownOrder

-----------------------------------------------------------------------------
(* The channel and the buffer start as the empty sequence.                 *)
LEMMA EmptySeq == ASSUME NEW S PROVE <<>> \in Seq(S) /\ Len(<<>>) = 0
  OBVIOUS

(* A send keeps the channel within its capacity.                           *)
LEMMA Sent ==
  ASSUME ChanType, NEW i \in Inst, Send(i)
  PROVE  in' \in Seq(Inst) /\ Len(in') <= QueueSize
  BY SizeAssumption DEF ChanType, Send, Full, SizeAssumption

(* A new runner has the types.                                             *)
LEMMA InitTyped == Init => TypeOK
<1> SUFFICES ASSUME Init PROVE TypeOK
  OBVIOUS
<1>1. ChanType
  <2>1. in \in Seq(Inst) /\ Len(in) = 0 /\ buffer \in Seq(Inst)
    BY EmptySeq DEF Init
  <2>2. inflight \subseteq Key /\ replay \in BOOLEAN
    BY DEF Init
  <2> QED BY <2>1, <2>2, SizeAssumption DEF ChanType, SizeAssumption
<1>2. CloseType
  BY DEF Init, CloseType
<1>3. CallType
  BY DEF Init, CallType, Paths
<1>4. ReplayType
  BY DEF Init, ReplayType, InSend
<1>5. WorkType
  BY DEF Init, WorkType, Holding
<1>6. ResultType
  BY DEF Init, ResultType
<1> QED BY <1>1, <1>2, <1>3, <1>4, <1>5, <1>6 DEF TypeOK

(* A group of variables that a step leaves alone keeps its type.           *)
LEMMA Frame ==
  ASSUME TypeOK
  PROVE  /\ UNCHANGED chanVars => ChanType'
         /\ UNCHANGED closeVars => CloseType'
         /\ UNCHANGED callVars => CallType'
         /\ UNCHANGED replayVars => ReplayType'
         /\ UNCHANGED workVars => WorkType'
         /\ UNCHANGED result => ResultType'
  BY
     DEF TypeOK, ChanType, CloseType, CallType, ReplayType, WorkType, ResultType,
         chanVars, closeVars, callVars, replayVars, workVars

(* Every step of a caller, replayer, worker or closer keeps the types.     *)
LEMMA StepTyped == TypeOK /\ [Next]_vars => TypeOK'
<1> SUFFICES ASSUME TypeOK, [Next]_vars PROVE TypeOK'
  OBVIOUS
<1> USE KeyAssumption, SizeAssumption, NoneAssumption
        DEF KeyAssumption, SizeAssumption, NoneAssumption, TimesOut, Reserved, Released,
            Parks, AfterSend, SlowAnswer, Stops, Done
<1>0. ChanType /\ CloseType /\ CallType /\ ReplayType /\ WorkType /\ ResultType
  BY DEF TypeOK
<1>1. ASSUME NEW c \in Callers, NEW i \in Inst, Enqueue(c, i) PROVE TypeOK'
  <2>1. CASE EnqueueRefused(c, i)
    <3>1. CallType'
      BY <1>0, <1>1, <2>1 DEF CallType, Enqueue, EnqueueRefused, Paths
    <3>2. ResultType'
      BY <1>0, <1>1, <2>1
         DEF ResultType, Enqueue, EnqueueRefused, Returns, Answers
    <3> QED BY <3>1, <3>2, <1>1, <2>1, Frame DEF TypeOK, Enqueue, EnqueueRefused
  <2>2. CASE EnqueueBuffered(c, i)
    <3>1. ChanType'
      BY <1>0, <1>1, <2>2 DEF ChanType, Enqueue, EnqueueBuffered
    <3>2. CallType'
      BY <1>0, <1>1, <2>2 DEF CallType, Enqueue, EnqueueBuffered, Paths
    <3>3. ResultType'
      BY <1>0, <1>1, <2>2
         DEF ResultType, Enqueue, EnqueueBuffered, Returns, Answers
    <3> QED BY <3>1, <3>2, <3>3, <1>1, <2>2, Frame
       DEF TypeOK, Enqueue, EnqueueBuffered
  <2>3. CASE EnqueueFast(c, i)
    <3>1. ChanType'
      BY <1>0, <1>1, <2>3 DEF ChanType, Enqueue, EnqueueFast, Send, Full
    <3>2. CallType'
      BY <1>0, <1>1, <2>3 DEF CallType, Enqueue, EnqueueFast, Paths
    <3>3. ResultType'
      BY <1>0, <1>1, <2>3 DEF ResultType, Enqueue, EnqueueFast, Returns, Answers
    <3> QED BY <3>1, <3>2, <3>3, <1>1, <2>3, Frame
       DEF TypeOK, Enqueue, EnqueueFast
  <2>4. CASE EnqueueSlow(c, i)
    <3>1. CallType'
      BY <1>0, <1>1, <2>4 DEF CallType, Enqueue, EnqueueSlow, Paths
    <3>2. ResultType'
      BY <1>0, <1>1, <2>4 DEF ResultType, Enqueue, EnqueueSlow, Returns, Answers
    <3> QED BY <3>1, <3>2, <1>1, <2>4, Frame DEF TypeOK, Enqueue, EnqueueSlow
  <2> QED BY <1>1, <2>1, <2>2, <2>3, <2>4 DEF Enqueue
<1>2. ASSUME NEW c \in Callers, CallerStep(c) PROVE TypeOK'
  <2>1. CASE SlowSend(c)
    <3>1. ChanType'
      BY <1>0, <2>1 DEF ChanType, SlowSend, CallType, Send, Full
    <3>2. CallType'
      BY <1>0, <2>1 DEF CallType, SlowSend
    <3> QED BY <3>1, <3>2, <2>1, Frame DEF TypeOK, SlowSend
  <2>2. CASE SlowFail(c)
    <3>1. CallType'
      BY <1>0, <2>2 DEF CallType, SlowFail
    <3>2. ResultType'
      BY <1>0, <2>2 DEF ResultType, SlowFail, CallType, Returns, Answers
    <3> QED BY <3>1, <3>2, <2>2, Frame DEF TypeOK, SlowFail
  <2>3. CASE SlowReserve(c)
    <3>1. ChanType'
      BY <1>0, <2>3 DEF ChanType, SlowReserve, CallType
    <3>2. CallType'
      BY <1>0, <2>3 DEF CallType, SlowReserve
    <3>3. ResultType'
      BY <1>0, <2>3 DEF ResultType, SlowReserve, CallType, Returns, Answers
    <3> QED BY <3>1, <3>2, <3>3, <2>3, Frame DEF TypeOK, SlowReserve
  <2> QED BY <1>2, <2>1, <2>2, <2>3 DEF CallerStep
<1>3. ASSUME NEW p \in Replayers, BeginReplay(p) PROVE TypeOK'
  <2>1. ChanType'
    BY <1>0, <1>3 DEF ChanType, BeginReplay
  <2>2. ReplayType'
    BY <1>0, <1>3 DEF ReplayType, BeginReplay, InSend
  <2> QED BY <2>1, <2>2, <1>3, Frame DEF TypeOK, BeginReplay
<1>4. ASSUME NEW p \in Replayers, NEW i \in Inst, ReplayWrite(p, i) PROVE TypeOK'
  <2>1. ChanType'
    BY <1>0, <1>4 DEF ChanType, ReplayWrite
  <2>2. ReplayType'
    BY <1>0, <1>4 DEF ReplayType, ReplayWrite, InSend
  <2>3. ResultType'
    BY <1>0, <1>4 DEF ResultType, ReplayWrite, Returns, Answers
  <2>4. CallType'
    BY <1>0, <1>4 DEF CallType, ReplayWrite, Paths
  <2> QED BY <2>1, <2>2, <2>3, <2>4, <1>4, Frame DEF TypeOK, ReplayWrite
<1>5. ASSUME NEW p \in Replayers, ReplayerStep(p) PROVE TypeOK'
  <2>1. CASE ReplaySent(p)
    <3>1. rarg[p] \in Inst
      BY <1>0, <2>1 DEF ReplaySent, ReplayType, InSend
    <3>2. ChanType'
      BY <1>0, <2>1, <3>1, Sent DEF ChanType, ReplaySent
    <3>3. ReplayType'
      BY <1>0, <2>1 DEF ReplayType, ReplaySent, InSend
    <3>4. ResultType'
      BY <1>0, <2>1
         DEF ResultType, ReplaySent, ReplayType, InSend, Returns, Answers
    <3> QED BY <3>1, <3>2, <3>3, <3>4, <2>1, Frame DEF TypeOK, ReplaySent
  <2>2. CASE EndReplay(p)
    <3>1. ChanType'
      BY <1>0, <2>2, EmptySeq DEF ChanType, EndReplay
    <3>2. ReplayType'
      BY <1>0, <2>2 DEF ReplayType, EndReplay, ChanType, InSend
    <3> QED BY <3>1, <3>2, <2>2, Frame DEF TypeOK, EndReplay
  <2>3. CASE FlushNext(p)
    <3>1. ChanType'
      BY <1>0, <2>3 DEF ChanType, FlushNext, ReplayType
    <3>2. flush[p] # <<>> => Head(flush[p]) \in Inst /\ Tail(flush[p]) \in Seq(Inst)
      BY <1>0 DEF ReplayType
    <3>3. flush' \in [Replayers -> Seq(Inst)]
      BY <1>0, <2>3, <3>2 DEF ReplayType, FlushNext
    <3>4. /\ rarg' \in [Replayers -> Inst \cup {None}]
          /\ \A q \in Replayers \ {p} : rarg'[q] = rarg[q]
      BY <1>0, <2>3, <3>2 DEF ReplayType, FlushNext
    <3>5. /\ rpc' = [rpc EXCEPT ![p] = rpc'[p]]
          /\ rpc'[p] \in {"idle", "flushSend"}
          /\ rpc'[p] = "flushSend" => rarg'[p] \in Inst
      BY <1>0, <2>3, <3>2 DEF ReplayType, FlushNext
    <3>6. ReplayType'
      BY <1>0, <3>3, <3>4, <3>5 DEF ReplayType, InSend
    <3> QED BY <3>1, <3>6, <2>3, Frame DEF TypeOK, FlushNext
  <2>4. CASE FlushSent(p)
    <3>1. rarg[p] \in Inst
      BY <1>0, <2>4 DEF FlushSent, ReplayType, InSend
    <3>2. ChanType'
      BY <1>0, <2>4, <3>1, Sent DEF ChanType, FlushSent
    <3>3. ReplayType'
      BY <1>0, <2>4 DEF ReplayType, FlushSent, InSend
    <3> QED BY <3>1, <3>2, <3>3, <2>4, Frame DEF TypeOK, FlushSent
  <2> QED BY <1>5, <2>1, <2>2, <2>3, <2>4 DEF ReplayerStep
<1>6. CASE WorkerStep
  <2>1. CASE Receive
    <3>1. ChanType'
      BY <1>0, <2>1 DEF ChanType, Receive
    <3>2. WorkType'
      BY <1>0, <2>1 DEF WorkType, Receive, ChanType, Holding
    <3> QED BY <3>1, <3>2, <2>1, Frame DEF TypeOK, Receive
  <2>2. CASE ExitOnStop
    <3>1. WorkType'
      BY <1>0, <2>2 DEF WorkType, ExitOnStop, Holding
    <3> QED BY <3>1, <2>2, Frame DEF TypeOK, ExitOnStop
  <2>3. CASE CheckClosed
    <3>1. wpc = "check" => Append(ran, cur) \in Seq(Inst)
      BY <1>0 DEF WorkType, Holding
    <3>2. CASE closed
      BY <1>0, <2>3, <3>2, Frame DEF TypeOK, WorkType, CheckClosed, Holding
    <3>3. CASE ~closed
      <4>1. wpc' = "handler" /\ cur' = cur /\ wpc = "check"
        BY <2>3, <3>3 DEF CheckClosed
      <4>2. wg' \in Int /\ ran' \in Seq(Inst)
        BY <1>0, <2>3, <3>1, <3>3 DEF WorkType, CheckClosed
      <4>3. WorkType'
        BY <1>0, <4>1, <4>2 DEF WorkType, Holding
      <4> QED BY <2>3, <4>3, Frame DEF TypeOK, CheckClosed
    <3> QED BY <3>2, <3>3
  <2>4. CASE HandlerReturns
    <3>1. WorkType'
      BY <1>0, <2>4 DEF WorkType, HandlerReturns, Holding
    <3> QED BY <3>1, <2>4, Frame DEF TypeOK, HandlerReturns
  <2>5. CASE ReleaseKey
    <3>1. ChanType'
      BY <1>0, <2>5 DEF ChanType, ReleaseKey
    <3>2. WorkType'
      BY <1>0, <2>5 DEF WorkType, ReleaseKey, Holding
    <3> QED BY <3>1, <3>2, <2>5, Frame DEF TypeOK, ReleaseKey
  <2>6. CASE WgDone
    <3>1. WorkType'
      BY <1>0, <2>6 DEF WorkType, WgDone, Holding
    <3> QED BY <3>1, <2>6, Frame DEF TypeOK, WgDone
  <2> QED BY <1>6, <2>1, <2>2, <2>3, <2>4, <2>5, <2>6 DEF WorkerStep
<1>7. ASSUME NEW s \in Closers, Shutdown(s) \/ CloserStep(s) PROVE TypeOK'
  <2>1. CloseType'
    BY <1>0, <1>7 DEF CloseType, Shutdown, CloserStep, WaitReturns, CloseDone
  <2> QED BY <2>1, <1>7, Frame
     DEF TypeOK, Shutdown, CloserStep, WaitReturns, CloseDone
<1>8. CASE UNCHANGED vars
  BY <1>8, Frame DEF TypeOK, vars
<1> QED BY <1>1, <1>2, <1>3, <1>4, <1>5, <1>6, <1>7, <1>8 DEF Next

(* Every variable keeps its type, and the channel its capacity.            *)
THEOREM TypeCorrect == Spec => []TypeOK
<1>1. TypeOK /\ [Next]_vars => TypeOK'
  BY StepTyped
<1> QED BY InitTyped, <1>1, PTL DEF Spec

-----------------------------------------------------------------------------
(* A new runner counts no execution and has not begun its shutdown.        *)
LEMMA InitShutdown == Init => WgCounts /\ ShutdownOrder
  BY DEF Init, WgCounts, ShutdownOrder

(* Every step keeps the count of executions and the order of the shutdown. *)
LEMMA StepShutdown ==
  TypeOK /\ WgCounts /\ ShutdownOrder /\ [Next]_vars => WgCounts' /\ ShutdownOrder'
<1> SUFFICES ASSUME TypeOK, WgCounts, ShutdownOrder, [Next]_vars
             PROVE  WgCounts' /\ ShutdownOrder'
  OBVIOUS
<1> USE DEF closeVars, workVars, Stops, Done, Waited
<1>0. CloseType /\ WorkType
  BY DEF TypeOK
<1>1. ASSUME UNCHANGED closeVars, UNCHANGED workVars
      PROVE  WgCounts' /\ ShutdownOrder'
  BY <1>1 DEF WgCounts, ShutdownOrder
<1>2. ASSUME NEW c \in Callers, NEW i \in Inst, Enqueue(c, i)
      PROVE  WgCounts' /\ ShutdownOrder'
  BY <1>1, <1>2 DEF Enqueue
<1>3. ASSUME NEW c \in Callers, CallerStep(c)
      PROVE  WgCounts' /\ ShutdownOrder'
  BY <1>1, <1>3 DEF CallerStep, SlowSend, SlowFail, SlowReserve
<1>4. ASSUME NEW p \in Replayers, BeginReplay(p) \/ ReplayerStep(p)
      PROVE  WgCounts' /\ ShutdownOrder'
  BY <1>1, <1>4 DEF BeginReplay, ReplayerStep, ReplaySent, EndReplay, FlushNext, FlushSent
<1>5. ASSUME NEW p \in Replayers, NEW i \in Inst, ReplayWrite(p, i)
      PROVE  WgCounts' /\ ShutdownOrder'
  BY <1>1, <1>5 DEF ReplayWrite
<1>6. CASE WorkerStep
  <2> USE DEF WgCounts, ShutdownOrder
  <2>1. CASE Receive
    BY <2>1 DEF Receive
  <2>2. CASE ExitOnStop
    BY <2>2 DEF ExitOnStop
  <2>3. CASE CheckClosed
    BY <2>3 DEF CheckClosed
  <2>4. CASE HandlerReturns
    BY <2>4 DEF HandlerReturns
  <2>5. CASE ReleaseKey
    BY <2>5 DEF ReleaseKey
  <2>6. CASE WgDone
    BY <1>0, <2>6 DEF WgDone
  <2> QED BY <1>6, <2>1, <2>2, <2>3, <2>4, <2>5, <2>6 DEF WorkerStep
<1>7. ASSUME NEW s \in Closers, Shutdown(s) \/ CloserStep(s)
      PROVE  WgCounts' /\ ShutdownOrder'
  <2>1. WgCounts'
    BY <1>7 DEF WgCounts, Shutdown, CloserStep, WaitReturns, CloseDone
  <2>2. CASE Shutdown(s)
    BY <1>0, <2>1, <2>2 DEF CloseType, ShutdownOrder, Shutdown
  <2>3. CASE WaitReturns(s)
    BY <1>0, <2>1, <2>3 DEF CloseType, ShutdownOrder, WaitReturns
  <2>4. CASE CloseDone(s)
    BY <1>0, <2>1, <2>4 DEF CloseType, ShutdownOrder, CloseDone
  <2> QED BY <1>7, <2>2, <2>3, <2>4 DEF CloserStep
<1>8. CASE UNCHANGED vars
  BY <1>1, <1>8 DEF vars
<1> QED BY <1>2, <1>3, <1>4, <1>5, <1>6, <1>7, <1>8 DEF Next

(* A released slot runs nothing: the WaitGroup saw the handler leave       *)
(* before r.stop and r.done were closed, and no handler starts after       *)
(* r.closed (runner.go:142-154, 197-203).                                  *)
THEOREM ReleasedSlotIsIdle == Spec => []ReleasedIdle
<1>1. Init => IInv
  BY InitTyped, InitShutdown DEF IInv
<1>2. IInv /\ [Next]_vars => IInv'
  BY StepTyped, StepShutdown DEF IInv
<1>3. IInv => ReleasedIdle
  BY DEF IInv, TypeOK, WorkType, Holding, WgCounts, ShutdownOrder, ReleasedIdle
<1> QED BY <1>1, <1>2, <1>3, PTL DEF Spec

-----------------------------------------------------------------------------
(* A new runner has no open window.                                        *)
LEMMA InitWindow == Init => OneWindow
  BY DEF Init, OneWindow, Windowing

(* Only BeginReplay opens a window, and only where none is open.           *)
LEMMA StepWindow == TypeOK /\ OneWindow /\ [Next]_vars => OneWindow'
<1> SUFFICES ASSUME TypeOK, OneWindow, [Next]_vars PROVE OneWindow'
  OBVIOUS
<1> USE DEF chanVars, replayVars, MayReplay, Parks
<1>0. ChanType /\ ReplayType
  BY DEF TypeOK
<1>1. ASSUME UNCHANGED <<replay, buffer, rpc>> PROVE OneWindow'
  BY <1>1 DEF OneWindow, Windowing
<1>2. ASSUME NEW c \in Callers, NEW i \in Inst, Enqueue(c, i) PROVE OneWindow'
  <2>1. CASE EnqueueBuffered(c, i)
    BY <1>2, <2>1 DEF Enqueue, EnqueueBuffered, OneWindow, Windowing
  <2>2. CASE EnqueueRefused(c, i) \/ EnqueueFast(c, i) \/ EnqueueSlow(c, i)
    BY <1>1, <1>2, <2>2 DEF Enqueue, EnqueueRefused, EnqueueFast, EnqueueSlow
  <2> QED BY <1>2, <2>1, <2>2 DEF Enqueue
<1>3. ASSUME NEW c \in Callers, CallerStep(c) PROVE OneWindow'
  BY <1>1, <1>3 DEF CallerStep, SlowSend, SlowFail, SlowReserve
<1>4. ASSUME NEW p \in Replayers, BeginReplay(p) PROVE OneWindow'
  BY <1>0, <1>4 DEF ReplayType, InSend, BeginReplay, OneWindow, Windowing
<1>5. ASSUME NEW p \in Replayers, NEW i \in Inst, ReplayWrite(p, i) PROVE OneWindow'
  BY <1>0, <1>5 DEF ReplayType, InSend, ReplayWrite, OneWindow, Windowing
<1>6. ASSUME NEW p \in Replayers, ReplayerStep(p) PROVE OneWindow'
  <2> USE DEF ReplayType, InSend, OneWindow, Windowing
  <2>1. CASE ReplaySent(p)
    BY <1>0, <2>1 DEF ReplaySent
  <2>2. CASE EndReplay(p)
    BY <1>0, <2>2 DEF EndReplay
  <2>3. CASE FlushNext(p)
    BY <1>0, <2>3 DEF FlushNext
  <2>4. CASE FlushSent(p)
    BY <1>0, <2>4 DEF FlushSent
  <2> QED BY <1>6, <2>1, <2>2, <2>3, <2>4 DEF ReplayerStep
<1>7. CASE WorkerStep
  BY <1>1, <1>7 DEF WorkerStep, Receive, ExitOnStop, CheckClosed, HandlerReturns,
                    ReleaseKey, WgDone
<1>8. ASSUME NEW s \in Closers, Shutdown(s) \/ CloserStep(s) PROVE OneWindow'
  BY <1>1, <1>8 DEF Shutdown, CloserStep, WaitReturns, CloseDone
<1>9. CASE UNCHANGED vars
  BY <1>1, <1>9 DEF vars
<1> QED BY <1>2, <1>3, <1>4, <1>5, <1>6, <1>7, <1>8, <1>9 DEF Next

(* At most one replay window is open at a time, r.replay is true exactly   *)
(* while it is, and r.buffer holds nothing outside it (runner.go:109-127). *)
THEOREM ReplayWindowsExclusive == Spec => []OneWindow
<1>1. TypeOK /\ OneWindow /\ [Next]_vars => OneWindow'
  BY StepWindow
<1> QED BY InitWindow, <1>1, TypeCorrect, PTL DEF Spec

-----------------------------------------------------------------------------
(***************************************************************************)
(* Delivery: an instance is followed through r.in, r.buffer, the lists of  *)
(* EndReplay and the worker's hands.                                       *)
(***************************************************************************)

(* The slot has the instance, or had it and started its handler.           *)
Taken(i) == Waiting(i) \/ i \in Range(ran)

(* Where a call waits for the channel without the lock or with it.         *)
Calls(c, i)   == cpc[c] # "idle" /\ carg[c] = i
Replays(p, i) == rpc[p] = "replaySend" /\ rarg[p] = i

(* An instance is taken once its call is past the send, never before and   *)
(* never when the call was refused; the flush loses parked ones only.      *)
DeliveryOf(i) ==
    /\ result[i] \in (Answers \ {"nil"}) \cup {"new"} => ~Taken(i)
    /\ ~closed /\ result[i] = "nil" /\ path[i] # "parked" => Taken(i)
    /\ Parked(i) => path[i] = "parked"
    /\ \A c \in Callers : Calls(c, i) =>
          /\ result[i] = "calling" /\ path[i] = "slow"
          /\ cpc[c] = "slow" => ~Taken(i)
          /\ cpc[c] = "reserve" /\ ~closed => Taken(i)
          /\ \A d \in Callers : Calls(d, i) => c = d
    /\ \A p \in Replayers : Replays(p, i) =>
          /\ result[i] = "calling" /\ path[i] = "replayed" /\ ~Taken(i)
          /\ \A q \in Replayers : Replays(q, i) => p = q

(* Of every instance.                                                      *)
Delivery == \A i \in Inst : DeliveryOf(i)

-----------------------------------------------------------------------------
(* What an append adds to the elements of a sequence.                      *)
LEMMA RangeAppend ==
  ASSUME NEW S, NEW s \in Seq(S), NEW e \in S
  PROVE  Range(Append(s, e)) = Range(s) \cup {e}
<1> DEFINE a == Append(s, e)
<1>1. a \in Seq(S) /\ Len(a) = Len(s) + 1 /\ a[Len(s) + 1] = e /\ Len(s) \in Nat
  OBVIOUS
<1>2. \A k \in 1 .. Len(s) : a[k] = s[k]
  OBVIOUS
<1> HIDE DEF a
<1>3. \A x : x \in Range(s) <=> \E k \in 1 .. Len(s) : x = s[k]
  BY DEF Range
<1>4. \A x : x \in Range(a) <=> \E k \in 1 .. Len(s) + 1 : x = a[k]
  BY <1>1 DEF Range
<1>5. \A x : x \in Range(a) <=> x \in Range(s) \cup {e}
  BY <1>1, <1>2, <1>3, <1>4
<1> QED
  BY <1>5 DEF a

(* The elements of a sequence are its head and those of its tail.          *)
LEMMA RangeTail ==
  ASSUME NEW S, NEW s \in Seq(S), s # <<>>
  PROVE  Range(s) = {Head(s)} \cup Range(Tail(s)) /\ Head(s) \in S
<1> DEFINE t == Tail(s)
<1>1. t \in Seq(S) /\ Len(t) = Len(s) - 1 /\ Len(s) \in Nat \ {0} /\ Head(s) = s[1]
  OBVIOUS
<1>2. \A k \in 1 .. Len(t) : t[k] = s[k + 1]
  OBVIOUS
<1> HIDE DEF t
<1>3. \A x : x \in Range(s) <=> \E k \in 1 .. Len(s) : x = s[k]
  BY DEF Range
<1>4. \A x : x \in Range(t) <=> \E k \in 1 .. Len(s) - 1 : x = t[k]
  BY <1>1 DEF Range
<1>5. ASSUME NEW x PROVE x \in Range(s) <=> x = s[1] \/ x \in Range(t)
  <2>1. ASSUME NEW k \in 1 .. Len(s), x = s[k], k # 1 PROVE x \in Range(t)
    <3>1. k - 1 \in 1 .. Len(t) /\ t[k - 1] = s[k]
      BY <1>1, <1>2, <2>1
    <3> QED
      BY <1>1, <1>4, <2>1, <3>1
  <2>2. ASSUME NEW k \in 1 .. Len(s) - 1, x = t[k] PROVE x \in Range(s)
    <3>1. k + 1 \in 1 .. Len(s) /\ t[k] = s[k + 1]
      BY <1>1, <1>2
    <3> QED
      BY <1>3, <2>2, <3>1
  <2>3. s[1] \in Range(s)
    BY <1>1, <1>3
  <2> QED
    BY <1>3, <1>4, <2>1, <2>2, <2>3
<1>6. Head(s) \in S
  OBVIOUS
<1> QED
  BY <1>1, <1>5, <1>6 DEF t

(* The empty sequence has no elements.                                     *)
LEMMA RangeEmpty == Range(<<>>) = {}
BY DEF Range

(* Where an instance can be, written out.                                  *)
LEMMA Whereabouts ==
  ASSUME NEW i
  PROVE  /\ Parked(i) <=> \/ i \in Range(buffer)
                          \/ \E p \in Replayers : i \in Range(flush[p])
                          \/ \E p \in Replayers : rpc[p] = "flushSend" /\ rarg[p] = i
         /\ Taken(i) <=> \/ Parked(i) \/ i \in Range(in)
                         \/ wpc = "check" /\ cur = i
                         \/ i \in Range(ran)
         /\ Parked(i)' <=> \/ i \in Range(buffer')
                           \/ \E p \in Replayers : i \in Range(flush'[p])
                           \/ \E p \in Replayers : rpc'[p] = "flushSend" /\ rarg'[p] = i
         /\ Taken(i)' <=> \/ Parked(i)' \/ i \in Range(in')
                          \/ wpc' = "check" /\ cur' = i
                          \/ i \in Range(ran')
BY DEF Parked, Flushing, Taken, Waiting

(* A new runner has no instance.                                           *)
LEMMA InitDelivery == Init => Delivery
<1> SUFFICES ASSUME Init PROVE Delivery
  OBVIOUS
<1>1. \A i : ~Taken(i) /\ ~Parked(i)
  BY RangeEmpty, Whereabouts DEF Init
<1> QED
  BY <1>1 DEF Init, Delivery, DeliveryOf, Answers, Calls, Replays

-----------------------------------------------------------------------------
(* A step that changes no call and no reservation, gives the slot nothing  *)
(* new, and loses only parked instances or what a closed slot drops.       *)
LEMMA Settled ==
  ASSUME Delivery,
         UNCHANGED <<result, path, cpc, carg>>, closed => closed',
         \A p \in Replayers, i \in Inst : Replays(p, i)' => Replays(p, i),
         \A i \in Inst : (Taken(i)' => Taken(i)) /\ (Parked(i)' => Parked(i)),
         ~closed' => \A i \in Inst : Taken(i) /\ ~Parked(i) => Taken(i)'
  PROVE  Delivery'
<1>1. \A c \in Callers, i \in Inst : Calls(c, i)' <=> Calls(c, i)
  BY DEF Calls
<1>2. SUFFICES ASSUME NEW i \in Inst PROVE DeliveryOf(i)'
  BY DEF Delivery
<1>3. DeliveryOf(i)
  BY DEF Delivery
<1> QED
  BY <1>1, <1>3 DEF DeliveryOf

(* A step that is about one instance only: the others stay as they are.    *)
LEMMA OnlyOne ==
  ASSUME Delivery, NEW i \in Inst, closed' = closed,
         \A j \in Inst \ {i} :
            /\ result'[j] = result[j] /\ path'[j] = path[j]
            /\ Taken(j)' <=> Taken(j)
            /\ Parked(j)' <=> Parked(j)
            /\ \A c \in Callers : /\ Calls(c, j)' <=> Calls(c, j)
                                  /\ Calls(c, j) => cpc'[c] = cpc[c]
            /\ \A p \in Replayers : Replays(p, j)' <=> Replays(p, j),
         DeliveryOf(i)'
  PROVE  Delivery'
<1> SUFFICES ASSUME NEW j \in Inst \ {i} PROVE DeliveryOf(j)'
  BY DEF Delivery
<1>1. DeliveryOf(j)
  BY DEF Delivery
<1>2. \A c \in Callers : Calls(c, j)' =>
          /\ result'[j] = "calling" /\ path'[j] = "slow"
          /\ cpc'[c] = "slow" => ~Taken(j)'
          /\ cpc'[c] = "reserve" /\ ~closed' => Taken(j)'
          /\ \A d \in Callers : Calls(d, j)' => c = d
  BY <1>1 DEF DeliveryOf
<1>3. \A p \in Replayers : Replays(p, j)' =>
          /\ result'[j] = "calling" /\ path'[j] = "replayed" /\ ~Taken(j)'
          /\ \A q \in Replayers : Replays(q, j)' => p = q
  BY <1>1 DEF DeliveryOf
<1> QED
  BY <1>1, <1>2, <1>3 DEF DeliveryOf

(* The steps of the worker, and those of a replayer that send no replayed  *)
(* task, move instances without adding any.                                *)
LEMMA MovesSettle ==
  ASSUME TypeOK, Delivery,
         \/ WorkerStep \/ UNCHANGED vars
         \/ \E s \in Closers : Shutdown(s) \/ CloserStep(s)
         \/ \E p \in Replayers : BeginReplay(p) \/ EndReplay(p) \/ FlushNext(p) \/ FlushSent(p)
  PROVE  Delivery'
<1> USE DEF chanVars, closeVars, callVars, replayVars, workVars, vars, Stops, TimesOut
<1>0. ChanType /\ ReplayType /\ WorkType /\ CloseType
  BY DEF TypeOK
<1>1. ASSUME UNCHANGED <<result, callVars, in, buffer, flush, rpc, rarg, ran>>,
             closed => closed',
             \/ wpc' = "check" /\ cur' = cur /\ wpc = "check"
             \/ wpc # "check" /\ wpc' # "check"
             \/ closed' /\ wpc' # "check"
      PROVE  Delivery'
  <2>1. \A i \in Inst : (Taken(i)' => Taken(i)) /\ (Parked(i)' <=> Parked(i))
    BY <1>1, Whereabouts
  <2>2. ~closed' => \A i \in Inst : Taken(i) => Taken(i)'
    BY <1>1, Whereabouts
  <2>30. \A q \in Replayers, i \in Inst : Replays(q, i)' => Replays(q, i)
    BY <1>1, <2>1, <2>2 DEF Replays
  <2> QED
    BY <1>1, <2>1, <2>2, <2>30, Settled
<1>2. CASE Receive
  <2>1. Range(in) = {cur'} \cup Range(in')
    BY <1>0, <1>2, RangeTail DEF Receive, ChanType
  <2>2. \A i \in Inst : (Taken(i)' <=> Taken(i)) /\ (Parked(i)' <=> Parked(i))
    BY <1>2, <2>1, Whereabouts DEF Receive
  <2>3. UNCHANGED <<result, path, cpc, carg, closed, rpc, rarg>>
    BY <1>2 DEF Receive
  <2>30. \A q \in Replayers, i \in Inst : Replays(q, i)' => Replays(q, i)
    BY <2>2, <2>3 DEF Replays
  <2> QED
    BY <2>2, <2>3, <2>30, Settled
<1>3. CASE CheckClosed
  <2>1. CASE closed
    BY <1>1, <1>3, <2>1 DEF CheckClosed
  <2>2. CASE ~closed
    <3>1. cur \in Inst /\ ran \in Seq(Inst)
      BY <1>0, <1>3 DEF CheckClosed, WorkType, Holding
    <3>5. ran' = Append(ran, cur)
      BY <1>3, <2>2 DEF CheckClosed
    <3>2. Range(ran') = Range(ran) \cup {cur}
      BY <3>1, <3>5, RangeAppend
    <3>3. \A i \in Inst : (Taken(i)' <=> Taken(i)) /\ (Parked(i)' <=> Parked(i))
      BY <1>3, <2>2, <3>2, Whereabouts DEF CheckClosed
    <3>4. UNCHANGED <<result, path, cpc, carg, closed, rpc, rarg>>
      BY <1>3 DEF CheckClosed
    <3>30. \A q \in Replayers, i \in Inst : Replays(q, i)' => Replays(q, i)
      BY <3>3, <3>4 DEF Replays
    <3> QED
      BY <3>3, <3>4, <3>30, Settled
  <2> QED
    BY <2>1, <2>2
<1>4. CASE ExitOnStop \/ HandlerReturns \/ ReleaseKey \/ WgDone
  BY <1>1, <1>4 DEF ExitOnStop, HandlerReturns, ReleaseKey, WgDone
<1>5. ASSUME NEW s \in Closers, Shutdown(s) \/ CloserStep(s) PROVE Delivery'
  BY <1>1, <1>5 DEF Shutdown, CloserStep, WaitReturns, CloseDone
<1>6. CASE UNCHANGED vars
  BY <1>1, <1>6
<1>7. ASSUME NEW p \in Replayers, BeginReplay(p) PROVE Delivery'
  <2>1. rpc[p] = "idle" /\ rpc' = [rpc EXCEPT ![p] = "work"] /\ buffer' = <<>>
    BY <1>7 DEF BeginReplay
  <2>2. \A q \in Replayers : /\ rpc'[q] = "flushSend" <=> rpc[q] = "flushSend"
                             /\ rpc'[q] = "replaySend" <=> rpc[q] = "replaySend"
    BY <1>0, <2>1 DEF ReplayType
  <2>3. \A i \in Inst : /\ Taken(i)' => Taken(i)
                        /\ Parked(i)' => Parked(i)
                        /\ Taken(i) /\ ~Parked(i) => Taken(i)'
    BY <1>7, <2>1, <2>2, RangeEmpty, Whereabouts DEF BeginReplay
  <2>4. UNCHANGED <<result, path, cpc, carg, closed>> /\ rarg' = rarg
    BY <1>7 DEF BeginReplay
  <2>30. \A q \in Replayers, i \in Inst : Replays(q, i)' => Replays(q, i)
    BY <2>2, <2>4 DEF Replays
  <2> QED
    BY <2>2, <2>3, <2>4, <2>30, Settled
<1>8. ASSUME NEW p \in Replayers, EndReplay(p) PROVE Delivery'
  <2>1. /\ rpc[p] \in {"work", "end"} /\ rpc' = [rpc EXCEPT ![p] = "flush"] /\ buffer' = <<>>
        /\ flush' = [flush EXCEPT ![p] = buffer] /\ rarg' = rarg
    BY <1>8 DEF EndReplay
  <2>2. \A q \in Replayers : /\ rpc'[q] = "flushSend" <=> rpc[q] = "flushSend"
                             /\ rpc'[q] = "replaySend" <=> rpc[q] = "replaySend"
    BY <1>0, <2>1 DEF ReplayType
  <2>5. \A q \in Replayers : flush'[q] = buffer \/ flush'[q] = flush[q]
    BY <1>0, <2>1 DEF ReplayType
  <2>3. \A i \in Inst : Parked(i)' => Parked(i)
    BY <2>1, <2>2, <2>5, RangeEmpty, Whereabouts
  <2>4. \A i \in Inst : /\ Taken(i)' => Taken(i)
                        /\ Taken(i) /\ ~Parked(i) => Taken(i)'
    BY <1>8, <2>3, Whereabouts DEF EndReplay
  <2>6. UNCHANGED <<result, path, cpc, carg, closed>>
    BY <1>8 DEF EndReplay
  <2>30. \A q \in Replayers, i \in Inst : Replays(q, i)' => Replays(q, i)
    BY <2>1, <2>2 DEF Replays
  <2> QED
    BY <2>2, <2>3, <2>4, <2>6, <2>30, Settled
<1>9. ASSUME NEW p \in Replayers, FlushNext(p) PROVE Delivery'
  <2>1. CASE flush[p] = <<>>
    <3>1. rpc' = [rpc EXCEPT ![p] = "idle"] /\ rpc[p] = "flush" /\ UNCHANGED <<rarg, flush, buffer>>
      BY <1>9, <2>1 DEF FlushNext
    <3>2. \A q \in Replayers : /\ rpc'[q] = "flushSend" <=> rpc[q] = "flushSend"
                               /\ rpc'[q] = "replaySend" <=> rpc[q] = "replaySend"
      BY <1>0, <3>1 DEF ReplayType
    <3>3. \A i \in Inst : Parked(i)' <=> Parked(i)
      BY <3>1, <3>2, Whereabouts
    <3>4. \A i \in Inst : Taken(i)' <=> Taken(i)
      BY <1>9, <3>3, Whereabouts DEF FlushNext
    <3>5. UNCHANGED <<result, path, cpc, carg, closed, rarg>>
      BY <1>9, <2>1 DEF FlushNext
    <3>30. \A q \in Replayers, i \in Inst : Replays(q, i)' => Replays(q, i)
      BY <3>1, <3>2 DEF Replays
    <3> QED
      BY <3>2, <3>3, <3>4, <3>5, <3>30, Settled
  <2>2. CASE flush[p] # <<>>
    <3>1. /\ rpc[p] = "flush" /\ rpc' = [rpc EXCEPT ![p] = "flushSend"]
          /\ rarg' = [rarg EXCEPT ![p] = Head(flush[p])]
          /\ flush' = [flush EXCEPT ![p] = Tail(flush[p])] /\ buffer' = buffer
      BY <1>0, <1>9, <2>2 DEF FlushNext
    <3>2. Range(flush[p]) = {Head(flush[p])} \cup Range(Tail(flush[p]))
      BY <1>0, <2>2, RangeTail DEF ReplayType
    <3>3. /\ rpc'[p] = "flushSend" /\ rarg'[p] = Head(flush[p]) /\ flush'[p] = Tail(flush[p])
          /\ \A q \in Replayers : q # p => rpc'[q] = rpc[q] /\ rarg'[q] = rarg[q]
                                          /\ flush'[q] = flush[q]
      BY <1>0, <3>1 DEF ReplayType
    <3>4. \A i \in Inst : Parked(i)' <=> Parked(i)
      BY <3>1, <3>2, <3>3, Whereabouts
    <3>5. \A i \in Inst : Taken(i)' <=> Taken(i)
      BY <1>9, <3>4, Whereabouts DEF FlushNext
    <3>6. UNCHANGED <<result, path, cpc, carg, closed>>
      BY <1>9 DEF FlushNext
    <3>30. \A q \in Replayers, i \in Inst : Replays(q, i)' => Replays(q, i)
      BY <3>3 DEF Replays
    <3> QED
      BY <3>3, <3>4, <3>5, <3>6, <3>30, Settled
  <2> QED
    BY <2>1, <2>2
<1>10. ASSUME NEW p \in Replayers, FlushSent(p) PROVE Delivery'
  <2>1. /\ rpc[p] = "flushSend" /\ rpc' = [rpc EXCEPT ![p] = "flush"]
        /\ rarg' = [rarg EXCEPT ![p] = None] /\ UNCHANGED <<flush, buffer>>
    BY <1>10 DEF FlushSent
  <2>2. /\ rpc'[p] = "flush"
        /\ \A q \in Replayers : q # p => rpc'[q] = rpc[q] /\ rarg'[q] = rarg[q]
    BY <1>0, <2>1 DEF ReplayType
  <2>3. rarg[p] \in Inst /\ Parked(rarg[p])
    BY <1>0, <2>1, Whereabouts DEF ReplayType, InSend
  <2>4. \A i \in Inst : /\ Parked(i)' => Parked(i)
                        /\ Parked(i) => Parked(i)' \/ i = rarg[p]
    BY <2>1, <2>2, Whereabouts
  <2>5. Range(in') = Range(in) \/ Range(in') = Range(in) \cup {rarg[p]}
    <3>1. in' = in \/ in' = Append(in, rarg[p])
      BY <1>10 DEF FlushSent, Send
    <3>2. in \in Seq(Inst)
      BY <1>0 DEF ChanType
    <3>3. Range(Append(in, rarg[p])) = Range(in) \cup {rarg[p]}
      BY <2>3, <3>2, RangeAppend
    <3> QED
      BY <3>1, <3>3
  <2>6. \A i \in Inst : /\ Taken(i)' => Taken(i)
                        /\ Taken(i) /\ ~Parked(i) => Taken(i)'
    BY <1>10, <2>3, <2>4, <2>5, Whereabouts DEF FlushSent
  <2>7. UNCHANGED <<result, path, cpc, carg, closed>>
    BY <1>10 DEF FlushSent
  <2>30. \A q \in Replayers, i \in Inst : Replays(q, i)' => Replays(q, i)
    BY <2>2 DEF Replays
  <2> QED
    BY <2>2, <2>4, <2>6, <2>7, <2>30, Settled
<1> QED
  BY <1>2, <1>3, <1>4, <1>5, <1>6, <1>7, <1>8, <1>9, <1>10 DEF WorkerStep

(* What Enqueue does in its critical section.                              *)
LEMMA EnqueueDelivers ==
  ASSUME TypeOK, Delivery, NEW c \in Callers, NEW i \in Inst, Enqueue(c, i)
  PROVE  Delivery'
<1> USE DEF closeVars, replayVars, workVars, chanVars
<1>0. /\ ChanType /\ CallType /\ ResultType /\ NoneAssumption
      /\ cpc[c] = "idle" /\ result[i] = "new" /\ closed' = closed
      /\ \E r : result' = [result EXCEPT ![i] = r]
      /\ \E r : path' = [path EXCEPT ![i] = r]
      /\ UNCHANGED <<rpc, rarg, flush, wpc, cur, ran>>
  BY NoneAssumption DEF TypeOK, Enqueue, EnqueueRefused, EnqueueBuffered, EnqueueFast, EnqueueSlow, Returns
<1>1. /\ ~Taken(i) /\ ~Parked(i)
      /\ \A d \in Callers : ~Calls(d, i)
      /\ \A p \in Replayers : ~Replays(p, i)
  <2>1. DeliveryOf(i)
    BY DEF Delivery
  <2> QED
    BY <1>0, <2>1, Whereabouts DEF DeliveryOf
<1>2. /\ \A j \in Inst \ {i} : result'[j] = result[j] /\ path'[j] = path[j]
      /\ \A p \in Replayers, j \in Inst : Replays(p, j)' <=> Replays(p, j)
  BY <1>0 DEF CallType, ResultType, Replays
<1>3. CASE EnqueueRefused(c, i) \/ EnqueueBuffered(c, i) \/ EnqueueFast(c, i)
  <2>1. \A d \in Callers, j \in Inst : (Calls(d, j)' <=> Calls(d, j)) /\ cpc'[d] = cpc[d]
    BY <1>3 DEF EnqueueRefused, EnqueueBuffered, EnqueueFast, Calls
  <2>2. \/ in' = in /\ buffer' = buffer /\ result'[i] \in Answers \ {"nil"}
        \/ in' = in /\ buffer' = Append(buffer, i) /\ result'[i] = "nil" /\ path'[i] = "parked"
        \/ in' = Append(in, i) /\ buffer' = buffer /\ result'[i] = "nil"
    <3>1. CASE EnqueueRefused(c, i)
      BY <1>0, <3>1 DEF EnqueueRefused, Returns, Answers, ResultType
    <3>2. CASE EnqueueBuffered(c, i)
      <4>1. buffer' # buffer
        BY <1>0, <3>2 DEF EnqueueBuffered, ChanType
      <4>2. path' = [path EXCEPT ![i] = "parked"]
        BY <1>0, <3>2, <4>1 DEF Enqueue, EnqueueBuffered
      <4> QED
        BY <1>0, <3>2, <4>2 DEF EnqueueBuffered, Returns, ResultType, CallType
    <3>3. CASE EnqueueFast(c, i)
      BY <1>0, <3>3 DEF EnqueueFast, Returns, ResultType, Send
    <3> QED
      BY <1>3, <3>1, <3>2, <3>3
  <2>3. /\ Range(Append(buffer, i)) = Range(buffer) \cup {i}
        /\ Range(Append(in, i)) = Range(in) \cup {i}
    <3>1. buffer \in Seq(Inst) /\ in \in Seq(Inst)
      BY <1>0 DEF ChanType
    <3> QED
      BY <3>1, RangeAppend
  <2>4. \A j \in Inst \ {i} : (Taken(j)' <=> Taken(j)) /\ (Parked(j)' <=> Parked(j))
    BY <1>0, <2>2, <2>3, Whereabouts
  <2>5. \/ ~Taken(i)' /\ ~Parked(i)' /\ result'[i] \in Answers \ {"nil"}
        \/ Parked(i)' /\ Taken(i)' /\ result'[i] = "nil" /\ path'[i] = "parked"
        \/ ~Parked(i)' /\ Taken(i)' /\ result'[i] = "nil"
    BY <1>0, <1>1, <2>2, <2>3, Whereabouts
  <2>6. DeliveryOf(i)'
    BY <1>1, <1>2, <2>1, <2>5 DEF DeliveryOf, Answers
  <2> QED
    BY <1>0, <1>2, <2>1, <2>4, <2>6, OnlyOne
<1>4. CASE EnqueueSlow(c, i)
  <2>1. /\ cpc' = [cpc EXCEPT ![c] = "slow"] /\ carg' = [carg EXCEPT ![c] = i]
        /\ result'[i] = "calling" /\ UNCHANGED <<in, buffer>>
    BY <1>0, <1>4 DEF EnqueueSlow, Returns, ResultType
  <2>2. cpc'[c] = "slow" /\ carg'[c] = i /\ \A d \in Callers : d # c => cpc'[d] = cpc[d] /\ carg'[d] = carg[d]
    BY <1>0, <2>1 DEF CallType
  <2>3. path'[i] = "slow"
    BY <1>0, <2>2 DEF Enqueue, CallType
  <2>4. \A j \in Inst : (Taken(j)' <=> Taken(j)) /\ (Parked(j)' <=> Parked(j))
    BY <1>0, <2>1, Whereabouts
  <2>5. \A j \in Inst \ {i}, d \in Callers :
           (Calls(d, j)' <=> Calls(d, j)) /\ (Calls(d, j) => cpc'[d] = cpc[d])
    BY <1>0, <2>2 DEF Calls
  <2>6. \A d \in Callers : Calls(d, i)' <=> d = c
    BY <1>1, <2>2 DEF Calls
  <2>7. DeliveryOf(i)'
    BY <1>1, <1>2, <2>1, <2>2, <2>3, <2>4, <2>6 DEF DeliveryOf, Answers
  <2> QED
    BY <1>0, <1>2, <2>4, <2>5, <2>7, OnlyOne
<1> QED
  BY <1>3, <1>4 DEF Enqueue

(* The slow path of Enqueue: the send, the refusals, the late reservation. *)
LEMMA SlowDelivers ==
  ASSUME TypeOK, Delivery, NEW c \in Callers, CallerStep(c)
  PROVE  Delivery'
<1> USE DEF closeVars, replayVars, workVars, chanVars, AfterSend, SlowAnswer
<1> PICK i \in Inst : i = carg[c]
  BY DEF TypeOK, CallType, CallerStep, SlowSend, SlowFail, SlowReserve
<1>0. /\ ChanType /\ CallType /\ ResultType /\ closed' = closed
      /\ cpc[c] \in {"slow", "reserve"} /\ i \in Inst /\ i # None
      /\ UNCHANGED <<path, rpc, rarg, flush, buffer, wpc, cur, ran>>
  BY NoneAssumption DEF TypeOK, CallType, CallerStep, SlowSend, SlowFail, SlowReserve
<1>1. /\ Calls(c, i) /\ result[i] = "calling" /\ path[i] = "slow" /\ ~Parked(i)
      /\ cpc[c] = "slow" => ~Taken(i)
      /\ cpc[c] = "reserve" /\ ~closed => Taken(i)
      /\ \A d \in Callers : Calls(d, i) => d = c
      /\ \A p \in Replayers : ~Replays(p, i)
  <2>1. DeliveryOf(i) /\ Calls(c, i)
    BY <1>0 DEF Delivery, Calls
  <2> QED
    BY <1>0, <2>1 DEF DeliveryOf
<1>2. \A p \in Replayers, j \in Inst : Replays(p, j)' <=> Replays(p, j)
  BY <1>0 DEF Replays
<1>3. CASE SlowSend(c)
  <2>1. /\ in' = Append(in, i) /\ carg' = carg /\ result' = result
        /\ cpc[c] = "slow" /\ cpc' = [cpc EXCEPT ![c] = "reserve"]
    BY <1>3 DEF SlowSend, Send
  <2>2. Range(in') = Range(in) \cup {i}
    <3>1. in \in Seq(Inst)
      BY <1>0 DEF ChanType
    <3>2. Range(Append(in, i)) = Range(in) \cup {i}
      BY <1>0, <3>1, RangeAppend
    <3> QED
      BY <2>1, <3>2
  <2>3. cpc'[c] = "reserve" /\ \A d \in Callers : d # c => cpc'[d] = cpc[d]
    BY <1>0, <2>1 DEF CallType
  <2>4. \A j \in Inst : /\ Taken(j)' <=> Taken(j) \/ j = i
                        /\ Parked(j)' <=> Parked(j)
    BY <1>0, <2>2, Whereabouts
  <2>5. \A d \in Callers, j \in Inst : Calls(d, j)' <=> Calls(d, j)
    BY <1>0, <2>1, <2>3 DEF Calls
  <2>6. DeliveryOf(i)'
    BY <1>0, <1>1, <1>2, <2>1, <2>3, <2>4, <2>5 DEF DeliveryOf, Answers
  <2>7. \A j \in Inst \ {i}, d \in Callers : Calls(d, j) => cpc'[d] = cpc[d]
    BY <2>3 DEF Calls
  <2> QED
    BY <1>0, <1>2, <2>1, <2>4, <2>5, <2>6, <2>7, OnlyOne
<1>4. CASE SlowFail(c) \/ SlowReserve(c)
  <2>1. /\ in' = in /\ carg' = [carg EXCEPT ![c] = None] /\ cpc' = [cpc EXCEPT ![c] = "idle"]
        /\ \/ cpc[c] = "slow" /\ result' = [result EXCEPT ![i] = "ErrFull"]
           \/ cpc[c] = "slow" /\ result' = [result EXCEPT ![i] = "ErrClosed"]
           \/ cpc[c] = "reserve" /\ result' = [result EXCEPT ![i] = "nil"]
    BY <1>4 DEF SlowFail, SlowReserve, Returns
  <2>2. /\ cpc'[c] = "idle" /\ \A d \in Callers : d # c => cpc'[d] = cpc[d] /\ carg'[d] = carg[d]
        /\ \A j \in Inst \ {i} : result'[j] = result[j]
        /\ \/ cpc[c] = "slow" /\ result'[i] \in {"ErrFull", "ErrClosed"}
           \/ cpc[c] = "reserve" /\ result'[i] = "nil"
    BY <1>0, <2>1 DEF CallType, ResultType
  <2>3. \A j \in Inst : (Taken(j)' <=> Taken(j)) /\ (Parked(j)' <=> Parked(j))
    BY <1>0, <2>1, Whereabouts
  <2>4. \A j \in Inst \ {i}, d \in Callers :
           (Calls(d, j)' <=> Calls(d, j)) /\ (Calls(d, j) => cpc'[d] = cpc[d])
    BY <1>0, <2>2 DEF Calls
  <2>5. \A d \in Callers : ~Calls(d, i)'
    BY <1>1, <2>2 DEF Calls
  <2>6. DeliveryOf(i)'
    BY <1>0, <1>1, <1>2, <2>2, <2>3, <2>5 DEF DeliveryOf, Answers
  <2> QED
    BY <1>0, <1>2, <2>2, <2>3, <2>4, <2>6, OnlyOne
<1> QED
  BY <1>3, <1>4 DEF CallerStep

(* ReplayWrite takes up a new task and sends it, or gives it back.         *)
LEMMA ReplayDelivers ==
  ASSUME TypeOK, Delivery, NEW p \in Replayers,
         ReplaySent(p) \/ \E i \in Inst : ReplayWrite(p, i)
  PROVE  Delivery'
<1> USE DEF closeVars, callVars, workVars, chanVars, TimesOut
<1>0. ChanType /\ ReplayType /\ ResultType /\ CallType
  BY DEF TypeOK
<1>1. ASSUME NEW i \in Inst, ReplayWrite(p, i) PROVE Delivery'
  <2>1. /\ rpc[p] = "work" /\ result[i] = "new" /\ path' = [path EXCEPT ![i] = "replayed"]
        /\ UNCHANGED <<in, buffer, flush, cpc, carg, ran, wpc, cur>> /\ closed' = closed
        /\ \/ /\ result' = [result EXCEPT ![i] = "ErrClosed"]
              /\ rpc' = [rpc EXCEPT ![p] = "end"] /\ rarg' = rarg
           \/ /\ result' = [result EXCEPT ![i] = "calling"]
              /\ rpc' = [rpc EXCEPT ![p] = "replaySend"] /\ rarg' = [rarg EXCEPT ![p] = i]
    BY <1>1 DEF ReplayWrite, Returns
  <2>2. /\ path'[i] = "replayed"
        /\ \A j \in Inst \ {i} : result'[j] = result[j] /\ path'[j] = path[j]
        /\ \A q \in Replayers \ {p} : rpc'[q] = rpc[q] /\ rarg'[q] = rarg[q]
        /\ \/ result'[i] = "ErrClosed" /\ rpc'[p] = "end"
           \/ result'[i] = "calling" /\ rpc'[p] = "replaySend" /\ rarg'[p] = i
    BY <1>0, <2>1 DEF ReplayType, ResultType, CallType
  <2>3. /\ ~Taken(i) /\ ~Parked(i)
        /\ \A d \in Callers : ~Calls(d, i)
        /\ \A q \in Replayers : ~Replays(q, i)
    <3>1. DeliveryOf(i)
      BY DEF Delivery
    <3> QED
      BY <2>1, <3>1, Whereabouts DEF DeliveryOf
  <2>4. \A q \in Replayers, j \in Inst : rpc'[q] = "flushSend" /\ rarg'[q] = j
                                       <=> rpc[q] = "flushSend" /\ rarg[q] = j
    BY <2>1, <2>2
  <2>5. \A j \in Inst : Parked(j)' <=> Parked(j)
    BY <2>1, <2>4, Whereabouts
  <2>6. \A j \in Inst : Taken(j)' <=> Taken(j)
    BY <2>1, <2>5, Whereabouts
  <2>7. \A d \in Callers, j \in Inst : (Calls(d, j)' <=> Calls(d, j)) /\ cpc'[d] = cpc[d]
    BY <2>1 DEF Calls
  <2>8. \A q \in Replayers, j \in Inst \ {i} : Replays(q, j)' <=> Replays(q, j)
    BY <2>1, <2>2 DEF Replays
  <2>9. \A q \in Replayers : Replays(q, i)' => q = p /\ result'[i] = "calling"
    BY <2>1, <2>2, <2>3 DEF Replays
  <2>10. DeliveryOf(i)'
    BY <2>2, <2>3, <2>5, <2>6, <2>7, <2>9 DEF DeliveryOf, Answers
  <2> QED
    BY <2>1, <2>2, <2>5, <2>6, <2>7, <2>8, <2>10, OnlyOne
<1>2. CASE ReplaySent(p)
  <2> PICK i \in Inst : i = rarg[p]
    BY <1>0, <1>2 DEF ReplaySent, ReplayType, InSend
  <2>1. /\ rpc[p] = "replaySend" /\ rarg' = [rarg EXCEPT ![p] = None] /\ i # None
        /\ UNCHANGED <<buffer, flush, cpc, carg, path, ran, wpc, cur>> /\ closed' = closed
        /\ \/ /\ result' = [result EXCEPT ![i] = "nil"] /\ in' = Append(in, i)
              /\ rpc' = [rpc EXCEPT ![p] = "work"]
           \/ /\ result' = [result EXCEPT ![i] = "ErrFull"] /\ in' = in
              /\ rpc' = [rpc EXCEPT ![p] = "end"]
    BY <1>2, NoneAssumption DEF ReplaySent, Returns, Send
  <2>2. /\ \A j \in Inst \ {i} : result'[j] = result[j]
        /\ \A q \in Replayers \ {p} : rpc'[q] = rpc[q] /\ rarg'[q] = rarg[q]
        /\ rpc'[p] \in {"work", "end"}
        /\ \/ result'[i] = "nil" /\ in' = Append(in, i)
           \/ result'[i] = "ErrFull" /\ in' = in
    BY <1>0, <2>1 DEF ReplayType, ResultType
  <2>3. /\ ~Taken(i) /\ ~Parked(i) /\ path[i] = "replayed" /\ result[i] = "calling"
        /\ \A d \in Callers : ~Calls(d, i)
        /\ \A q \in Replayers : Replays(q, i) => q = p
    <3>1. DeliveryOf(i) /\ Replays(p, i)
      BY <2>1 DEF Delivery, Replays
    <3> QED
      BY <3>1, Whereabouts DEF DeliveryOf
  <2>4. \A q \in Replayers, j \in Inst : rpc'[q] = "flushSend" /\ rarg'[q] = j
                                       <=> rpc[q] = "flushSend" /\ rarg[q] = j
    BY <2>1, <2>2
  <2>5. \A j \in Inst : Parked(j)' <=> Parked(j)
    BY <2>1, <2>4, Whereabouts
  <2>6. Range(Append(in, i)) = Range(in) \cup {i}
    <3>1. in \in Seq(Inst)
      BY <1>0 DEF ChanType
    <3> QED
      BY <3>1, RangeAppend
  <2>7. /\ \A j \in Inst \ {i} : Taken(j)' <=> Taken(j)
        /\ result'[i] = "nil" => Taken(i)'
        /\ result'[i] = "ErrFull" => ~Taken(i)'
    BY <2>1, <2>2, <2>3, <2>5, <2>6, Whereabouts
  <2>8. \A d \in Callers, j \in Inst : (Calls(d, j)' <=> Calls(d, j)) /\ cpc'[d] = cpc[d]
    BY <2>1 DEF Calls
  <2>9. \A q \in Replayers, j \in Inst \ {i} : Replays(q, j)' <=> Replays(q, j)
    BY <2>1, <2>2 DEF Replays
  <2>10. \A q \in Replayers : ~Replays(q, i)'
    BY <2>2, <2>3 DEF Replays
  <2>11. DeliveryOf(i)'
    BY <2>1, <2>2, <2>3, <2>5, <2>7, <2>8, <2>10 DEF DeliveryOf, Answers
  <2> QED
    BY <2>1, <2>2, <2>5, <2>7, <2>8, <2>9, <2>11, OnlyOne
<1> QED
  BY <1>1, <1>2

-----------------------------------------------------------------------------
(* In every state the program reaches, every instance is accounted for.    *)
LEMMA AlwaysDelivers == Spec => []Delivery
<1>1. TypeOK /\ Delivery /\ [Next]_vars => Delivery'
  BY MovesSettle, EnqueueDelivers, SlowDelivers, ReplayDelivers DEF Next, ReplayerStep
<1> QED
  BY InitDelivery, <1>1, TypeCorrect, PTL DEF Spec

(* An instance whose call answered anything but nil never reaches a        *)
(* handler, however the refusal raced a send, a window or the shutdown     *)
(* (runner.go:57-106, 182-206).                                            *)
THEOREM RefusedInstancesNeverRun == Spec => []RefusedNeverRuns
<1>1. Delivery => RefusedNeverRuns
  BY DEF Delivery, DeliveryOf, RefusedNeverRuns, Taken
<1> QED
  BY <1>1, AlwaysDelivers, PTL

(* While the slot is open, an instance accepted outside a replay window is *)
(* in the channel, in the worker's hands or was given to the handler.      *)
THEOREM AcceptedInstancesKept == Spec => []NoSilentDrop
<1>1. Delivery => NoSilentDrop
  BY DEF Delivery, DeliveryOf, NoSilentDrop, Taken
<1> QED
  BY <1>1, AlwaysDelivers, PTL

-----------------------------------------------------------------------------
(* Dedupe keys.                                                            *)

(* All instances of key k were sent at once, or not at all.                *)
Direct(k) == \A j \in Inst : KeyOf[j] = k => path[j] = "direct"

(* In the channel or in the worker's hands, with its key not yet released. *)
Held(i) == i \in Range(in) \/ (wpc \in {"check", "handler", "finish"} /\ cur = i)

(* The sequence has i once at most.                                        *)
Single(s, i) == \A m, n \in 1 .. Len(s) : s[m] = i /\ s[n] = i => m = n

(* What an instance's way in says about where it can be: replayers hold    *)
(* only what they sent or flushed, and what was sent directly is in the    *)
(* channel once at most, and never at the same time with the worker.       *)
Ways ==
    /\ \A i \in Inst : result[i] = "new" => path[i] = "direct"
    /\ \A p \in Replayers, i \in Inst : rarg[p] = i => path[i] \in {"parked", "replayed"}
    /\ wpc \in {"handler", "finish"} => cur \in Range(ran)
    /\ \A i \in Inst : path[i] = "direct" /\ i \in Range(in) =>
          /\ Single(in, i)
          /\ ~(wpc \in {"check", "handler", "finish"} /\ cur = i)

(* Of a key whose instances were all sent at once, what is held holds the  *)
(* reservation, and nothing else with that key is held.                    *)
Keyed ==
    /\ \A i \in Inst : Direct(KeyOf[i]) /\ Held(i) => KeyOf[i] \in inflight
    /\ \A i, j \in Inst : Direct(KeyOf[i]) /\ KeyOf[i] = KeyOf[j] /\ Held(i) /\ Held(j) => i = j

(* A sequence with one more element.                                       *)
LEMMA SingleAppend ==
  ASSUME NEW S, NEW s \in Seq(S), NEW e \in S, NEW i, Single(s, i),
         e # i \/ i \notin Range(s)
  PROVE  Single(Append(s, e), i)
<1> DEFINE a == Append(s, e)
<1>1. Len(a) = Len(s) + 1 /\ a[Len(s) + 1] = e /\ Len(s) \in Nat
  OBVIOUS
<1>2. \A k \in 1 .. Len(s) : a[k] = s[k]
  OBVIOUS
<1>3. i \notin Range(s) => \A k \in 1 .. Len(s) : s[k] # i
  BY DEF Range
<1> HIDE DEF a
<1>4. Single(a, i)
  BY <1>1, <1>2, <1>3 DEF Single
<1> QED
  BY <1>4 DEF a

(* A sequence without its head.                                            *)
LEMMA SingleTail ==
  ASSUME NEW S, NEW s \in Seq(S), s # <<>>, NEW i, Single(s, i)
  PROVE  Single(Tail(s), i) /\ (i = Head(s) => i \notin Range(Tail(s)))
<1> DEFINE t == Tail(s)
<1>1. t \in Seq(S) /\ Len(t) = Len(s) - 1 /\ Len(s) \in Nat \ {0} /\ Head(s) = s[1]
  OBVIOUS
<1>2. \A k \in 1 .. Len(t) : t[k] = s[k + 1]
  OBVIOUS
<1> HIDE DEF t
<1>3. \A k \in 1 .. Len(t) : k + 1 \in 1 .. Len(s) /\ 1 \in 1 .. Len(s) /\ k + 1 # 1
  BY <1>1
<1>4. Single(t, i)
  BY <1>1, <1>2, <1>3 DEF Single
<1>5. \A k \in 1 .. Len(t) : i = s[1] => t[k] # i
  BY <1>2, <1>3 DEF Single
<1>6. i = Head(s) => i \notin Range(t)
  BY <1>1, <1>5 DEF Range
<1> QED
  BY <1>4, <1>6 DEF t

(* A new runner holds no key.                                              *)
LEMMA InitKeyed == Init => Ways /\ Keyed
<1> SUFFICES ASSUME Init PROVE Ways /\ Keyed
  OBVIOUS
<1>1. \A i : ~Held(i)
  BY RangeEmpty DEF Init, Held
<1> QED
  BY <1>1, RangeEmpty, NoneAssumption DEF Init, Ways, Keyed

(* What keeps the keys: nothing sent directly becomes held without a key   *)
(* reserved for it, and a key is given up only when nothing needs it.      *)
LEMMA KeyedKept ==
  ASSUME TypeOK, Keyed,
         \A j \in Inst : path'[j] = "direct" => path[j] = "direct",
         \A j \in Inst : path'[j] = "direct" /\ Held(j)' => Held(j),
         \A j \in Inst :
            path'[j] = "direct" /\ Held(j)' /\ Direct(KeyOf[j]) /\ KeyOf[j] \in inflight =>
                KeyOf[j] \in inflight'
  PROVE  Keyed'
<1>1. \A i \in Inst : KeyOf[i] \in Key /\ (Direct(KeyOf[i])' => Direct(KeyOf[i]) /\ path'[i] = "direct")
  BY KeyAssumption DEF Direct
<1>2. \A i \in Inst : Direct(KeyOf[i])' /\ Held(i)' => KeyOf[i] \in inflight'
  BY <1>1 DEF Keyed
<1>3. \A i, j \in Inst : Direct(KeyOf[i])' /\ KeyOf[i] = KeyOf[j] => Direct(KeyOf[i]) /\ path'[j] = "direct"
  BY <1>1 DEF Direct
<1>4. \A i, j \in Inst : Direct(KeyOf[i])' /\ KeyOf[i] = KeyOf[j] /\ Held(i)' /\ Held(j)' => i = j
  BY <1>1, <1>3 DEF Keyed
<1> QED
  BY <1>2, <1>4 DEF Keyed

(* A step that touches neither the channel nor the worker.                 *)
LEMMA KeysUntouched ==
  ASSUME TypeOK, Ways, Keyed,
         UNCHANGED <<in, wpc, cur>>, inflight \subseteq inflight', Range(ran) \subseteq Range(ran'),
         \A j \in Inst : path'[j] = "direct" => path[j] = "direct",
         \A j \in Inst : result'[j] = "new" => result[j] = "new" /\ path'[j] = path[j],
         \A p \in Replayers, j \in Inst : rarg'[p] = j => path'[j] \in {"parked", "replayed"}
  PROVE  Ways' /\ Keyed'
<1>1. \A j \in Inst : Held(j)' <=> Held(j)
  BY DEF Held
<1>2. Keyed'
  BY <1>1, KeyedKept
<1>3. Ways'
  BY DEF Ways, Single
<1> QED
  BY <1>2, <1>3

(* Nothing new is held by the slot.                                        *)
LEMMA NewNotHeld ==
  ASSUME Delivery, Ways, NEW i \in Inst, result[i] = "new"
  PROVE  ~Held(i) /\ path[i] = "direct" /\ ~Parked(i) /\ \A p \in Replayers : rarg[p] # i
<1>1. DeliveryOf(i)
  BY DEF Delivery
<1>2. ~Taken(i) /\ path[i] = "direct"
  BY <1>1 DEF DeliveryOf, Ways
<1> QED
  BY <1>2, Whereabouts DEF Held, Ways

(* Enqueue and its slow path.                                              *)
LEMMA CallersKeep ==
  ASSUME TypeOK, Delivery, Ways, Keyed, NEW c \in Callers,
         CallerStep(c) \/ \E i \in Inst : Enqueue(c, i)
  PROVE  Ways' /\ Keyed'
<1> USE DEF closeVars, replayVars, workVars, chanVars, AfterSend
<1>0. ChanType /\ CallType /\ ResultType
  BY DEF TypeOK
<1>1. ASSUME NEW i \in Inst, Enqueue(c, i) PROVE Ways' /\ Keyed'
  <2>1. /\ ~Held(i) /\ path[i] = "direct" /\ ~Parked(i) /\ \A p \in Replayers : rarg[p] # i
    BY <1>1, NewNotHeld DEF Enqueue
  <2>2. /\ UNCHANGED <<rarg, wpc, cur, ran>>
        /\ \A j \in Inst \ {i} : path'[j] = path[j]
    BY <1>0, <1>1 DEF Enqueue, CallType
  <2>3. \A j \in Inst \ {i} : result'[j] = result[j]
    BY <1>0, <1>1 DEF Enqueue, EnqueueRefused, EnqueueBuffered, EnqueueFast, EnqueueSlow, Returns, ResultType
  <2>4. result'[i] # "new"
    BY <1>0, <1>1 DEF Enqueue, EnqueueRefused, EnqueueBuffered, EnqueueFast, EnqueueSlow, Returns, ResultType
  <2>5. \A p \in Replayers, j \in Inst : rarg'[p] = j => path'[j] \in {"parked", "replayed"}
    BY <2>1, <2>2 DEF Ways
  <2>6. CASE EnqueueRefused(c, i) \/ EnqueueBuffered(c, i) \/ EnqueueSlow(c, i)
    <3>1. UNCHANGED <<in, inflight>>
      BY <2>6 DEF EnqueueRefused, EnqueueBuffered, EnqueueSlow
    <3> QED
      BY <2>1, <2>2, <2>3, <2>4, <2>5, <3>1, KeysUntouched
  <2>7. CASE EnqueueFast(c, i)
    <3>1. in' = Append(in, i) /\ inflight' = inflight \cup {KeyOf[i]} /\ KeyOf[i] \notin inflight
      BY <2>7 DEF EnqueueFast, Send, Reserved
    <3>2. in \in Seq(Inst) /\ Range(in') = Range(in) \cup {i}
      <4>1. in \in Seq(Inst)
        BY <1>0 DEF ChanType
      <4>2. Range(Append(in, i)) = Range(in) \cup {i}
        BY <4>1, RangeAppend
      <4> QED
        BY <3>1, <4>1, <4>2
    <3>3. \A j \in Inst : Held(j)' <=> Held(j) \/ j = i
      BY <2>2, <3>2 DEF Held
    <3>4. \A j \in Inst : path[j] = "direct" /\ j \in Range(in') => Single(in', j)
      <4> SUFFICES ASSUME NEW j \in Inst, path[j] = "direct", j \in Range(in')
                   PROVE  Single(in', j)
        OBVIOUS
      <4>1. CASE j = i
        <5>1. i \notin Range(in)
          BY <2>1 DEF Held
        <5>2. Single(in, i)
          BY <5>1 DEF Single, Range
        <5> QED
          BY <3>1, <3>2, <4>1, <5>1, <5>2, SingleAppend
      <4>2. CASE j # i
        <5>1. Single(in, j)
          BY <3>2, <4>2 DEF Ways
        <5> QED
          BY <3>1, <3>2, <4>2, <5>1, SingleAppend
      <4> QED
        BY <4>1, <4>2
    <3>5. \A j \in Inst : path'[j] = "direct" => path[j] = "direct"
      BY <2>1, <2>2
    <3>6. Ways'
      BY <2>1, <2>2, <2>3, <2>4, <2>5, <3>2, <3>4, <3>5 DEF Ways, Held
    <3>7. \A j \in Inst : Direct(KeyOf[j])' => Direct(KeyOf[j])
      BY <3>5, KeyAssumption DEF Direct
    <3>8. \A j \in Inst : Direct(KeyOf[j]) /\ KeyOf[j] = KeyOf[i] => ~Held(j)
      BY <3>1 DEF Keyed
    <3>9. \A j, k \in Inst : Direct(KeyOf[j]) /\ KeyOf[j] = KeyOf[k] => Direct(KeyOf[k])
      OBVIOUS
    <3>10. Keyed'
      BY <3>1, <3>3, <3>7, <3>8, <3>9 DEF Keyed
    <3> QED
      BY <3>6, <3>10
  <2> QED
    BY <1>1, <2>6, <2>7 DEF Enqueue
<1>2. CASE SlowFail(c) \/ SlowReserve(c)
  <2>1. UNCHANGED <<in, wpc, cur, ran, path, rarg>> /\ inflight \subseteq inflight'
    BY <1>2 DEF SlowFail, SlowReserve, Reserved
  <2>2. \A j \in Inst : result'[j] = "new" => result[j] = "new"
    BY <1>0, <1>2 DEF SlowFail, SlowReserve, Returns, ResultType, SlowAnswer
  <2> QED
    BY <2>1, <2>2, KeysUntouched DEF Ways
<1>3. CASE SlowSend(c)
  <2> PICK i \in Inst : i = carg[c]
    BY <1>0, <1>3 DEF SlowSend, CallType
  <2>1. in' = Append(in, i) /\ UNCHANGED <<wpc, cur, ran, path, rarg, result, inflight>>
    BY <1>3 DEF SlowSend, Send
  <2>2. path[i] = "slow"
    <3>1. Calls(c, i) /\ DeliveryOf(i)
      BY <1>3 DEF SlowSend, Calls, Delivery
    <3> QED
      BY <3>1 DEF DeliveryOf
  <2>3. in \in Seq(Inst) /\ Range(in') = Range(in) \cup {i}
    <3>1. in \in Seq(Inst)
      BY <1>0 DEF ChanType
    <3>2. Range(Append(in, i)) = Range(in) \cup {i}
      BY <3>1, RangeAppend
    <3> QED
      BY <2>1, <3>1, <3>2
  <2>4. \A j \in Inst : path[j] = "direct" /\ j \in Range(in') =>
                         j \in Range(in) /\ Single(in', j)
    <3> SUFFICES ASSUME NEW j \in Inst, path[j] = "direct", j \in Range(in')
                 PROVE  j \in Range(in) /\ Single(in', j)
      OBVIOUS
    <3>1. j # i /\ j \in Range(in)
      BY <2>2, <2>3
    <3>2. Single(in, j)
      BY <3>1 DEF Ways
    <3> QED
      BY <2>1, <2>3, <3>1, <3>2, SingleAppend
  <2>5. Ways'
    BY <2>1, <2>4 DEF Ways
  <2>6. \A j \in Inst : path'[j] = "direct" /\ Held(j)' => Held(j)
    BY <2>1, <2>4 DEF Held
  <2>7. Keyed'
    BY <2>1, <2>6, KeyedKept
  <2> QED
    BY <2>5, <2>7
<1> QED
  BY <1>1, <1>2, <1>3 DEF CallerStep

(* A replayer that ends its send: the task enters the channel or gives its *)
(* key back, which no instance sent directly shares.                       *)
LEMMA SendKeeps ==
  ASSUME TypeOK, Ways, Keyed, NEW i \in Inst, path[i] \in {"parked", "replayed"},
         UNCHANGED <<wpc, cur, ran, path>>,
         \A j \in Inst : result'[j] = "new" => result[j] = "new",
         \A p \in Replayers, j \in Inst : rarg'[p] = j => rarg[p] = j,
         \/ in' = Append(in, i) /\ inflight' = inflight
         \/ in' = in /\ inflight' = Released(i)
  PROVE  Ways' /\ Keyed'
<1>1. in \in Seq(Inst) /\ Range(Append(in, i)) = Range(in) \cup {i}
  <2>1. in \in Seq(Inst)
    BY DEF TypeOK, ChanType
  <2> QED
    BY <2>1, RangeAppend
<1>2. \A j \in Inst : path[j] = "direct" /\ j \in Range(in') => j \in Range(in) /\ Single(in', j)
  <2> SUFFICES ASSUME NEW j \in Inst, path[j] = "direct", j \in Range(in')
               PROVE  j \in Range(in) /\ Single(in', j)
    OBVIOUS
  <2>1. j # i /\ j \in Range(in)
    <3>1. j # i /\ Range(in') \subseteq Range(in) \cup {i}
      BY <1>1
    <3> QED
      BY <3>1
  <2>2. Single(in, j)
    BY <2>1 DEF Ways
  <2>3. Single(Append(in, i), j)
    BY <1>1, <2>1, <2>2, SingleAppend
  <2> QED
    BY <2>1, <2>2, <2>3
<1>3. Ways'
  BY <1>2 DEF Ways
<1>4. \A j \in Inst : path[j] = "direct" /\ Held(j)' => Held(j)
  BY <1>2 DEF Held
<1>5. \A j \in Inst : Direct(KeyOf[j]) => KeyOf[i] # KeyOf[j]
  BY DEF Direct
<1>6. \A j \in Inst : Direct(KeyOf[j]) /\ KeyOf[j] \in inflight => KeyOf[j] \in inflight'
  BY <1>5 DEF Released
<1>7. Keyed'
  BY <1>4, <1>6, KeyedKept
<1> QED
  BY <1>3, <1>7

(* The replayers.                                                          *)
LEMMA ReplayersKeep ==
  ASSUME TypeOK, Delivery, Ways, Keyed, NEW p \in Replayers,
         BeginReplay(p) \/ ReplayerStep(p) \/ \E i \in Inst : ReplayWrite(p, i)
  PROVE  Ways' /\ Keyed'
<1> USE DEF closeVars, callVars, workVars, TimesOut
<1>0. ChanType /\ ReplayType /\ ResultType /\ CallType
  BY DEF TypeOK
<1>1. CASE BeginReplay(p) \/ EndReplay(p)
  <2>1. UNCHANGED <<in, wpc, cur, ran, path, rarg, result, inflight>>
    BY <1>1 DEF BeginReplay, EndReplay
  <2> QED
    BY <2>1, KeysUntouched DEF Ways
<1>2. ASSUME NEW i \in Inst, ReplayWrite(p, i) PROVE Ways' /\ Keyed'
  <2>1. path[i] = "direct" /\ \A q \in Replayers : rarg[q] # i
    BY <1>2, NewNotHeld DEF ReplayWrite
  <2>2. /\ UNCHANGED <<in, wpc, cur, ran>> /\ inflight \subseteq inflight'
        /\ path' = [path EXCEPT ![i] = "replayed"]
        /\ rarg' = rarg \/ rarg' = [rarg EXCEPT ![p] = i]
        /\ \/ result' = [result EXCEPT ![i] = "ErrClosed"]
           \/ result' = [result EXCEPT ![i] = "calling"]
    BY <1>2 DEF ReplayWrite, Returns, Reserved
  <2>3. /\ path'[i] = "replayed" /\ result'[i] # "new"
        /\ \A j \in Inst \ {i} : path'[j] = path[j] /\ result'[j] = result[j]
        /\ \A q \in Replayers : rarg'[q] = rarg[q] \/ rarg'[q] = i
    BY <1>0, <2>2 DEF ReplayType, ResultType, CallType
  <2>4. \A q \in Replayers, j \in Inst : rarg'[q] = j => path'[j] \in {"parked", "replayed"}
    BY <2>1, <2>3 DEF Ways
  <2> QED
    BY <2>1, <2>2, <2>3, <2>4, KeysUntouched
<1>3. CASE FlushNext(p)
  <2>1. /\ UNCHANGED <<in, wpc, cur, ran, path, result>>
        /\ \/ inflight' = inflight /\ rarg' = rarg
           \/ /\ flush[p] # <<>>
              /\ inflight' = Reserved(Head(flush[p])) /\ rarg' = [rarg EXCEPT ![p] = Head(flush[p])]
    BY <1>3 DEF FlushNext
  <2>2. flush[p] # <<>> => Head(flush[p]) \in Inst /\ path[Head(flush[p])] = "parked"
    <3> SUFFICES ASSUME flush[p] # <<>>, NEW i, i = Head(flush[p])
                 PROVE  i \in Inst /\ path[i] = "parked"
      OBVIOUS
    <3>1. i \in Inst /\ i \in Range(flush[p])
      BY <1>0, RangeTail DEF ReplayType
    <3>2. Parked(i) /\ DeliveryOf(i)
      BY <3>1, Whereabouts DEF Delivery
    <3> QED
      BY <3>1, <3>2 DEF DeliveryOf
  <2>3. \A q \in Replayers, j \in Inst : rarg'[q] = j => path'[j] \in {"parked", "replayed"}
    <3>1. \A q \in Replayers : rarg'[q] = rarg[q] \/ (flush[p] # <<>> /\ rarg'[q] = Head(flush[p]))
      BY <1>0, <2>1 DEF ReplayType
    <3> QED
      BY <2>1, <2>2, <3>1 DEF Ways
  <2>4. inflight \subseteq inflight'
    BY <2>1 DEF Reserved
  <2> QED
    BY <2>1, <2>3, <2>4, KeysUntouched
<1>4. CASE ReplaySent(p) \/ FlushSent(p)
  <2> PICK i \in Inst : i = rarg[p]
    BY <1>0, <1>4 DEF ReplaySent, FlushSent, ReplayType, InSend
  <2>1. /\ UNCHANGED <<wpc, cur, ran, path>> /\ rarg' = [rarg EXCEPT ![p] = None]
        /\ result' = result \/ \E r \in {"nil", "ErrFull"} : result' = [result EXCEPT ![i] = r]
        /\ \/ in' = Append(in, i) /\ inflight' = inflight
           \/ in' = in /\ inflight' = Released(i)
    BY <1>4 DEF ReplaySent, FlushSent, Send, Returns
  <2>2. path[i] \in {"parked", "replayed"}
    BY DEF Ways
  <2>3. \A j \in Inst : result'[j] = "new" => result[j] = "new"
    BY <1>0, <2>1 DEF ResultType
  <2>4. \A q \in Replayers, j \in Inst : rarg'[q] = j => rarg[q] = j
    BY <1>0, <2>1, NoneAssumption DEF ReplayType
  <2> QED
    BY <2>1, <2>2, <2>3, <2>4, SendKeeps
<1> QED
  BY <1>1, <1>2, <1>3, <1>4 DEF ReplayerStep

(* The worker and the closers: the worker gives a key back after the       *)
(* handler returned, when it is held no more.                              *)
LEMMA WorkerKeeps ==
  ASSUME TypeOK, Delivery, Ways, Keyed,
         WorkerStep \/ UNCHANGED vars \/ \E s \in Closers : Shutdown(s) \/ CloserStep(s)
  PROVE  Ways' /\ Keyed'
<1> USE DEF chanVars, closeVars, callVars, replayVars, workVars, vars, Stops
<1>0. ChanType /\ WorkType
  BY DEF TypeOK
<1>1. ASSUME UNCHANGED <<in, wpc, cur, ran, path, rarg, result, inflight>> PROVE Ways' /\ Keyed'
  BY <1>1, KeysUntouched DEF Ways
<1>2. CASE Receive
  <2>1. /\ in # <<>> /\ cur' = Head(in) /\ in' = Tail(in) /\ wpc = "select" /\ wpc' = "check"
        /\ UNCHANGED <<inflight, ran, path, rarg, result>>
    BY <1>2 DEF Receive
  <2>2. in \in Seq(Inst) /\ Range(in) = {cur'} \cup Range(in')
    BY <1>0, <2>1, RangeTail DEF ChanType
  <2>3. \A j \in Inst : path[j] = "direct" /\ j \in Range(in') => Single(in', j) /\ j # cur'
    <3> SUFFICES ASSUME NEW j \in Inst, path[j] = "direct", j \in Range(in')
                 PROVE  Single(in', j) /\ j # cur'
      OBVIOUS
    <3>1. Single(in, j)
      BY <2>2 DEF Ways
    <3> QED
      BY <2>1, <2>2, <3>1, SingleTail
  <2>4. Ways'
    BY <2>1, <2>3 DEF Ways
  <2>5. \A j \in Inst : Held(j)' <=> Held(j)
    BY <2>1, <2>2 DEF Held
  <2>6. Keyed'
    BY <2>1, <2>5, KeyedKept
  <2> QED
    BY <2>4, <2>6
<1>3. CASE CheckClosed \/ HandlerReturns \/ ExitOnStop \/ WgDone
  <2>1. /\ UNCHANGED <<in, inflight, path, rarg, result>>
        /\ \/ wpc' \in {"exited", "select"} /\ ran' = ran
           \/ wpc = "check" /\ wpc' = "handler" /\ cur' = cur /\ ran' = Append(ran, cur)
           \/ wpc = "handler" /\ wpc' = "finish" /\ cur' = cur /\ ran' = ran
    BY <1>3 DEF CheckClosed, HandlerReturns, ExitOnStop, WgDone
  <2>2. wpc = "check" => Range(Append(ran, cur)) = Range(ran) \cup {cur}
    <3>1. wpc = "check" => cur \in Inst /\ ran \in Seq(Inst)
      BY <1>0 DEF WorkType, Holding
    <3> QED
      BY <3>1, RangeAppend
  <2>3. \A j \in Inst : Held(j)' => Held(j)
    BY <2>1 DEF Held
  <2>4. Ways'
    BY <2>1, <2>2 DEF Ways
  <2>5. Keyed'
    BY <2>1, <2>3, KeyedKept
  <2> QED
    BY <2>4, <2>5
<1>4. CASE ReleaseKey
  <2>1. /\ wpc = "finish" /\ wpc' = "wgDone" /\ inflight' = Released(cur) /\ cur' = cur
        /\ UNCHANGED <<in, ran, path, rarg, result>> /\ cur \in Inst /\ Held(cur)
    BY <1>0, <1>4 DEF ReleaseKey, WorkType, Holding, Held
  <2>2. Ways'
    BY <2>1 DEF Ways
  <2>3. \A j \in Inst : Held(j)' => Held(j) /\ j \in Range(in)
    BY <2>1 DEF Held
  <2>4. ASSUME NEW j \in Inst, path[j] = "direct", Held(j)', Direct(KeyOf[j]), KeyOf[j] \in inflight
        PROVE  KeyOf[j] \in inflight'
    <3>1. j # cur
      BY <2>1, <2>3, <2>4 DEF Ways
    <3>2. KeyOf[j] # KeyOf[cur]
      BY <2>1, <2>3, <2>4, <3>1 DEF Keyed
    <3> QED
      BY <2>1, <2>4, <3>2 DEF Released
  <2>5. Keyed'
    BY <2>1, <2>3, <2>4, KeyedKept
  <2> QED
    BY <2>2, <2>5
<1>5. ASSUME NEW s \in Closers, Shutdown(s) \/ CloserStep(s) PROVE Ways' /\ Keyed'
  BY <1>1, <1>5 DEF Shutdown, CloserStep, WaitReturns, CloseDone
<1>6. CASE UNCHANGED vars
  BY <1>1, <1>6
<1> QED
  BY <1>2, <1>3, <1>4, <1>5, <1>6 DEF WorkerStep

(* Every step keeps what is held and its keys.                             *)
LEMMA KeyedStep ==
  TypeOK /\ Delivery /\ Ways /\ Keyed /\ [Next]_vars => Ways' /\ Keyed'
BY CallersKeep, ReplayersKeep, WorkerKeeps DEF Next

(* The dedupe promise, for any number of callers, keys and instances: two  *)
(* instances of one key are never queued or executing together while all   *)
(* of that key are sent at once, whatever goes on with the other keys      *)
(* (runner.go:63-78, 211-217).                                             *)
THEOREM OneInstancePerKey == Spec => []OnePerKey
<1>1. Ways /\ Keyed => OnePerKey
  <2> SUFFICES ASSUME Ways, Keyed, NEW i \in Inst, NEW j \in Inst,
                      KeyOf[i] = KeyOf[j], InFlight(i), InFlight(j), Direct(KeyOf[i])
               PROVE  i = j
    BY DEF OnePerKey, Direct
  <2>1. path[i] = "direct" /\ path[j] = "direct"
    BY DEF Direct
  <2>2. Held(i) /\ Held(j)
    BY <2>1 DEF InFlight, Sending, Held, Ways
  <2> QED
    BY <2>2 DEF Keyed
<1> QED
  BY <1>1, KeyedStep, InitKeyed, TypeCorrect, AlwaysDelivers, PTL DEF Spec
=============================================================================
