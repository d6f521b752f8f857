------------------------------ MODULE SlotProofs ------------------------------
(***************************************************************************)
(* The proof that Runner implements ExecutorSlot: queue, dedupe table,     *)
(* replay buffer, worker and shutdown together take an instance through    *)
(* its life as the abstract slot allows, step by step or without a step;   *)
(* and that what a caller passed runs in the order of its calls.  Both     *)
(* rest on RunnerProofs, and on an instance being in one place only.       *)
(***************************************************************************)
EXTENDS RunnerProofs

(* The places an instance passes on its way, and whose they are.           *)
Spots == {"buffer", "flush", "send", "in", "hand", "ran"}
Owners == Replayers \cup {None}

(* Instance i is in the buffer, in p's list or being flushed by p, in the  *)
(* channel, received by the worker, or was given to the handler.           *)
At(i, w, p) ==
    \/ w = "buffer" /\ p = None /\ i \in Range(buffer)
    \/ w = "flush" /\ p \in Replayers /\ i \in Range(flush[p])
    \/ w = "send" /\ p \in Replayers /\ rpc[p] = "flushSend" /\ rarg[p] = i
    \/ w = "in" /\ p = None /\ i \in Range(in)
    \/ w = "hand" /\ p = None /\ wpc = "check" /\ cur = i
    \/ w = "ran" /\ p = None /\ i \in Range(ran)

(* No place has it twice, and no two places have it.                       *)
Once(i) ==
    /\ Single(in, i) /\ Single(buffer, i) /\ \A p \in Replayers : Single(flush[p], i)
    /\ \A v, w \in Spots, p, q \in Owners : At(i, v, p) /\ At(i, w, q) => v = w /\ p = q

(* A replayer has a list only while it flushes it.                         *)
NoLeftovers == \A p \in Replayers : rpc[p] \notin {"flush", "flushSend"} => flush[p] = <<>>

(* A call that has not been answered is somewhere in the code.             *)
Asking == \A i \in Inst : result[i] = "calling" =>
             (\E c \in Callers : Calls(c, i)) \/ (\E p \in Replayers : Replays(p, i))

(* Together with the invariants of RunnerProofs, an inductive invariant.   *)
Located == (\A i \in Inst : Once(i)) /\ NoLeftovers /\ Asking

-----------------------------------------------------------------------------
(* The instance is taken exactly when it is somewhere.                     *)
LEMMA TakenSomewhere ==
  ASSUME NEW i
  PROVE  Taken(i) <=> \E w \in Spots, p \in Owners : At(i, w, p)
BY Whereabouts DEF At, Spots, Owners

(* An instance that goes to one place, from nowhere or leaving another.    *)
LEMMA Moved ==
  ASSUME NEW i \in Inst, Once(i), NEW w \in Spots, NEW p \in Owners,
         Single(in', i), Single(buffer', i), \A q \in Replayers : Single(flush'[q], i),
         \A v \in Spots, q \in Owners : At(i, v, q)' => At(i, v, q) \/ (v = w /\ q = p),
         \/ At(i, w, p)' => At(i, w, p)
         \/ \A v \in Spots, q \in Owners : ~At(i, v, q)
         \/ \E v \in Spots, q \in Owners : At(i, v, q) /\ ~At(i, v, q)'
  PROVE  Once(i)'
<1>1. \A v, x \in Spots, q, r \in Owners : At(i, v, q) /\ At(i, x, r) => v = x /\ q = r
  BY DEF Once
<1>2. \A v, x \in Spots, q, r \in Owners : At(i, v, q)' /\ At(i, x, r)' => v = x /\ q = r
  <2> SUFFICES ASSUME NEW v \in Spots, NEW x \in Spots, NEW q \in Owners, NEW r \in Owners,
                      At(i, v, q)', At(i, x, r)'
               PROVE  v = x /\ q = r
    OBVIOUS
  <2>1. CASE At(i, v, q) /\ At(i, x, r)
    BY <1>1, <2>1
  <2>2. CASE ~At(i, v, q) /\ ~At(i, x, r)
    BY <2>2
  <2>3. CASE At(i, v, q) /\ ~At(i, x, r)
    <3>1. x = w /\ r = p
      BY <2>3
    <3>2. PICK y \in Spots, s \in Owners : At(i, y, s) /\ ~At(i, y, s)'
      BY <2>3, <3>1
    <3> QED
      BY <1>1, <2>3, <3>2
  <2>4. CASE ~At(i, v, q) /\ At(i, x, r)
    <3>1. v = w /\ q = p
      BY <2>4
    <3>2. PICK y \in Spots, s \in Owners : At(i, y, s) /\ ~At(i, y, s)'
      BY <2>4, <3>1
    <3> QED
      BY <1>1, <2>4, <3>2
  <2> QED
    BY <2>1, <2>2, <2>3, <2>4
<1> QED
  BY <1>2 DEF Once

(* An instance that stays where it is, or is lost.                         *)
LEMMA Stayed ==
  ASSUME NEW i \in Inst, Once(i),
         Single(in', i), Single(buffer', i), \A q \in Replayers : Single(flush'[q], i),
         \A v \in Spots, q \in Owners : At(i, v, q)' => At(i, v, q)
  PROVE  Once(i)'
BY Moved DEF Spots, Owners

(* A new runner has no instance and no call.                               *)
LEMMA InitLocated == Init => Located
<1> SUFFICES ASSUME Init PROVE Located
  OBVIOUS
<1>1. \A i, w, p : ~At(i, w, p)
  BY RangeEmpty DEF Init, At
<1>2. \A i : Single(<<>>, i)
  BY DEF Single
<1> QED
  BY <1>1, <1>2 DEF Init, Located, Once, NoLeftovers, Asking

(* A step that moves nothing, though it may drop what the worker received. *)
LEMMA Still ==
  ASSUME Located, UNCHANGED <<in, buffer, flush, ran>>,
         wpc' = "check" => wpc = "check" /\ cur' = cur,
         \A p \in Replayers : rpc'[p] = "flushSend" => rpc[p] = "flushSend" /\ rarg'[p] = rarg[p]
  PROVE  \A i \in Inst : Once(i)'
<1> SUFFICES ASSUME NEW i \in Inst PROVE Once(i)'
  OBVIOUS
<1>1. \A v \in Spots, q \in Owners : At(i, v, q)' => At(i, v, q)
  BY DEF At
<1>2. Once(i) /\ Single(in', i) /\ Single(buffer', i) /\ \A q \in Replayers : Single(flush'[q], i)
  BY DEF Located, Once
<1> QED
  BY <1>1, <1>2, Stayed

(* A step that puts one instance into the channel.                         *)
LEMMA Queued ==
  ASSUME TypeOK, Located, NEW i \in Inst, in' = Append(in, i), UNCHANGED <<buffer, flush, ran>>,
         wpc' = wpc /\ cur' = cur, i \notin Range(in),
         \A p \in Replayers : rpc'[p] = "flushSend" => rpc[p] = "flushSend" /\ rarg'[p] = rarg[p],
         \/ ~Taken(i)
         \/ \E p \in Replayers : /\ rpc[p] = "flushSend" /\ rarg[p] = i
                                 /\ rpc'[p] # "flushSend"
  PROVE  /\ Range(in') = Range(in) \cup {i}
         /\ \A j \in Inst : Once(j)'
<1>1. in \in Seq(Inst)
  BY DEF TypeOK, ChanType
<1>2. Range(in') = Range(in) \cup {i}
  BY <1>1, RangeAppend
<1> SUFFICES ASSUME NEW j \in Inst PROVE Once(j)'
  BY <1>2
<1>3. Once(j)
  BY DEF Located
<1>4. Single(in', j)
  BY <1>1, <1>3, SingleAppend DEF Once
<1>5. Single(buffer', j) /\ \A q \in Replayers : Single(flush'[q], j)
  BY <1>3 DEF Once
<1>6. \A v \in Spots, q \in Owners :
         At(j, v, q)' => At(j, v, q) \/ (v = "in" /\ q = None /\ j = i)
  BY <1>2 DEF At
<1>7. CASE j # i
  BY <1>3, <1>4, <1>5, <1>6, <1>7, Stayed
<1>8. CASE j = i
  <2>1. \/ \A v \in Spots, q \in Owners : ~At(i, v, q)
        \/ \E v \in Spots, q \in Owners : At(i, v, q) /\ ~At(i, v, q)'
    <3>1. CASE ~Taken(i)
      BY <3>1, TakenSomewhere
    <3>2. ASSUME NEW p \in Replayers, rpc[p] = "flushSend", rarg[p] = i, rpc'[p] # "flushSend"
          PROVE  At(i, "send", p) /\ ~At(i, "send", p)'
      BY <3>2 DEF At
    <3> QED
      BY <3>1, <3>2 DEF Spots, Owners
  <2>2. "in" \in Spots /\ None \in Owners
    BY DEF Spots, Owners
  <2> QED
    BY <1>3, <1>4, <1>5, <1>6, <1>8, <2>1, <2>2, Moved
<1> QED
  BY <1>7, <1>8

-----------------------------------------------------------------------------
(* Stages.                                                                 *)

(* The slow path has sent i, and will reserve its key.                     *)
Reserving(i) == \E c \in Callers : cpc[c] = "reserve" /\ carg[c] = i

(* The handler runs i.                                                     *)
Running(i) == Executing /\ cur = i

(* One instance changes its stage.                                         *)
Moves(i, from, to) ==
    /\ StageOf(i) = from /\ StageOf(i)' = to
    /\ \A j \in Inst \ {i} : StageOf(j)' = StageOf(j)

(* The step is one of the abstract slot, or changes nothing there.         *)
Maps == Slot!SlotNext \/ UNCHANGED Slot!slotVars

(* The stage, from where the instance is and what its call returned.       *)
LEMMA StageIs ==
  ASSUME NEW i
  PROVE  /\ i \in Range(ran) => StageOf(i) = IF Running(i) THEN "running" ELSE "finished"
         /\ i \notin Range(ran) /\ Parked(i) => StageOf(i) = "parked"
         /\ i \notin Range(ran) /\ ~Parked(i) /\ Taken(i) => StageOf(i) = "pending"
         /\ ~Taken(i) =>
              StageOf(i) = IF result[i] = "nil" \/ Reserving(i) THEN "lost"
                           ELSE IF result[i] \in {"new", "calling"} THEN result[i] ELSE "refused"
         /\ i \in Range(ran') => StageOf(i)' = IF Running(i)' THEN "running" ELSE "finished"
         /\ i \notin Range(ran') /\ Parked(i)' => StageOf(i)' = "parked"
         /\ i \notin Range(ran') /\ ~Parked(i)' /\ Taken(i)' => StageOf(i)' = "pending"
         /\ ~Taken(i)' =>
              StageOf(i)' = IF result'[i] = "nil" \/ Reserving(i)' THEN "lost"
                            ELSE IF result'[i] \in {"new", "calling"} THEN result'[i] ELSE "refused"
BY DEF StageOf, Taken, Waiting, Running, Reserving

(* What a stage depends on.                                                *)
LEMMA StageKept ==
  ASSUME NEW i, result'[i] = result[i], Reserving(i)' <=> Reserving(i),
         Running(i)' <=> Running(i), i \in Range(ran') <=> i \in Range(ran),
         Parked(i)' <=> Parked(i), Taken(i)' <=> Taken(i)
  PROVE  StageOf(i)' = StageOf(i)
<1>1. CASE i \in Range(ran)
  BY <1>1, StageIs
<1>2. CASE i \notin Range(ran) /\ Parked(i)
  BY <1>2, StageIs
<1>3. CASE i \notin Range(ran) /\ ~Parked(i) /\ Taken(i)
  BY <1>3, StageIs
<1>4. CASE ~Taken(i)
  BY <1>4, StageIs
<1> QED
  BY <1>1, <1>2, <1>3, <1>4 DEF Taken, Waiting

(* A move between two stages is one of the abstract slot.                  *)
LEMMA StageMoves ==
  ASSUME NEW i \in Inst, NEW from, NEW to, Moves(i, from, to)
  PROVE  Slot!Move(i, from, to)
BY DEF Moves, Slot!Move

(* A step that changes no stage and does not shut the slot.                *)
LEMMA Stutters ==
  ASSUME \A i \in Inst : StageOf(i)' = StageOf(i), SlotState' = SlotState
  PROVE  Maps
BY DEF Maps, Slot!slotVars

(* An instance that nothing was called with yet.                           *)
LEMMA StageNew ==
  ASSUME Delivery, NEW i \in Inst, result[i] = "new"
  PROVE  StageOf(i) = "new" /\ ~Taken(i) /\ ~Reserving(i) /\ ~Parked(i)
<1>1. ~Taken(i) /\ ~Reserving(i)
  BY DEF Delivery, DeliveryOf, Reserving, Calls
<1> QED
  BY <1>1, StageIs, Whereabouts

(* The slot is open as long as Shutdown has not been called.               *)
LEMMA SlotIs ==
  ASSUME ShutdownOrder
  PROVE  /\ SlotState = "open" <=> ~closed
         /\ UNCHANGED <<done, closed>> => SlotState' = SlotState
BY DEF ShutdownOrder, SlotState

-----------------------------------------------------------------------------
(* Enqueue: the call is refused, parked, accepted, or waits for room.      *)
LEMMA EnqueueMaps ==
  ASSUME TypeOK, Delivery, Located, ShutdownOrder,
         NEW c \in Callers, NEW i \in Inst, Enqueue(c, i)
  PROVE  Located' /\ Maps
<1> USE DEF closeVars, replayVars, workVars, chanVars
<1>0. ChanType /\ CallType /\ ReplayType /\ WorkType /\ ResultType /\ CloseType
  BY DEF TypeOK
<1>1. result[i] = "new" /\ cpc[c] = "idle"
  BY DEF Enqueue
<1>2. StageOf(i) = "new" /\ ~Taken(i) /\ ~Reserving(i) /\ ~Parked(i)
  BY <1>1, StageNew
<1>3. \A d \in Callers : ~Calls(d, i)
  BY <1>1 DEF Delivery, DeliveryOf
<1>4. UNCHANGED <<rpc, rarg, flush, wpc, cur, ran, closed, done>>
  BY DEF Enqueue
<1>5. SlotState' = SlotState /\ (SlotState = "open" <=> ~closed)
  BY <1>4, SlotIs
<1>6. NoLeftovers'
  BY <1>4 DEF Located, NoLeftovers
<1>7. \A j \in Inst : Running(j)' <=> Running(j)
  BY <1>4 DEF Running, Executing
<1>8. i \notin Range(ran) /\ i \notin Range(in) /\ i \notin Range(buffer)
  BY <1>2, Whereabouts
<1>9. \A j \in Inst : Reserving(j)' <=> Reserving(j)
  <2>1. CASE UNCHANGED <<cpc, carg>>
    BY <2>1 DEF Reserving
  <2>2. CASE cpc' = [cpc EXCEPT ![c] = "slow"] /\ carg' = [carg EXCEPT ![c] = i]
    <3>1. \A d \in Callers : d # c => cpc'[d] = cpc[d] /\ carg'[d] = carg[d]
      BY <1>0, <2>2 DEF CallType
    <3>2. cpc'[c] = "slow" /\ cpc[c] = "idle"
      BY <1>0, <1>1, <2>2 DEF CallType
    <3> QED
      BY <3>1, <3>2 DEF Reserving
  <2> QED
    BY <2>1, <2>2 DEF Enqueue, EnqueueRefused, EnqueueBuffered, EnqueueFast, EnqueueSlow
<1>10. ASSUME NEW r, Returns(i, r) PROVE result'[i] = r /\ \A j \in Inst \ {i} : result'[j] = result[j]
  BY <1>0, <1>10 DEF Returns, ResultType
<1>11. ASSUME NEW r, Returns(i, r), r # "calling" \/ Calls(c, i)' PROVE Asking'
  <2>1. ASSUME NEW j \in Inst, j # i, result'[j] = "calling"
        PROVE  (\E d \in Callers : Calls(d, j)') \/ (\E p \in Replayers : Replays(p, j)')
    <3>1. result[j] = "calling"
      BY <1>10, <1>11, <2>1
    <3>2. \A d \in Callers : Calls(d, j) => Calls(d, j)'
      <4>1. CASE UNCHANGED <<cpc, carg>>
        BY <4>1 DEF Calls
      <4>2. CASE cpc' = [cpc EXCEPT ![c] = "slow"] /\ carg' = [carg EXCEPT ![c] = i]
        BY <1>0, <1>1, <4>2 DEF Calls, CallType
      <4> QED
        BY <4>1, <4>2 DEF Enqueue, EnqueueRefused, EnqueueBuffered, EnqueueFast, EnqueueSlow
    <3>3. \A p \in Replayers : Replays(p, j) => Replays(p, j)'
      BY <1>4 DEF Replays
    <3> QED
      BY <3>1, <3>2, <3>3 DEF Located, Asking
  <2>2. result'[i] = r
    BY <1>10, <1>11
  <2> QED
    BY <1>11, <2>1, <2>2 DEF Asking
<1>12. CASE EnqueueRefused(c, i)
  <2>1. PICK r \in {"ErrClosed", "ErrDuplicate"} : Returns(i, r)
    BY <1>12 DEF EnqueueRefused
  <2>2. UNCHANGED <<in, buffer>>
    BY <1>12 DEF EnqueueRefused
  <2>3. \A j \in Inst : (Taken(j)' <=> Taken(j)) /\ (Parked(j)' <=> Parked(j))
    BY <1>4, <2>2, Whereabouts
  <2>4. Located'
    BY <1>4, <1>6, <1>11, <2>1, <2>2, Still DEF Located
  <2>5. \A j \in Inst \ {i} : StageOf(j)' = StageOf(j)
    BY <1>4, <1>7, <1>9, <1>10, <2>1, <2>3, StageKept
  <2>6. StageOf(i)' = "refused"
    BY <1>2, <1>9, <1>10, <2>1, <2>3, StageIs
  <2>7. Slot!Move(i, "new", "refused")
    BY <1>2, <2>5, <2>6, StageMoves DEF Moves
  <2> QED
    BY <1>5, <2>4, <2>7 DEF Maps, Slot!SlotNext, Slot!CallRefused
<1>13. CASE EnqueueBuffered(c, i)
  <2>1. Returns(i, "nil") /\ ~closed /\ buffer' = Append(buffer, i) /\ in' = in
    BY <1>13 DEF EnqueueBuffered
  <2>2. buffer \in Seq(Inst)
    BY <1>0 DEF ChanType
  <2>3. Range(buffer') = Range(buffer) \cup {i}
    BY <2>1, <2>2, RangeAppend
  <2>4. /\ Parked(i)' /\ i \notin Range(ran')
        /\ \A j \in Inst \ {i} : (Taken(j)' <=> Taken(j)) /\ (Parked(j)' <=> Parked(j))
    BY <1>4, <1>8, <2>1, <2>3, Whereabouts
  <2>5. ASSUME NEW j \in Inst PROVE Once(j)'
    <3>1. Once(j)
      BY DEF Located
    <3>2. /\ Single(in', j) /\ \A q \in Replayers : Single(flush'[q], j)
          /\ Single(buffer', j)
      BY <1>4, <1>8, <2>1, <2>2, <3>1, SingleAppend DEF Once
    <3>3. \A v \in Spots, q \in Owners :
             At(j, v, q)' => At(j, v, q) \/ (v = "buffer" /\ q = None /\ j = i)
      BY <1>4, <2>1, <2>3 DEF At
    <3>4. \A v \in Spots, q \in Owners : ~At(i, v, q)
      BY <1>2, TakenSomewhere
    <3>5. "buffer" \in Spots /\ None \in Owners
      BY DEF Spots, Owners
    <3> QED
      BY <3>1, <3>2, <3>3, <3>4, <3>5, Moved, Stayed
  <2>6. Located'
    BY <1>6, <1>11, <2>1, <2>5 DEF Located
  <2>7. \A j \in Inst \ {i} : StageOf(j)' = StageOf(j)
    BY <1>4, <1>7, <1>9, <1>10, <2>1, <2>4, StageKept
  <2>8. StageOf(i)' = "parked"
    BY <2>4, StageIs
  <2>9. Slot!Move(i, "new", "parked")
    BY <1>2, <2>7, <2>8, StageMoves DEF Moves
  <2> QED
    BY <1>5, <2>1, <2>6, <2>9 DEF Maps, Slot!SlotNext, Slot!CallParked
<1>14. CASE EnqueueFast(c, i)
  <2>1. Returns(i, "nil") /\ ~closed /\ in' = Append(in, i) /\ buffer' = buffer
    BY <1>14 DEF EnqueueFast, Send
  <2>2. /\ Range(in') = Range(in) \cup {i}
        /\ \A j \in Inst : Once(j)'
    BY <1>2, <1>4, <1>8, <2>1, Queued
  <2>3. /\ ~Parked(i)' /\ Taken(i)' /\ i \notin Range(ran')
        /\ \A j \in Inst \ {i} : (Taken(j)' <=> Taken(j)) /\ (Parked(j)' <=> Parked(j))
    BY <1>2, <1>4, <1>8, <2>1, <2>2, Whereabouts
  <2>4. Located'
    BY <1>6, <1>11, <2>1, <2>2 DEF Located
  <2>5. \A j \in Inst \ {i} : StageOf(j)' = StageOf(j)
    BY <1>4, <1>7, <1>9, <1>10, <2>1, <2>3, StageKept
  <2>6. StageOf(i)' = "pending"
    BY <2>3, StageIs
  <2>7. Slot!Move(i, "new", "pending")
    BY <1>2, <2>5, <2>6, StageMoves DEF Moves
  <2> QED
    BY <1>5, <2>1, <2>4, <2>7 DEF Maps, Slot!SlotNext, Slot!CallAccepted
<1>15. CASE EnqueueSlow(c, i)
  <2>1. /\ Returns(i, "calling") /\ ~closed /\ UNCHANGED <<in, buffer>>
        /\ cpc' = [cpc EXCEPT ![c] = "slow"] /\ carg' = [carg EXCEPT ![c] = i]
    BY <1>15 DEF EnqueueSlow
  <2>2. \A j \in Inst : (Taken(j)' <=> Taken(j)) /\ (Parked(j)' <=> Parked(j))
    BY <1>4, <2>1, Whereabouts
  <2>3. Calls(c, i)'
    BY <1>0, <2>1 DEF Calls, CallType
  <2>4. Located'
    BY <1>4, <1>6, <1>11, <2>1, <2>3, Still DEF Located
  <2>5. \A j \in Inst \ {i} : StageOf(j)' = StageOf(j)
    BY <1>4, <1>7, <1>9, <1>10, <2>1, <2>2, StageKept
  <2>6. StageOf(i)' = "calling"
    BY <1>2, <1>9, <1>10, <2>1, <2>2, StageIs
  <2>7. Slot!Move(i, "new", "calling")
    BY <1>2, <2>5, <2>6, StageMoves DEF Moves
  <2> QED
    BY <1>5, <2>1, <2>4, <2>7 DEF Maps, Slot!SlotNext, Slot!Call
<1> QED
  BY <1>12, <1>13, <1>14, <1>15 DEF Enqueue

(* The slow path: the waiting call is accepted or refused; the reservation *)
(* that follows the send changes nothing a client can see.                 *)
LEMMA SlowMaps ==
  ASSUME TypeOK, Delivery, Located, ShutdownOrder, NEW c \in Callers, CallerStep(c)
  PROVE  Located' /\ Maps
<1> USE DEF closeVars, replayVars, workVars, chanVars
<1>0. ChanType /\ CallType /\ ReplayType /\ WorkType /\ ResultType /\ CloseType
  BY DEF TypeOK
<1>101. carg[c] \in Inst /\ Calls(c, carg[c])
  BY <1>0 DEF CallerStep, SlowSend, SlowFail, SlowReserve, CallType, Calls
<1>1. PICK i \in Inst : i = carg[c] /\ Calls(c, i)
  BY <1>101
<1>2. /\ result[i] = "calling"
      /\ cpc[c] = "slow" => ~Taken(i)
      /\ \A d \in Callers : Calls(d, i) => d = c
      /\ \A p \in Replayers : ~Replays(p, i)
  BY <1>1 DEF Delivery, DeliveryOf
<1>3. UNCHANGED <<buffer, rpc, rarg, flush, wpc, cur, ran, closed, done>>
  BY DEF CallerStep, SlowSend, SlowFail, SlowReserve
<1>4. SlotState' = SlotState
  BY <1>3, SlotIs
<1>5. NoLeftovers'
  BY <1>3 DEF Located, NoLeftovers
<1>6. \A j \in Inst : Running(j)' <=> Running(j)
  BY <1>3 DEF Running, Executing
<1>7. cpc[c] = "slow" => StageOf(i) = "calling"
  <2>1. cpc[c] = "slow" => ~Reserving(i)
    BY <1>2 DEF Reserving, Calls
  <2> QED
    BY <1>2, <2>1, StageIs
<1>8. /\ \A d \in Callers : d # c => cpc'[d] = cpc[d] /\ carg'[d] = carg[d]
      /\ cpc'[c] = "idle" \/ carg'[c] = i
  BY <1>0, <1>1 DEF CallerStep, SlowSend, SlowFail, SlowReserve, CallType
<1>9. \A j \in Inst \ {i} : Reserving(j)' <=> Reserving(j)
  <2>1. cpc'[c] # "reserve" \/ carg'[c] = i
    BY <1>8
  <2> QED
    BY <1>1, <1>8, <2>1 DEF Reserving
<1>10. \A j \in Inst \ {i} : result'[j] = result[j]
  BY <1>0, <1>1 DEF CallerStep, SlowSend, SlowFail, SlowReserve, Returns, ResultType
<1>11. ASSUME result'[i] # "calling" \/ Calls(c, i)' PROVE Asking'
  <2> SUFFICES ASSUME NEW j \in Inst \ {i}, result[j] = "calling"
               PROVE  (\E d \in Callers : Calls(d, j)') \/ (\E p \in Replayers : Replays(p, j)')
    BY <1>10, <1>11 DEF Asking
  <2>1. (\E d \in Callers : Calls(d, j)) \/ (\E p \in Replayers : Replays(p, j))
    BY DEF Located, Asking
  <2>2. ASSUME NEW d \in Callers, Calls(d, j) PROVE Calls(d, j)'
    BY <1>1, <1>8, <2>2 DEF Calls
  <2>3. ASSUME NEW p \in Replayers, Replays(p, j) PROVE Replays(p, j)'
    BY <1>3, <2>3 DEF Replays
  <2> QED
    BY <2>1, <2>2, <2>3
<1>12. CASE SlowSend(c)
  <2>1. /\ cpc[c] = "slow" /\ cpc' = [cpc EXCEPT ![c] = "reserve"] /\ carg' = carg
        /\ in' = Append(in, i) /\ result' = result
    BY <1>1, <1>12 DEF SlowSend, Send, AfterSend
  <2>2. ~Parked(i) /\ i \notin Range(in) /\ i \notin Range(ran)
    BY <1>2, <2>1, Whereabouts
  <2>3. /\ Range(in') = Range(in) \cup {i}
        /\ \A j \in Inst : Once(j)'
    BY <1>1, <1>2, <1>3, <2>1, <2>2, Queued
  <2>4. /\ ~Parked(i)' /\ Taken(i)' /\ i \notin Range(ran')
        /\ \A j \in Inst \ {i} : (Taken(j)' <=> Taken(j)) /\ (Parked(j)' <=> Parked(j))
    BY <1>3, <2>2, <2>3, Whereabouts
  <2>5. Calls(c, i)'
    BY <1>0, <1>1, <2>1 DEF Calls, CallType
  <2>6. Located'
    BY <1>5, <1>11, <2>3, <2>5 DEF Located
  <2>7. \A j \in Inst \ {i} : StageOf(j)' = StageOf(j)
    BY <1>3, <1>6, <1>9, <1>10, <2>4, StageKept
  <2>8. StageOf(i)' = "pending"
    BY <2>4, StageIs
  <2>9. Slot!Move(i, "calling", "pending")
    BY <1>1, <1>7, <2>1, <2>7, <2>8, StageMoves DEF Moves
  <2> QED
    BY <1>1, <1>4, <2>6, <2>9 DEF Maps, Slot!SlotNext, Slot!Accept
<1>13. CASE SlowFail(c)
  <2>1. PICK r \in {"ErrFull", "ErrClosed"} : Returns(i, r)
    BY <1>1, <1>13 DEF SlowFail
  <2>2. /\ cpc[c] = "slow" /\ in' = in /\ cpc' = [cpc EXCEPT ![c] = "idle"]
        /\ result'[i] = r
    BY <1>0, <1>1, <1>13, <2>1 DEF SlowFail, Returns, ResultType
  <2>3. \A j \in Inst : (Taken(j)' <=> Taken(j)) /\ (Parked(j)' <=> Parked(j))
    BY <1>3, <2>2, Whereabouts
  <2>4. Located'
    BY <1>3, <1>5, <1>11, <2>2, Still DEF Located
  <2>5. \A j \in Inst \ {i} : StageOf(j)' = StageOf(j)
    BY <1>3, <1>6, <1>9, <1>10, <2>3, StageKept
  <2>6. cpc'[c] = "idle"
    BY <1>0, <2>2 DEF CallType
  <2>7. ~Reserving(i)'
    BY <1>2, <1>8, <2>6 DEF Reserving, Calls
  <2>8. StageOf(i)' = "refused"
    BY <1>2, <2>2, <2>3, <1>1, <2>7, StageIs
  <2>9. Slot!Move(i, "calling", "refused")
    BY <1>1, <1>7, <2>2, <2>5, <2>8, StageMoves DEF Moves
  <2> QED
    BY <1>1, <1>4, <2>4, <2>9 DEF Maps, Slot!SlotNext, Slot!Refuse
<1>14. CASE SlowReserve(c)
  <2>1. cpc[c] = "reserve" /\ in' = in /\ result'[i] = "nil"
    BY <1>0, <1>1, <1>14 DEF SlowReserve, Returns, ResultType, SlowAnswer
  <2>2. \A j \in Inst : (Taken(j)' <=> Taken(j)) /\ (Parked(j)' <=> Parked(j))
    BY <1>3, <2>1, Whereabouts
  <2>3. Located'
    BY <1>3, <1>5, <1>11, <2>1, Still DEF Located
  <2>4. \A j \in Inst \ {i} : StageOf(j)' = StageOf(j)
    BY <1>3, <1>6, <1>9, <1>10, <2>2, StageKept
  <2>5. Reserving(i)
    BY <1>1, <2>1 DEF Reserving
  <2>6. StageOf(i)' = StageOf(i)
    <3>1. CASE Taken(i)
      <4>1. i \in Range(ran) \/ Parked(i) \/ (i \notin Range(ran) /\ ~Parked(i))
        OBVIOUS
      <4> QED
        BY <1>1, <1>3, <1>6, <2>2, <3>1, <4>1, StageIs
    <3>2. CASE ~Taken(i)
      BY <1>1, <2>1, <2>2, <2>5, <3>2, StageIs
    <3> QED
      BY <3>1, <3>2
  <2> QED
    BY <1>4, <2>3, <2>4, <2>6, Stutters
<1> QED
  BY <1>12, <1>13, <1>14 DEF CallerStep

-----------------------------------------------------------------------------
(* A replayer's steps leave the calls of the other goroutines alone.       *)
LEMMA OthersAsk ==
  ASSUME Located, NEW i \in Inst, UNCHANGED <<cpc, carg>>,
         \A j \in Inst \ {i} : result'[j] = result[j],
         \A j \in Inst \ {i}, q \in Replayers : Replays(q, j) => Replays(q, j)',
         result'[i] # "calling" \/ \E q \in Replayers : Replays(q, i)'
  PROVE  Asking'
<1>1. \A c \in Callers, j \in Inst : Calls(c, j)' <=> Calls(c, j)
  BY DEF Calls
<1> QED
  BY <1>1 DEF Located, Asking

(* BeginReplay finds the buffer empty and EndReplay empties it into a list *)
(* that was empty: no instance changes its stage.                          *)
LEMMA WindowMaps ==
  ASSUME TypeOK, Located, ShutdownOrder, OneWindow, NEW p \in Replayers,
         BeginReplay(p) \/ EndReplay(p)
  PROVE  Located' /\ Maps
<1> USE DEF closeVars, callVars, workVars, chanVars
<1>0. ChanType /\ ReplayType
  BY DEF TypeOK
<1>1. UNCHANGED <<in, result, rarg, wpc, cur, ran, cpc, carg, closed, done>> /\ buffer' = <<>>
  BY DEF BeginReplay, EndReplay
<1>2. /\ \A q \in Replayers : q # p => rpc'[q] = rpc[q] /\ flush'[q] = flush[q]
      /\ rpc[p] \notin {"replaySend", "flushSend"} /\ rpc'[p] \notin {"replaySend", "flushSend"}
  BY <1>0 DEF BeginReplay, EndReplay, ReplayType
<1> DEFINE Kept == /\ \A j \in Inst : Once(j)'
                   /\ \A j \in Inst : (Taken(j)' <=> Taken(j)) /\ (Parked(j)' <=> Parked(j))
                   /\ NoLeftovers'
<1>3. ASSUME BeginReplay(p) PROVE Kept
  <2>1. buffer = <<>> /\ flush' = flush /\ rpc[p] = "idle"
    BY <1>0, <1>3 DEF BeginReplay, MayReplay, OneWindow
  <2>2. \A j \in Inst : Once(j)'
    BY <1>1, <1>2, <2>1, Still
  <2>3. \A j \in Inst : (Taken(j)' <=> Taken(j)) /\ (Parked(j)' <=> Parked(j))
    BY <1>1, <1>2, <2>1, Whereabouts
  <2>4. NoLeftovers'
    BY <1>2, <2>1 DEF Located, NoLeftovers
  <2> QED
    BY <2>2, <2>3, <2>4
<1>4. ASSUME EndReplay(p) PROVE Kept
  <2>1. flush[p] = <<>> /\ flush'[p] = buffer /\ rpc'[p] = "flush"
    BY <1>0, <1>4 DEF EndReplay, ReplayType, Located, NoLeftovers
  <2>2. ASSUME NEW j \in Inst PROVE Once(j)'
    <3>1. Once(j)
      BY DEF Located
    <3>2. Single(in', j) /\ Single(buffer', j) /\ \A q \in Replayers : Single(flush'[q], j)
      <4>1. Single(buffer', j)
        BY <1>1 DEF Single
      <4> QED
        BY <1>1, <1>2, <2>1, <3>1, <4>1 DEF Once
    <3>3. \A v \in Spots, q \in Owners : At(j, v, q)' => At(j, v, q) \/ (v = "flush" /\ q = p)
      BY <1>1, <1>2, <2>1, RangeEmpty DEF At
    <3>4. At(j, "flush", p)' => At(j, "buffer", None) /\ ~At(j, "buffer", None)'
      BY <1>1, <2>1, RangeEmpty DEF At
    <3>5. "flush" \in Spots /\ "buffer" \in Spots /\ None \in Owners /\ p \in Owners
      BY DEF Spots, Owners
    <3> QED
      BY <3>1, <3>2, <3>3, <3>4, <3>5, Moved, Stayed
  <2>3. \A j \in Inst : (Taken(j)' <=> Taken(j)) /\ (Parked(j)' <=> Parked(j))
    <3>1. \A j \in Inst : Parked(j)' <=> Parked(j)
      BY <1>1, <1>2, <2>1, RangeEmpty, Whereabouts
    <3> QED
      BY <1>1, <3>1, Whereabouts
  <2>4. NoLeftovers'
    BY <1>2, <2>1 DEF Located, NoLeftovers
  <2> QED
    BY <2>2, <2>3, <2>4
<1>5. Kept
  BY <1>3, <1>4
<1>6. Asking'
  <2>1. \A q \in Replayers, j \in Inst : Replays(q, j)' <=> Replays(q, j)
    BY <1>1, <1>2 DEF Replays
  <2>2. \A c \in Callers, j \in Inst : Calls(c, j)' <=> Calls(c, j)
    BY <1>1 DEF Calls
  <2> QED
    BY <1>1, <2>1, <2>2 DEF Located, Asking
<1>7. \A j \in Inst : (Running(j)' <=> Running(j)) /\ (Reserving(j)' <=> Reserving(j))
  BY <1>1 DEF Running, Executing, Reserving
<1>8. \A j \in Inst : StageOf(j)' = StageOf(j)
  BY <1>1, <1>5, <1>7, StageKept
<1> QED
  BY <1>1, <1>5, <1>6, <1>8, SlotIs, Stutters DEF Located

(* ReplayWrite calls, and its send accepts or refuses.                     *)
LEMMA ReplayMaps ==
  ASSUME TypeOK, Delivery, Located, ShutdownOrder, NEW p \in Replayers,
         ReplaySent(p) \/ \E k \in Inst : ReplayWrite(p, k)
  PROVE  Located' /\ Maps
<1> USE DEF closeVars, callVars, workVars, chanVars
<1>0. ChanType /\ ReplayType /\ ResultType
  BY DEF TypeOK
<1>1. UNCHANGED <<buffer, flush, wpc, cur, ran, cpc, carg, closed, done>>
  BY DEF ReplaySent, ReplayWrite
<1>2. SlotState' = SlotState /\ (SlotState = "open" <=> ~closed)
  BY <1>1, SlotIs
<1>3. \A j \in Inst : (Running(j)' <=> Running(j)) /\ (Reserving(j)' <=> Reserving(j))
  BY <1>1 DEF Running, Executing, Reserving
<1>4. /\ \A q \in Replayers : q # p => rpc'[q] = rpc[q] /\ rarg'[q] = rarg[q]
      /\ rpc[p] \in {"work", "replaySend"} /\ rpc'[p] \in {"work", "end", "replaySend"}
  BY <1>0 DEF ReplaySent, ReplayWrite, ReplayType
<1>5. NoLeftovers'
  BY <1>1, <1>4 DEF Located, NoLeftovers
<1>6. \A j \in Inst : Parked(j)' <=> Parked(j)
  BY <1>1, <1>4, Whereabouts
<1>7. ASSUME NEW i \in Inst, ReplayWrite(p, i) PROVE Located' /\ Maps
  <2>1. result[i] = "new" /\ rpc[p] = "work" /\ in' = in
    BY <1>7 DEF ReplayWrite
  <2>2. StageOf(i) = "new" /\ ~Taken(i) /\ ~Reserving(i)
    BY <2>1, StageNew
  <2>3. \A j \in Inst : Taken(j)' <=> Taken(j)
    BY <1>1, <1>6, <2>1, Whereabouts
  <2>4. \A j \in Inst : Once(j)'
    BY <1>1, <1>4, <2>1, Still
  <2>5. \/ closed /\ result'[i] = "ErrClosed"
        \/ ~closed /\ result'[i] = "calling" /\ Replays(p, i)'
    BY <1>0, <1>7 DEF ReplayWrite, Returns, ResultType, ReplayType, Replays
  <2>6. \A j \in Inst \ {i} : result'[j] = result[j]
    BY <1>0, <1>7 DEF ReplayWrite, Returns, ResultType
  <2>7. \A j \in Inst, q \in Replayers : Replays(q, j) => Replays(q, j)'
    BY <1>4, <2>1 DEF Replays
  <2>8. Located'
    BY <1>1, <1>5, <2>4, <2>5, <2>6, <2>7, OthersAsk DEF Located
  <2>9. \A j \in Inst \ {i} : StageOf(j)' = StageOf(j)
    BY <1>1, <1>3, <1>6, <2>3, <2>6, StageKept
  <2>10. CASE closed
    <3>1. StageOf(i)' = "refused"
      BY <1>3, <2>2, <2>3, <2>5, <2>10, StageIs
    <3>2. Slot!Move(i, "new", "refused")
      BY <2>2, <2>9, <3>1, StageMoves DEF Moves
    <3> QED
      BY <1>2, <2>8, <3>2 DEF Maps, Slot!SlotNext, Slot!CallRefused
  <2>11. CASE ~closed
    <3>1. StageOf(i)' = "calling"
      BY <1>3, <2>2, <2>3, <2>5, <2>11, StageIs
    <3>2. Slot!Move(i, "new", "calling")
      BY <2>2, <2>9, <3>1, StageMoves DEF Moves
    <3> QED
      BY <1>2, <2>8, <2>11, <3>2 DEF Maps, Slot!SlotNext, Slot!Call
  <2> QED
    BY <2>10, <2>11
<1>8. ASSUME ReplaySent(p) PROVE Located' /\ Maps
  <2>1. rpc[p] = "replaySend" /\ rpc'[p] # "replaySend"
    BY <1>0, <1>8 DEF ReplaySent, ReplayType
  <2>20. rarg[p] \in Inst
    BY <1>0, <2>1 DEF ReplayType, InSend
  <2>2. PICK i \in Inst : i = rarg[p]
    BY <2>20
  <2>3. Replays(p, i)
    BY <2>1, <2>2 DEF Replays
  <2>4. /\ result[i] = "calling" /\ ~Taken(i) /\ ~Reserving(i)
        /\ \A q \in Replayers : Replays(q, i) => p = q
    <3>1. DeliveryOf(i)
      BY DEF Delivery
    <3>2. \A c \in Callers : ~Calls(c, i)
      BY <2>3, <3>1 DEF DeliveryOf
    <3> QED
      BY <2>3, <3>1, <3>2 DEF DeliveryOf, Reserving, Calls
  <2>5. StageOf(i) = "calling"
    BY <2>4, StageIs
  <2>6. \A j \in Inst \ {i} : result'[j] = result[j]
    BY <1>0, <1>8, <2>2 DEF ReplaySent, Returns, ResultType
  <2>7. \A j \in Inst \ {i}, q \in Replayers : Replays(q, j) => Replays(q, j)'
    BY <1>4, <2>2 DEF Replays
  <2>8. i \notin Range(ran) /\ i \notin Range(in) /\ ~Parked(i)
    BY <2>4, Whereabouts
  <2>9. CASE in' = Append(in, i) /\ result'[i] = "nil"
    <3>1. Range(in') = Range(in) \cup {i} /\ \A j \in Inst : Once(j)'
      BY <1>1, <1>4, <2>4, <2>8, <2>9, Queued
    <3>2. Located'
      BY <1>1, <1>5, <2>6, <2>7, <2>9, <3>1, OthersAsk DEF Located
    <3>3. /\ Taken(i)' /\ ~Parked(i)' /\ i \notin Range(ran')
          /\ \A j \in Inst \ {i} : Taken(j)' <=> Taken(j)
      BY <1>1, <1>6, <2>8, <3>1, Whereabouts
    <3>4. \A j \in Inst \ {i} : StageOf(j)' = StageOf(j)
      BY <1>1, <1>3, <1>6, <2>6, <3>3, StageKept
    <3>5. StageOf(i)' = "pending"
      BY <3>3, StageIs
    <3>6. Slot!Move(i, "calling", "pending")
      BY <2>5, <3>4, <3>5, StageMoves DEF Moves
    <3> QED
      BY <1>2, <3>2, <3>6 DEF Maps, Slot!SlotNext, Slot!Accept
  <2>10. CASE in' = in /\ result'[i] = "ErrFull"
    <3>1. \A j \in Inst : Once(j)'
      BY <1>1, <1>4, <2>10, Still
    <3>2. Located'
      BY <1>1, <1>5, <2>6, <2>7, <2>10, <3>1, OthersAsk DEF Located
    <3>3. \A j \in Inst : Taken(j)' <=> Taken(j)
      BY <1>1, <1>6, <2>10, Whereabouts
    <3>4. \A j \in Inst \ {i} : StageOf(j)' = StageOf(j)
      BY <1>1, <1>3, <1>6, <2>6, <3>3, StageKept
    <3>5. StageOf(i)' = "refused"
      BY <1>3, <2>4, <2>10, <3>3, StageIs
    <3>6. Slot!Move(i, "calling", "refused")
      BY <2>5, <3>4, <3>5, StageMoves DEF Moves
    <3> QED
      BY <1>2, <3>2, <3>6 DEF Maps, Slot!SlotNext, Slot!Refuse
  <2> QED
    BY <1>0, <1>8, <2>2, <2>9, <2>10 DEF ReplaySent, Send, Returns, ResultType
<1> QED
  BY <1>7, <1>8

(* The flush: what leaves the list is sent, or dropped with its error.     *)
LEMMA FlushMaps ==
  ASSUME TypeOK, Delivery, Located, ShutdownOrder, NEW p \in Replayers,
         FlushNext(p) \/ FlushSent(p)
  PROVE  Located' /\ Maps
<1> USE DEF closeVars, callVars, workVars, chanVars
<1>0. ChanType /\ ReplayType /\ ResultType
  BY DEF TypeOK
<1>1. UNCHANGED <<buffer, result, wpc, cur, ran, cpc, carg, closed, done>>
  BY DEF FlushNext, FlushSent
<1>2. SlotState' = SlotState
  BY <1>1, SlotIs
<1>3. \A j \in Inst : (Running(j)' <=> Running(j)) /\ (Reserving(j)' <=> Reserving(j))
  BY <1>1 DEF Running, Executing, Reserving
<1>4. /\ \A q \in Replayers : q # p => rpc'[q] = rpc[q] /\ rarg'[q] = rarg[q] /\ flush'[q] = flush[q]
      /\ rpc[p] \in {"flush", "flushSend"} /\ rpc'[p] \in {"idle", "flush", "flushSend"}
  BY <1>0 DEF FlushNext, FlushSent, ReplayType
<1>5. Asking'
  <2>1. \A c \in Callers, j \in Inst : Calls(c, j)' <=> Calls(c, j)
    BY <1>1 DEF Calls
  <2>2. \A q \in Replayers, j \in Inst : Replays(q, j)' <=> Replays(q, j)
    BY <1>4 DEF Replays
  <2> QED
    BY <1>1, <2>1, <2>2 DEF Located, Asking
<1>6. CASE FlushNext(p) /\ flush[p] = <<>>
  <2>1. rpc[p] = "flush" /\ rpc'[p] = "idle" /\ UNCHANGED <<in, flush>>
    BY <1>0, <1>6 DEF FlushNext, ReplayType
  <2>2. \A j \in Inst : Once(j)'
    BY <1>1, <1>4, <2>1, Still
  <2>3. NoLeftovers'
    BY <1>4, <1>6, <2>1 DEF Located, NoLeftovers
  <2>4. \A j \in Inst : (Taken(j)' <=> Taken(j)) /\ (Parked(j)' <=> Parked(j))
    BY <1>1, <1>4, <2>1, Whereabouts
  <2>5. \A j \in Inst : StageOf(j)' = StageOf(j)
    BY <1>1, <1>3, <2>4, StageKept
  <2> QED
    BY <1>2, <1>5, <2>2, <2>3, <2>5, Stutters DEF Located
<1>7. CASE FlushNext(p) /\ flush[p] # <<>>
  <2>1. /\ rpc[p] = "flush" /\ rpc'[p] = "flushSend" /\ rarg'[p] = Head(flush[p])
        /\ flush'[p] = Tail(flush[p]) /\ in' = in
    BY <1>0, <1>7 DEF FlushNext, ReplayType
  <2>2. flush[p] \in Seq(Inst)
    BY <1>0 DEF ReplayType
  <2>3. Range(flush[p]) = {Head(flush[p])} \cup Range(Tail(flush[p]))
    BY <1>7, <2>2, RangeTail
  <2>4. ASSUME NEW j \in Inst PROVE Once(j)'
    <3>1. Once(j)
      BY DEF Located
    <3>2. Single(flush'[p], j) /\ (j = Head(flush[p]) => j \notin Range(flush'[p]))
      BY <1>7, <2>1, <2>2, <3>1, SingleTail DEF Once
    <3>3. Single(in', j) /\ Single(buffer', j) /\ \A q \in Replayers : Single(flush'[q], j)
      BY <1>1, <1>4, <2>1, <3>1, <3>2 DEF Once
    <3>4. \A v \in Spots, q \in Owners : At(j, v, q)' => At(j, v, q) \/ (v = "send" /\ q = p)
      BY <1>1, <1>4, <2>1, <2>3 DEF At
    <3>5. At(j, "send", p)' => At(j, "flush", p) /\ ~At(j, "flush", p)'
      BY <2>1, <2>3, <3>2 DEF At
    <3>6. "flush" \in Spots /\ "send" \in Spots /\ p \in Owners
      BY DEF Spots, Owners
    <3> QED
      BY <3>1, <3>3, <3>4, <3>5, <3>6, Moved, Stayed
  <2>5. NoLeftovers'
    BY <1>4, <2>1 DEF Located, NoLeftovers
  <2>6. \A j \in Inst : Parked(j)' <=> Parked(j)
    BY <1>1, <1>4, <2>1, <2>3, Whereabouts
  <2>7. \A j \in Inst : Taken(j)' <=> Taken(j)
    BY <1>1, <2>1, <2>6, Whereabouts
  <2>8. \A j \in Inst : StageOf(j)' = StageOf(j)
    BY <1>1, <1>3, <2>6, <2>7, StageKept
  <2> QED
    BY <1>2, <1>5, <2>4, <2>5, <2>8, Stutters DEF Located
<1>8. CASE FlushSent(p)
  <2>1. rpc[p] = "flushSend" /\ rpc'[p] = "flush" /\ flush' = flush
    BY <1>0, <1>8 DEF FlushSent, ReplayType
  <2>20. rarg[p] \in Inst
    BY <1>0, <2>1 DEF ReplayType, InSend
  <2>2. PICK i \in Inst : i = rarg[p]
    BY <2>20
  <2>3. /\ At(i, "send", p) /\ Parked(i)
        /\ "send" \in Spots /\ p \in Owners
    BY <2>1, <2>2, Whereabouts DEF At, Spots, Owners
  <2>4. \A v \in Spots, q \in Owners : At(i, v, q) => v = "send" /\ q = p
    BY <2>3 DEF Located, Once
  <2>5. /\ i \notin Range(in) /\ i \notin Range(ran) /\ ~(wpc = "check" /\ cur = i)
        /\ i \notin Range(buffer)
        /\ \A q \in Replayers : i \notin Range(flush[q])
        /\ \A q \in Replayers : rpc[q] = "flushSend" /\ rarg[q] = i => q = p
    BY <2>4 DEF At, Spots, Owners
  <2>6. ~Parked(i)'
    BY <1>1, <1>4, <2>1, <2>5, Whereabouts
  <2>7. \A j \in Inst \ {i} : Parked(j)' <=> Parked(j)
    BY <1>1, <1>4, <2>1, <2>2, Whereabouts
  <2>8. StageOf(i) = "parked"
    BY <2>3, <2>5, StageIs
  <2>9. NoLeftovers'
    BY <1>4, <2>1 DEF Located, NoLeftovers
  <2>10. CASE in' = Append(in, i)
    <3>1. Range(in') = Range(in) \cup {i} /\ \A j \in Inst : Once(j)'
      BY <1>1, <1>4, <2>1, <2>2, <2>5, <2>10, Queued
    <3>2. /\ Taken(i)' /\ i \notin Range(ran')
          /\ \A j \in Inst \ {i} : Taken(j)' <=> Taken(j)
      BY <1>1, <2>5, <2>7, <3>1, Whereabouts
    <3>3. \A j \in Inst \ {i} : StageOf(j)' = StageOf(j)
      BY <1>1, <1>3, <2>7, <3>2, StageKept
    <3>4. StageOf(i)' = "pending"
      BY <2>6, <3>2, StageIs
    <3>5. Slot!Move(i, "parked", "pending")
      BY <2>8, <3>3, <3>4, StageMoves DEF Moves
    <3> QED
      BY <1>2, <1>5, <2>9, <3>1, <3>5 DEF Located, Maps, Slot!SlotNext, Slot!Unpark
  <2>11. CASE in' = in
    <3>1. \A j \in Inst : Once(j)'
      BY <1>1, <1>4, <2>1, <2>11, Still
    <3>2. /\ ~Taken(i)'
          /\ \A j \in Inst \ {i} : Taken(j)' <=> Taken(j)
      BY <1>1, <2>5, <2>6, <2>7, <2>11, Whereabouts
    <3>3. \A j \in Inst \ {i} : StageOf(j)' = StageOf(j)
      BY <1>1, <1>3, <2>7, <3>2, StageKept
    <3>4. result[i] = "nil"
      <4>1. DeliveryOf(i) /\ Taken(i)
        BY <2>3, Whereabouts DEF Delivery
      <4>2. (\A c \in Callers : ~Calls(c, i)) /\ (\A q \in Replayers : ~Replays(q, i))
        BY <2>3, <4>1 DEF DeliveryOf
      <4>3. result[i] # "calling"
        BY <4>2 DEF Located, Asking
      <4> QED
        BY <1>0, <4>1, <4>3 DEF DeliveryOf, ResultType, Answers
    <3>5. StageOf(i)' = "lost"
      BY <1>1, <3>2, <3>4, StageIs
    <3>6. Slot!Move(i, "parked", "lost")
      BY <2>8, <3>3, <3>5, StageMoves DEF Moves
    <3> QED
      BY <1>2, <1>5, <2>9, <3>1, <3>6 DEF Located, Maps, Slot!SlotNext, Slot!Drop
  <2> QED
    BY <1>8, <2>2, <2>10, <2>11 DEF FlushSent, Send
<1> QED
  BY <1>6, <1>7, <1>8

-----------------------------------------------------------------------------
(* A step that leaves calls and replayers alone.                           *)
LEMMA CallsAlone ==
  ASSUME Located, UNCHANGED <<result, cpc, carg, rpc, rarg, flush>>
  PROVE  /\ NoLeftovers' /\ Asking'
         /\ \A j \in Inst : Reserving(j)' <=> Reserving(j)
<1>1. \A c \in Callers, j \in Inst : Calls(c, j)' <=> Calls(c, j)
  BY DEF Calls
<1>2. \A q \in Replayers, j \in Inst : Replays(q, j)' <=> Replays(q, j)
  BY DEF Replays
<1>3. Asking'
  BY <1>1, <1>2 DEF Located, Asking
<1>4. NoLeftovers'
  BY DEF Located, NoLeftovers
<1>5. \A j \in Inst : Reserving(j)' <=> Reserving(j)
  BY DEF Reserving
<1> QED
  BY <1>3, <1>4, <1>5

(* A step that moves nothing and starts and ends no handler.               *)
LEMMA Idles ==
  ASSUME Located, UNCHANGED <<result, cpc, carg, rpc, rarg, flush, in, buffer, ran>>,
         SlotState' = SlotState,
         wpc' = "check" <=> wpc = "check", wpc' = "handler" <=> wpc = "handler",
         wpc \in {"check", "handler"} => cur' = cur
  PROVE  Located' /\ Maps
<1>1. \A j \in Inst : Once(j)'
  BY Still
<1>2. \A j \in Inst : (Taken(j)' <=> Taken(j)) /\ (Parked(j)' <=> Parked(j))
  BY Whereabouts
<1>3. \A j \in Inst : Running(j)' <=> Running(j)
  BY DEF Running, Executing
<1>4. \A j \in Inst : StageOf(j)' = StageOf(j)
  BY <1>2, <1>3, CallsAlone, StageKept
<1> QED
  BY <1>1, <1>4, CallsAlone, Stutters DEF Located

(* The worker starts a handler only while the slot is open, gives up what  *)
(* it received otherwise, and finishes before the slot is released.        *)
LEMMA WorkerMaps ==
  ASSUME TypeOK, Delivery, Ways, Located, WgCounts, ShutdownOrder, WorkerStep
  PROVE  Located' /\ Maps
<1> USE DEF closeVars, callVars, replayVars, chanVars
<1>0. ChanType /\ WorkType /\ ResultType
  BY DEF TypeOK
<1>1. UNCHANGED <<result, cpc, carg, rpc, rarg, flush, buffer, closed, done>>
  BY DEF WorkerStep, Receive, ExitOnStop, CheckClosed, HandlerReturns, ReleaseKey, WgDone
<1>2. SlotState' = SlotState /\ (SlotState = "open" <=> ~closed)
  BY <1>1, SlotIs
<1>3. CASE Receive
  <2>1. /\ wpc = "select" /\ wpc' = "check" /\ cur' = Head(in) /\ in' = Tail(in)
        /\ in # <<>> /\ in \in Seq(Inst) /\ ran' = ran
    BY <1>0, <1>3 DEF Receive, ChanType
  <2>2. Range(in) = {cur'} \cup Range(in')
    BY <2>1, RangeTail
  <2>3. ASSUME NEW j \in Inst PROVE Once(j)'
    <3>1. Once(j)
      BY DEF Located
    <3>2. Single(in', j) /\ (j = Head(in) => j \notin Range(in'))
      BY <2>1, <3>1, SingleTail DEF Once
    <3>3. Single(buffer', j) /\ \A q \in Replayers : Single(flush'[q], j)
      BY <1>1, <3>1 DEF Once
    <3>4. \A v \in Spots, q \in Owners : At(j, v, q)' => At(j, v, q) \/ (v = "hand" /\ q = None)
      BY <1>1, <2>1, <2>2 DEF At
    <3>5. At(j, "hand", None)' => At(j, "in", None) /\ ~At(j, "in", None)'
      BY <2>1, <2>2, <3>2 DEF At
    <3>6. "in" \in Spots /\ "hand" \in Spots /\ None \in Owners
      BY DEF Spots, Owners
    <3> QED
      BY <3>1, <3>2, <3>3, <3>4, <3>5, <3>6, Moved, Stayed
  <2>4. \A j \in Inst : (Taken(j)' <=> Taken(j)) /\ (Parked(j)' <=> Parked(j))
    BY <1>1, <2>1, <2>2, Whereabouts
  <2>5. \A j \in Inst : Running(j)' <=> Running(j)
    BY <2>1 DEF Running, Executing
  <2>6. \A j \in Inst : StageOf(j)' = StageOf(j)
    BY <1>1, <2>1, <2>4, <2>5, CallsAlone, StageKept
  <2> QED
    BY <1>1, <1>2, <2>3, <2>6, CallsAlone, Stutters DEF Located
<1>4. CASE ExitOnStop \/ ReleaseKey \/ WgDone
  <2>1. /\ UNCHANGED <<in, ran>>
        /\ wpc \notin {"check", "handler"} /\ wpc' \notin {"check", "handler"}
    BY <1>4 DEF ExitOnStop, ReleaseKey, WgDone
  <2> QED
    BY <1>1, <1>2, <2>1, Idles
<1>5. CASE CheckClosed
  <2>1. wpc = "check" /\ cur \in Inst /\ in' = in
    BY <1>0, <1>5 DEF CheckClosed, WorkType, Holding
  <2>2. PICK i \in Inst : i = cur
    BY <2>1
  <2>3. At(i, "hand", None) /\ Taken(i) /\ "hand" \in Spots /\ None \in Owners
    BY <2>1, <2>2, Whereabouts DEF At, Spots, Owners
  <2>4. \A v \in Spots, q \in Owners : At(i, v, q) => v = "hand" /\ q = None
    BY <2>3 DEF Located, Once
  <2>5. ~Parked(i) /\ i \notin Range(in) /\ i \notin Range(ran)
    <3>1. /\ i \notin Range(buffer)
          /\ \A q \in Replayers : i \notin Range(flush[q])
          /\ \A q \in Replayers : ~(rpc[q] = "flushSend" /\ rarg[q] = i)
      BY <2>4 DEF At, Spots, Owners
    <3>2. i \notin Range(in) /\ i \notin Range(ran)
      BY <2>4 DEF At, Spots, Owners
    <3> QED
      BY <3>1, <3>2, Whereabouts
  <2>6. StageOf(i) = "pending"
    BY <2>3, <2>5, StageIs
  <2>7. \A j \in Inst : Parked(j)' <=> Parked(j)
    BY <1>1, Whereabouts
  <2>8. \A j \in Inst : ~Running(j)
    BY <2>1 DEF Running, Executing
  <2>9. CASE closed
    <3>1. wpc' = "exited" /\ ran' = ran
      BY <1>5, <2>9 DEF CheckClosed, Stops
    <3>2. \A j \in Inst : Once(j)'
      BY <1>1, <2>1, <3>1, Still
    <3>3. /\ ~Taken(i)'
          /\ \A j \in Inst \ {i} : Taken(j)' <=> Taken(j)
      BY <1>1, <2>1, <2>2, <2>5, <2>7, <3>1, Whereabouts
    <3>4. \A j \in Inst : Running(j)' <=> Running(j)
      BY <2>8, <3>1 DEF Running, Executing
    <3>5. \A j \in Inst \ {i} : StageOf(j)' = StageOf(j)
      BY <1>1, <2>7, <3>1, <3>3, <3>4, CallsAlone, StageKept
    <3>6. result[i] = "nil" \/ Reserving(i)
      <4>1. DeliveryOf(i)
        BY DEF Delivery
      <4>2. result[i] = "nil" \/ result[i] = "calling"
        BY <1>0, <2>3, <4>1 DEF DeliveryOf, ResultType, Answers
      <4>3. \A q \in Replayers : ~Replays(q, i)
        BY <2>3, <4>1 DEF DeliveryOf
      <4>4. ASSUME NEW c \in Callers, Calls(c, i) PROVE Reserving(i)
        <5>1. cpc[c] = "reserve"
          BY <2>3, <4>1, <4>4 DEF DeliveryOf, Calls, TypeOK, CallType
        <5> QED
          BY <4>4, <5>1 DEF Calls, Reserving
      <4> QED
        BY <4>2, <4>3, <4>4 DEF Located, Asking
    <3>7. StageOf(i)' = "lost"
      BY <1>1, <3>3, <3>6, CallsAlone, StageIs
    <3>8. Slot!Move(i, "pending", "lost")
      BY <2>6, <3>5, <3>7, StageMoves DEF Moves
    <3> QED
      BY <1>1, <1>2, <2>9, <3>2, <3>8, CallsAlone DEF Located, Maps, Slot!SlotNext, Slot!GiveUp
  <2>10. CASE ~closed
    <3>1. wpc' = "handler" /\ ran' = Append(ran, i) /\ cur' = i
      BY <1>5, <2>2, <2>10 DEF CheckClosed, Stops
    <3>2. Range(ran') = Range(ran) \cup {i}
      BY <1>0, <3>1, RangeAppend DEF WorkType
    <3>3. ASSUME NEW j \in Inst PROVE Once(j)'
      <4>1. Once(j)
        BY DEF Located
      <4>2. Single(in', j) /\ Single(buffer', j) /\ \A q \in Replayers : Single(flush'[q], j)
        BY <1>1, <2>1, <4>1 DEF Once
      <4>3. \A v \in Spots, q \in Owners :
               At(j, v, q)' => At(j, v, q) \/ (v = "ran" /\ q = None /\ j = i)
        BY <1>1, <2>1, <3>1, <3>2 DEF At
      <4>4. ~At(i, "hand", None)'
        BY <3>1 DEF At
      <4>5. "ran" \in Spots
        BY DEF Spots
      <4> QED
        BY <2>3, <4>1, <4>2, <4>3, <4>4, <4>5, Moved, Stayed
    <3>4. /\ Taken(i)' /\ i \in Range(ran')
          /\ \A j \in Inst \ {i} : /\ Taken(j)' <=> Taken(j)
                                   /\ j \in Range(ran') <=> j \in Range(ran)
      BY <1>1, <2>1, <2>2, <2>7, <3>1, <3>2, Whereabouts
    <3>5. Running(i)' /\ \A j \in Inst \ {i} : Running(j)' <=> Running(j)
      BY <2>8, <3>1 DEF Running, Executing
    <3>6. \A j \in Inst \ {i} : StageOf(j)' = StageOf(j)
      BY <1>1, <2>7, <3>4, <3>5, CallsAlone, StageKept
    <3>7. StageOf(i)' = "running"
      BY <3>4, <3>5, StageIs
    <3>8. Slot!Move(i, "pending", "running")
      BY <2>6, <3>6, <3>7, StageMoves DEF Moves
    <3>9. \A j \in Inst : StageOf(j) # "running"
      BY <2>8 DEF StageOf, Running
    <3> QED
      BY <1>1, <1>2, <2>10, <3>3, <3>8, <3>9, CallsAlone
         DEF Located, Maps, Slot!SlotNext, Slot!Start
  <2> QED
    BY <2>9, <2>10
<1>6. CASE HandlerReturns
  <2>1. wpc = "handler" /\ wpc' = "finish" /\ cur' = cur /\ cur \in Inst /\ UNCHANGED <<in, ran>>
    BY <1>0, <1>6 DEF HandlerReturns, WorkType, Holding
  <2>2. PICK i \in Inst : i = cur
    BY <2>1
  <2>3. i \in Range(ran)
    BY <2>1, <2>2 DEF Ways
  <2>4. \A j \in Inst : Once(j)'
    BY <1>1, <2>1, Still
  <2>5. \A j \in Inst : (Taken(j)' <=> Taken(j)) /\ (Parked(j)' <=> Parked(j))
    BY <1>1, <2>1, Whereabouts
  <2>6. Running(i) /\ \A j \in Inst \ {i} : ~Running(j)
    BY <2>1, <2>2 DEF Running, Executing
  <2>7. \A j \in Inst : ~Running(j)'
    BY <2>1 DEF Running, Executing
  <2>8. \A j \in Inst \ {i} : StageOf(j)' = StageOf(j)
    BY <1>1, <2>1, <2>5, <2>6, <2>7, CallsAlone, StageKept
  <2>9. StageOf(i) = "running" /\ StageOf(i)' = "finished"
    BY <2>1, <2>3, <2>6, <2>7, StageIs
  <2>10. SlotState # "released"
    BY <2>1 DEF WgCounts, ShutdownOrder, SlotState
  <2>11. Slot!Move(i, "running", "finished")
    BY <2>8, <2>9, StageMoves DEF Moves
  <2> QED
    BY <1>1, <1>2, <2>4, <2>10, <2>11, CallsAlone DEF Located, Maps, Slot!SlotNext, Slot!Finish
<1> QED
  BY <1>3, <1>4, <1>5, <1>6 DEF WorkerStep

(* Shutdown closes the slot, and releases it once nothing runs.            *)
LEMMA CloserMaps ==
  ASSUME TypeOK, Located, WgCounts, ShutdownOrder, NEW s \in Closers, Shutdown(s) \/ CloserStep(s)
  PROVE  Located' /\ Maps
<1> USE DEF callVars, replayVars, chanVars, workVars
<1>1. UNCHANGED <<result, cpc, carg, rpc, rarg, flush, in, buffer, ran, wpc, cur>>
  BY DEF Shutdown, CloserStep, WaitReturns, CloseDone
<1>2. \A j \in Inst : Once(j)'
  BY <1>1, Still
<1>3. Located'
  BY <1>1, <1>2, CallsAlone DEF Located
<1>4. \A j \in Inst : StageOf(j)' = StageOf(j)
  <2>1. \A j \in Inst : (Taken(j)' <=> Taken(j)) /\ (Parked(j)' <=> Parked(j))
    BY <1>1, Whereabouts
  <2>2. \A j \in Inst : Running(j)' <=> Running(j)
    BY <1>1 DEF Running, Executing
  <2> QED
    BY <1>1, <2>1, <2>2, CallsAlone, StageKept
<1>5. CASE SlotState' = SlotState
  BY <1>3, <1>4, <1>5, Stutters
<1>6. CASE ~closed /\ closed' /\ done' = done
  <2>1. SlotState = "open" /\ SlotState' = "closing"
    BY <1>6 DEF SlotState, ShutdownOrder
  <2> QED
    BY <1>3, <1>4, <2>1 DEF Maps, Slot!SlotNext, Slot!Close
<1>7. CASE spc[s] = "stopped" /\ ~done /\ done' /\ closed' = closed
  <2>1. SlotState = "closing" /\ SlotState' = "released"
    BY <1>7 DEF SlotState, ShutdownOrder
  <2>2. wpc # "handler"
    BY <1>7 DEF ShutdownOrder, WgCounts
  <2>3. \A j \in Inst : StageOf(j) # "running"
    BY <2>2 DEF StageOf, Executing
  <2> QED
    BY <1>3, <1>4, <2>1, <2>3 DEF Maps, Slot!SlotNext, Slot!Release
<1> QED
  <2>1. CASE Shutdown(s)
    BY <1>5, <1>6, <2>1 DEF Shutdown, SlotState
  <2>2. CASE WaitReturns(s)
    BY <1>5, <2>2 DEF WaitReturns, SlotState
  <2>3. CASE CloseDone(s)
    BY <1>5, <1>7, <2>3 DEF CloseDone, SlotState, TypeOK, CloseType
  <2> QED
    BY <2>1, <2>2, <2>3 DEF CloserStep

-----------------------------------------------------------------------------
(* Every step keeps each instance in its place and is a step of the slot.  *)
LEMMA StepMaps ==
  ASSUME TypeOK, Delivery, Ways, Located, OneWindow, WgCounts, ShutdownOrder, [Next]_vars
  PROVE  Located' /\ Maps
<1>1. CASE UNCHANGED vars
  <2>1. UNCHANGED <<result, cpc, carg, rpc, rarg, flush, in, buffer, ran, wpc, cur, closed, done>>
    BY <1>1 DEF vars, chanVars, closeVars, callVars, replayVars, workVars
  <2> QED
    BY <2>1, Idles, SlotIs
<1> QED
  BY <1>1, EnqueueMaps, SlowMaps, WindowMaps, ReplayMaps, FlushMaps, WorkerMaps, CloserMaps
     DEF Next, ReplayerStep

(* A new runner is an open slot that nothing was called on.                *)
LEMMA InitMaps == Init => Slot!SlotInit
<1> SUFFICES ASSUME Init PROVE Slot!SlotInit
  OBVIOUS
<1>1. Delivery
  BY InitDelivery
<1>2. \A i \in Inst : StageOf(i) = "new"
  BY <1>1, StageNew DEF Init
<1> QED
  BY <1>2 DEF Slot!SlotInit, SlotState, Init

(* Everything the refinement rests on.                                     *)
SlotInv == TypeOK /\ Delivery /\ Ways /\ Located /\ OneWindow /\ WgCounts /\ ShutdownOrder

(* It holds in every state the program reaches.                            *)
LEMMA AlwaysLocated == Spec => []SlotInv
<1>1. Init => WgCounts /\ ShutdownOrder /\ Ways /\ Located
  BY InitShutdown, InitKeyed, InitLocated
<1>2. TypeOK /\ WgCounts /\ ShutdownOrder /\ [Next]_vars => WgCounts' /\ ShutdownOrder'
  BY StepShutdown
<1>3. Spec => [](TypeOK /\ WgCounts /\ ShutdownOrder)
  BY <1>1, <1>2, TypeCorrect, PTL DEF Spec
<1>4. Spec => [](Ways /\ Keyed)
  BY InitKeyed, KeyedStep, TypeCorrect, AlwaysDelivers, PTL DEF Spec
<1>5. SlotInv /\ [Next]_vars => Located'
  BY StepMaps DEF SlotInv
<1> QED
  BY <1>1, <1>3, <1>4, <1>5, AlwaysDelivers, ReplayWindowsExclusive, PTL DEF Spec, SlotInv

(* The slot's clients see no difference between the runner of              *)
(* internal/exec/runner.go and the abstract slot, for any number of        *)
(* goroutines, any instances and keys, and any queue size.                 *)
THEOREM RunnerIsSlot == Spec => RefinesSlot
<1>1. SlotInv /\ [Next]_vars => [Slot!SlotNext]_(Slot!slotVars)
  BY StepMaps DEF Maps, SlotInv
<1> QED
  BY InitMaps, <1>1, AlwaysLocated, PTL DEF Spec, RefinesSlot, Slot!SlotSpec

-----------------------------------------------------------------------------
(***************************************************************************)
(* Order.  Of two instances of one caller, neither parked, the one passed  *)
(* later never overtakes the other in the channel, in the worker's hands   *)
(* or at the handler; the one a slow call still holds was passed last.     *)
(***************************************************************************)

(* In the list, i comes before j wherever both are.                        *)
Before(s, i, j) == \A m, n \in 1 .. Len(s) : s[m] = i /\ s[n] = j => m < n

(* The worker has received it, and has not yet looked whether to run it.   *)
Hand(i) == wpc = "check" /\ cur = i

(* Nowhere on its way has j overtaken i.                                   *)
Follows(i, j) ==
    /\ Before(ran, i, j) /\ Before(in, i, j)
    /\ j \in Range(ran) => ~Hand(i) /\ i \notin Range(in)
    /\ Hand(j) => i \notin Range(in)

(* An instance is passed in one call only, and not replayed; a slow call   *)
(* is the caller's last one.                                               *)
Listed ==
    /\ \A c \in Callers : \A k \in 1 .. Len(calls[c]) :
          result[calls[c][k]] # "new" /\ path[calls[c][k]] # "replayed"
    /\ \A c, d \in Callers : \A k \in 1 .. Len(calls[c]), l \in 1 .. Len(calls[d]) :
          calls[c][k] = calls[d][l] => c = d /\ k = l
    /\ \A c \in Callers : cpc[c] = "slow" =>
          Len(calls[c]) # 0 /\ carg[c] = calls[c][Len(calls[c])]

(* No instance is run twice.                                               *)
RanOnce == \A i \in Inst : Single(ran, i)

(* Of what a caller passed, nothing has been overtaken but by or among     *)
(* parked instances.                                                       *)
Lined ==
    \A c \in Callers : \A k, l \in 1 .. Len(calls[c]) :
        k < l /\ path[calls[c][k]] # "parked" /\ path[calls[c][l]] # "parked"
        => Follows(calls[c][k], calls[c][l])

(* A list with one more element, that does not come before any other.      *)
LEMMA BeforeAppend ==
  ASSUME NEW S, NEW s \in Seq(S), NEW e \in S, NEW i, NEW j, Before(s, i, j),
         i # e \/ j \notin Range(s), i # j
  PROVE  Before(Append(s, e), i, j)
<1> DEFINE a == Append(s, e)
<1>1. Len(a) = Len(s) + 1 /\ a[Len(s) + 1] = e /\ Len(s) \in Nat
  OBVIOUS
<1>2. \A k \in 1 .. Len(s) : a[k] = s[k]
  OBVIOUS
<1>3. j \notin Range(s) => \A k \in 1 .. Len(s) : s[k] # j
  BY DEF Range
<1> HIDE DEF a
<1>4. ASSUME NEW m \in 1 .. Len(a), NEW n \in 1 .. Len(a), a[m] = i, a[n] = j
      PROVE  m < n
  <2>1. CASE m = Len(s) + 1
    BY <1>1, <1>2, <1>3, <1>4, <2>1
  <2>2. CASE m \in 1 .. Len(s) /\ n = Len(s) + 1
    BY <1>1, <2>2
  <2>3. CASE m \in 1 .. Len(s) /\ n \in 1 .. Len(s)
    BY <1>2, <1>4, <2>3 DEF Before
  <2> QED
    BY <1>1, <2>1, <2>2, <2>3
<1> QED
  BY <1>4 DEF a, Before

(* A list without its head, which nothing is left to come before.          *)
LEMMA BeforeTail ==
  ASSUME NEW S, NEW s \in Seq(S), s # <<>>, NEW i, NEW j, Before(s, i, j), i # j
  PROVE  Before(Tail(s), i, j) /\ (j = Head(s) => i \notin Range(Tail(s)))
<1> DEFINE t == Tail(s)
<1>1. t \in Seq(S) /\ Len(t) = Len(s) - 1 /\ Len(s) \in Nat \ {0} /\ Head(s) = s[1]
  OBVIOUS
<1>2. \A k \in 1 .. Len(t) : t[k] = s[k + 1]
  OBVIOUS
<1> HIDE DEF t
<1>3. \A k \in 1 .. Len(t) : k + 1 \in 1 .. Len(s) /\ 1 \in 1 .. Len(s) /\ ~(k + 1 < 1)
  BY <1>1
<1>4. ASSUME NEW m \in 1 .. Len(t), NEW n \in 1 .. Len(t), t[m] = i, t[n] = j
      PROVE  m < n
  <2>1. s[m + 1] = i /\ s[n + 1] = j /\ m + 1 \in 1 .. Len(s) /\ n + 1 \in 1 .. Len(s)
    BY <1>2, <1>3, <1>4
  <2>2. m + 1 < n + 1
    BY <2>1 DEF Before
  <2> QED
    BY <1>1, <2>2
<1>5. \A k \in 1 .. Len(t) : j = s[1] => t[k] # i
  BY <1>2, <1>3 DEF Before
<1>6. j = Head(s) => i \notin Range(t)
  BY <1>1, <1>5 DEF Range
<1> QED
  BY <1>4, <1>6 DEF t, Before

(* Nothing has overtaken anything that the slot does not have.             *)
LEMMA FollowsNew ==
  ASSUME NEW i, NEW j, ~Taken(j)
  PROVE  Follows(i, j)
<1>1. j \notin Range(ran) /\ j \notin Range(in) /\ ~Hand(j)
  BY Whereabouts DEF Hand
<1>2. (\A n \in 1 .. Len(ran) : ran[n] # j) /\ (\A n \in 1 .. Len(in) : in[n] # j)
  BY <1>1 DEF Range
<1> QED
  BY <1>1, <1>2 DEF Follows, Before

(* An instance enters the channel behind the others.                       *)
LEMMA FollowsEnter ==
  ASSUME TypeOK, NEW i \in Inst, NEW j \in Inst, i # j, Follows(i, j),
         NEW e \in Inst, e # i, in' = Append(in, e), UNCHANGED <<ran, wpc, cur>>
  PROVE  Follows(i, j)'
<1>1. in \in Seq(Inst)
  BY DEF TypeOK, ChanType
<1>2. Before(in', i, j) /\ Range(in') = Range(in) \cup {e}
  BY <1>1, BeforeAppend, RangeAppend DEF Follows
<1> QED
  BY <1>2 DEF Follows, Hand, Before

(* The worker receives the first one.                                      *)
LEMMA FollowsReceive ==
  ASSUME TypeOK, NEW i \in Inst, NEW j \in Inst, i # j, Follows(i, j), Receive
  PROVE  Follows(i, j)'
<1>1. /\ in \in Seq(Inst) /\ in # <<>> /\ cur' = Head(in) /\ in' = Tail(in) /\ ran' = ran
  BY DEF TypeOK, ChanType, Receive
<1>2. Range(in) = {Head(in)} \cup Range(in')
  BY <1>1, RangeTail
<1>3. Before(in', i, j) /\ (j = Head(in) => i \notin Range(in'))
  BY <1>1, BeforeTail DEF Follows
<1> QED
  BY <1>1, <1>2, <1>3 DEF Follows, Hand, Before

(* It starts the handler.                                                  *)
LEMMA FollowsStart ==
  ASSUME TypeOK, NEW i \in Inst, NEW j \in Inst, i # j, Follows(i, j),
         wpc = "check", wpc' = "handler", ran' = Append(ran, cur), in' = in
  PROVE  Follows(i, j)'
<1>1. ran \in Seq(Inst) /\ cur \in Inst
  BY DEF TypeOK, WorkType, Holding
<1>2. Before(ran', i, j) /\ Range(ran') = Range(ran) \cup {cur}
  BY <1>1, BeforeAppend, RangeAppend DEF Follows, Hand
<1> QED
  BY <1>2 DEF Follows, Hand, Before

(* A step that moves nothing in the channel and starts nothing.            *)
LEMMA FollowsStill ==
  ASSUME NEW i, NEW j, Follows(i, j), UNCHANGED <<in, ran>>,
         wpc' = "check" => wpc = "check" /\ cur' = cur
  PROVE  Follows(i, j)'
BY DEF Follows, Hand, Before

-----------------------------------------------------------------------------
(* Together with SlotInv, an inductive invariant.                          *)
InOrder == Listed /\ RanOnce /\ Lined

(* The next state is in line, pair by pair.                                *)
LEMMA LinedPairs ==
  ASSUME \A c \in Callers : \A k, l \in 1 .. Len(calls'[c]) :
            calls'[c][k] \in Inst /\ calls'[c][l] \in Inst,
         \A c \in Callers : \A k, l \in 1 .. Len(calls'[c]) : \A i, j \in Inst :
            /\ k < l /\ i = calls'[c][k] /\ j = calls'[c][l]
            /\ path'[i] # "parked" /\ path'[j] # "parked"
            => Follows(i, j)'
  PROVE  Lined'
<1> SUFFICES ASSUME NEW c \in Callers, NEW k \in 1 .. Len(calls'[c]),
                    NEW l \in 1 .. Len(calls'[c]), k < l,
                    path'[calls'[c][k]] # "parked", path'[calls'[c][l]] # "parked"
             PROVE  Follows(calls[c][k], calls[c][l])'
  BY DEF Lined
<1>1. PICK i \in Inst, j \in Inst : i = calls'[c][k] /\ j = calls'[c][l]
  OBVIOUS
<1>2. Follows(i, j)'
  BY <1>1
<1> QED
  BY <1>1, <1>2 DEF Follows, Hand, Before

(* A step that makes no call, and puts no listed instance but a slow       *)
(* caller's into the channel, if what is in order stays so.                *)
LEMMA NoCall ==
  ASSUME TypeOK, Listed, Lined, calls' = calls,
         \A i \in Inst : result[i] # "new" => result'[i] # "new" /\ path'[i] = path[i],
         \A c \in Callers : cpc'[c] = "slow" => cpc[c] = "slow" /\ carg'[c] = carg[c],
         \A c \in Callers : \A k, l \in 1 .. Len(calls[c]), i, j \in Inst :
            /\ k < l /\ i = calls[c][k] /\ j = calls[c][l] /\ i # j
            /\ path[i] # "parked" /\ Follows(i, j)
            => Follows(i, j)'
  PROVE  Listed' /\ Lined'
<1>1. \A c \in Callers : \A k \in 1 .. Len(calls[c]) :
        /\ calls[c][k] \in Inst /\ path'[calls[c][k]] = path[calls[c][k]]
        /\ result[calls[c][k]] # "new" /\ result'[calls[c][k]] # "new"
  BY DEF Listed, TypeOK, CallType
<1>2. Listed'
  BY <1>1 DEF Listed
<1>3. Lined'
  <2> SUFFICES ASSUME NEW c \in Callers, NEW k \in 1 .. Len(calls[c]),
                      NEW l \in 1 .. Len(calls[c]), NEW i \in Inst, NEW j \in Inst,
                      k < l, i = calls[c][k], j = calls[c][l],
                      path[i] # "parked", path[j] # "parked"
               PROVE  Follows(i, j)'
    BY <1>1, LinedPairs
  <2>1. calls[c] \in Seq(Inst) /\ k # l
    BY DEF TypeOK, CallType
  <2>2. i # j
    BY <2>1 DEF Listed
  <2>3. Follows(i, j)
    BY DEF Lined
  <2> QED
    BY <2>2, <2>3
<1> QED
  BY <1>2, <1>3

(* Enqueue: the instance is new, and comes last.                           *)
LEMMA EnqueueOrders ==
  ASSUME TypeOK, Delivery, Ways, Listed, Lined, NEW c \in Callers, NEW i \in Inst, Enqueue(c, i)
  PROVE  Listed' /\ Lined' /\ ran' = ran
<1> USE DEF closeVars, replayVars, workVars, chanVars
<1>0. CallType /\ ResultType /\ ChanType
  BY DEF TypeOK
<1>1. /\ result[i] = "new" /\ cpc[c] = "idle" /\ calls' = [calls EXCEPT ![c] = Append(@, i)]
      /\ UNCHANGED <<wpc, cur, ran>>
  BY DEF Enqueue
<1>2. ~Taken(i) /\ path[i] = "direct"
  BY <1>1 DEF Delivery, DeliveryOf, Ways
<1>3. path' = [path EXCEPT ![i] = IF cpc'[c] = "slow" THEN "slow"
                                 ELSE IF buffer' # buffer THEN "parked" ELSE @]
  BY DEF Enqueue
<1>4. path'[i] # "replayed" /\ \A j \in Inst \ {i} : path'[j] = path[j]
  BY <1>0, <1>2, <1>3 DEF CallType
<1>5. /\ result'[i] # "new" /\ \A j \in Inst \ {i} : result'[j] = result[j]
      /\ in' = in \/ in' = Append(in, i)
      /\ \/ UNCHANGED <<cpc, carg>>
         \/ cpc' = [cpc EXCEPT ![c] = "slow"] /\ carg' = [carg EXCEPT ![c] = i]
  BY <1>0 DEF Enqueue, EnqueueRefused, EnqueueBuffered, EnqueueFast, EnqueueSlow, Returns,
     ResultType, Send
<1> DEFINE L == Len(calls[c])
<1>6. /\ calls[c] \in Seq(Inst) /\ L \in Nat
      /\ calls'[c] = Append(calls[c], i) /\ \A d \in Callers \ {c} : calls'[d] = calls[d]
  BY <1>0, <1>1 DEF CallType
<1>7. /\ Len(calls'[c]) = L + 1 /\ calls'[c][L + 1] = i
      /\ \A k \in 1 .. L : calls'[c][k] = calls[c][k]
  BY <1>6
<1>8. \A d \in Callers : \A k \in 1 .. Len(calls[d]) : calls[d][k] \in Inst \ {i}
  BY <1>0, <1>1 DEF Listed, CallType
<1> HIDE DEF L
<1>9. ASSUME NEW d \in Callers, NEW k \in 1 .. Len(calls'[d])
      PROVE  \/ d = c /\ k = L + 1 /\ calls'[d][k] = i
             \/ /\ k \in 1 .. Len(calls[d]) /\ calls'[d][k] = calls[d][k]
                /\ calls[d][k] \in Inst \ {i}
  <2>1. CASE d # c
    BY <1>6, <1>8, <2>1
  <2>2. CASE d = c
    <3>1. k \in 1 .. L + 1
      BY <1>7, <2>2
    <3>2. CASE k = L + 1
      BY <1>7, <2>2, <3>2
    <3>3. CASE k \in 1 .. L
      BY <1>7, <1>8, <2>2, <3>3 DEF L
    <3> QED
      BY <1>6, <3>1, <3>2, <3>3
  <2> QED
    BY <2>1, <2>2
<1>10. Listed'
  <2>1. \A d \in Callers : \A k \in 1 .. Len(calls'[d]) :
           result'[calls'[d][k]] # "new" /\ path'[calls'[d][k]] # "replayed"
    BY <1>4, <1>5, <1>9 DEF Listed
  <2>2. \A d, e \in Callers : \A k \in 1 .. Len(calls'[d]), l \in 1 .. Len(calls'[e]) :
           calls'[d][k] = calls'[e][l] => d = e /\ k = l
    BY <1>9 DEF Listed
  <2>3. ASSUME NEW d \in Callers, cpc'[d] = "slow"
        PROVE  Len(calls'[d]) # 0 /\ carg'[d] = calls'[d][Len(calls'[d])]
    <3>1. CASE d = c
      BY <1>0, <1>1, <1>5, <1>6, <1>7, <2>3, <3>1 DEF CallType
    <3>2. CASE d # c
      BY <1>0, <1>5, <1>6, <2>3, <3>2 DEF CallType, Listed
    <3> QED
      BY <3>1, <3>2
  <2> QED
    BY <2>1, <2>2, <2>3 DEF Listed
<1>11. Lined'
  <2>a. \A d \in Callers : \A k \in 1 .. Len(calls'[d]) : calls'[d][k] \in Inst
    BY <1>9
  <2> SUFFICES ASSUME NEW d \in Callers, NEW k \in 1 .. Len(calls'[d]),
                      NEW l \in 1 .. Len(calls'[d]), NEW x \in Inst, NEW y \in Inst,
                      k < l, x = calls'[d][k], y = calls'[d][l],
                      path'[x] # "parked", path'[y] # "parked"
               PROVE  Follows(x, y)'
    BY <2>a, LinedPairs
  <2>1. k \in 1 .. Len(calls[d]) /\ x = calls[d][k] /\ x # i
    <3>1. ~(d = c /\ k = L + 1)
      BY <1>6, <1>7
    <3> QED
      BY <1>9, <3>1
  <2>2. x # y
    <3>1. k # l
      OBVIOUS
    <3> QED
      BY <1>10, <3>1 DEF Listed
  <2>3. Follows(x, y)
    <3>1. CASE y = i
      BY <1>2, <3>1, FollowsNew
    <3>2. CASE y # i
      <4>1. l \in 1 .. Len(calls[d]) /\ y = calls[d][l]
        BY <1>9, <3>2
      <4>2. path[x] # "parked" /\ path[y] # "parked"
        BY <1>4, <2>1, <3>2
      <4> QED
        BY <2>1, <4>1, <4>2 DEF Lined
    <3> QED
      BY <3>1, <3>2
  <2>4. CASE in' = in
    BY <1>1, <2>3, <2>4, FollowsStill
  <2>5. CASE in' = Append(in, i)
    BY <1>1, <2>1, <2>2, <2>3, <2>5, FollowsEnter
  <2> QED
    BY <1>5, <2>4, <2>5
<1> QED
  BY <1>1, <1>10, <1>11

(* The slow path: what a slow caller holds is the last it has passed.      *)
LEMMA SlowOrders ==
  ASSUME TypeOK, Listed, Lined, NEW c \in Callers, CallerStep(c)
  PROVE  Listed' /\ Lined' /\ ran' = ran
<1> USE DEF closeVars, replayVars, workVars, chanVars, AfterSend
<1>0. CallType /\ ResultType
  BY DEF TypeOK
<1>1. /\ UNCHANGED <<calls, path, ran, wpc, cur>>
      /\ \A i \in Inst : result[i] # "new" => result'[i] # "new"
      /\ \A d \in Callers : cpc'[d] = "slow" => cpc[d] = "slow" /\ carg'[d] = carg[d]
  BY <1>0 DEF CallerStep, SlowSend, SlowFail, SlowReserve, Returns, SlowAnswer, CallType, ResultType
<1>2. in' = in \/ (cpc[c] = "slow" /\ in' = Append(in, carg[c]))
  BY DEF CallerStep, SlowSend, SlowFail, SlowReserve, Send
<1>3. ASSUME NEW d \in Callers, NEW k \in 1 .. Len(calls[d]), NEW l \in 1 .. Len(calls[d]),
             NEW x \in Inst, NEW y \in Inst,
             k < l, x = calls[d][k], y = calls[d][l], x # y, Follows(x, y)
      PROVE  Follows(x, y)'
  <2>1. CASE in' = in
    BY <1>1, <1>3, <2>1, FollowsStill
  <2>2. CASE cpc[c] = "slow" /\ in' = Append(in, carg[c])
    <3> DEFINE L == Len(calls[c])
    <3>1. carg[c] \in Inst /\ carg[c] = calls[c][L] /\ L \in Nat \ {0}
      BY <1>0, <2>2 DEF CallType, Listed
    <3>2. carg[c] # x
      <4>1. L \in 1 .. L /\ (d = c => k # L)
        BY <1>3, <3>1
      <4> QED
        BY <1>3, <3>1, <4>1 DEF Listed
    <3> QED
      BY <1>1, <1>3, <2>2, <3>1, <3>2, FollowsEnter
  <2> QED
    BY <1>2, <2>1, <2>2
<1> QED
  BY <1>1, <1>3, NoCall

(* A replayer sends what was not passed to Enqueue, or was parked.         *)
LEMMA ReplayOrders ==
  ASSUME TypeOK, Delivery, Listed, Lined, NEW p \in Replayers,
         BeginReplay(p) \/ ReplayerStep(p) \/ \E i \in Inst : ReplayWrite(p, i)
  PROVE  Listed' /\ Lined' /\ ran' = ran
<1> USE DEF closeVars, callVars, workVars, chanVars
<1>0. CallType /\ ResultType /\ ReplayType
  BY DEF TypeOK
<1>1. /\ UNCHANGED <<calls, cpc, carg, ran, wpc, cur>>
      /\ \A i \in Inst : result[i] # "new" => result'[i] # "new" /\ path'[i] = path[i]
  <2>1. CASE BeginReplay(p) \/ EndReplay(p) \/ FlushNext(p) \/ FlushSent(p)
    BY <2>1 DEF BeginReplay, EndReplay, FlushNext, FlushSent
  <2>2. CASE ReplaySent(p)
    BY <1>0, <2>2 DEF ReplaySent, Returns, ResultType
  <2>3. ASSUME NEW i \in Inst, ReplayWrite(p, i)
        PROVE  /\ UNCHANGED <<calls, cpc, carg, ran, wpc, cur>>
               /\ \A j \in Inst : result[j] # "new" => result'[j] # "new" /\ path'[j] = path[j]
    BY <1>0, <2>3 DEF ReplayWrite, Returns, ResultType, CallType
  <2> QED
    BY <2>1, <2>2, <2>3 DEF ReplayerStep
<1>2. \/ in' = in
      \/ rpc[p] = "replaySend" /\ in' = Append(in, rarg[p])
      \/ rpc[p] = "flushSend" /\ in' = Append(in, rarg[p])
  BY DEF BeginReplay, ReplayerStep, ReplayWrite, ReplaySent, EndReplay, FlushNext, FlushSent, Send
<1>3. ASSUME NEW d \in Callers, NEW k \in 1 .. Len(calls[d]),
             NEW x \in Inst, NEW y \in Inst,
             x = calls[d][k], x # y, path[x] # "parked", Follows(x, y)
      PROVE  Follows(x, y)'
  <2>1. path[x] # "replayed"
    BY <1>3 DEF Listed
  <2>2. CASE in' = in
    BY <1>1, <1>3, <2>2, FollowsStill
  <2>3. CASE in' # in
    <3>1. rarg[p] \in Inst /\ in' = Append(in, rarg[p]) /\ DeliveryOf(rarg[p])
      BY <1>0, <1>2, <2>3 DEF ReplayType, InSend, Delivery
    <3>2. path[rarg[p]] \in {"replayed", "parked"}
      <4>1. CASE rpc[p] = "replaySend"
        BY <3>1, <4>1 DEF DeliveryOf, Replays
      <4>2. CASE rpc[p] = "flushSend"
        <5>1. Parked(rarg[p])
          BY <4>2, <3>1, Whereabouts
        <5> QED
          BY <3>1, <5>1 DEF DeliveryOf
      <4> QED
        BY <1>2, <2>3, <4>1, <4>2
    <3>3. rarg[p] # x
      BY <1>3, <2>1, <3>2
    <3> QED
      BY <1>1, <1>3, <3>1, <3>3, FollowsEnter
  <2> QED
    BY <2>2, <2>3
<1> QED
  BY <1>1, <1>3, NoCall

(* The worker takes the instances in the order of the channel, each once.  *)
LEMMA WorkerOrders ==
  ASSUME TypeOK, Located, Listed, RanOnce, Lined, WorkerStep
  PROVE  Listed' /\ Lined' /\ RanOnce'
<1> USE DEF closeVars, callVars, replayVars, chanVars
<1>0. CallType /\ WorkType
  BY DEF TypeOK
<1>1. UNCHANGED <<calls, cpc, carg, path, result>>
  BY DEF WorkerStep, Receive, ExitOnStop, CheckClosed, HandlerReturns, ReleaseKey, WgDone
<1>2. \A c \in Callers : \A k \in 1 .. Len(calls[c]) : calls[c][k] \in Inst
  BY <1>0 DEF CallType
<1>3. CASE Receive
  <2>1. RanOnce'
    BY <1>3 DEF Receive, RanOnce, Single
  <2> QED
    BY <1>1, <1>2, <1>3, <2>1, FollowsReceive, NoCall
<1>4. CASE wpc = "check" /\ wpc' = "handler" /\ ran' = Append(ran, cur) /\ in' = in
  <2>1. cur \in Inst /\ ran \in Seq(Inst)
    BY <1>0, <1>4 DEF WorkType, Holding
  <2>2. cur \notin Range(ran)
    <3>1. At(cur, "hand", None)
      BY <1>4 DEF At
    <3>2. "hand" \in Spots /\ "ran" \in Spots /\ None \in Owners /\ "hand" # "ran"
      BY DEF Spots, Owners
    <3>3. ~At(cur, "ran", None)
      BY <2>1, <3>1, <3>2 DEF Located, Once
    <3> QED
      BY <3>3 DEF At
  <2>3. RanOnce'
    BY <1>4, <2>1, <2>2, SingleAppend DEF RanOnce
  <2> QED
    BY <1>1, <1>2, <1>4, <2>3, FollowsStart, NoCall
<1>5. CASE UNCHANGED <<in, ran>> /\ wpc' # "check"
  <2>1. RanOnce'
    BY <1>5 DEF RanOnce, Single
  <2> QED
    BY <1>1, <1>2, <1>5, <2>1, FollowsStill, NoCall
<1> QED
  BY <1>3, <1>4, <1>5 DEF WorkerStep, ExitOnStop, CheckClosed, HandlerReturns, ReleaseKey, WgDone

(* Every step keeps the order.                                             *)
LEMMA StepOrders ==
  TypeOK /\ Delivery /\ Ways /\ Located /\ InOrder /\ [Next]_vars => InOrder'
<1> SUFFICES ASSUME TypeOK, Delivery, Ways, Located, Listed, RanOnce, Lined, [Next]_vars
             PROVE  InOrder'
  BY DEF InOrder
<1>1. ran' = ran => RanOnce'
  BY DEF RanOnce, Single
<1>2. CASE \/ \E c \in Callers, i \in Inst : Enqueue(c, i)
           \/ \E c \in Callers : CallerStep(c)
           \/ \E p \in Replayers : BeginReplay(p) \/ ReplayerStep(p)
           \/ \E p \in Replayers, i \in Inst : ReplayWrite(p, i)
  BY <1>1, <1>2, EnqueueOrders, SlowOrders, ReplayOrders DEF InOrder
<1>3. CASE WorkerStep
  BY <1>3, WorkerOrders DEF InOrder
<1>4. CASE UNCHANGED vars \/ \E s \in Closers : Shutdown(s) \/ CloserStep(s)
  <2>1. UNCHANGED <<calls, cpc, carg, path, result, in, ran, wpc, cur>>
    BY <1>4 DEF vars, chanVars, callVars, workVars, Shutdown, CloserStep, WaitReturns, CloseDone
  <2> QED
    BY <1>1, <2>1, FollowsStill, NoCall DEF InOrder
<1> QED
  BY <1>2, <1>3, <1>4 DEF Next

(* "Runner delivers instances to one executor slot in order"               *)
(* (runner.go:26): what a caller passed runs once at most and in the order *)
(* of the calls, whichever path each took, but for what a window parked.   *)
THEOREM DeliveredInOrder == Spec => []LiveInOrder
<1>1. Init => InOrder
  BY DEF Init, InOrder, Listed, RanOnce, Lined, Single
<1>2. Spec => []InOrder
  <2>1. SlotInv /\ InOrder /\ [Next]_vars => InOrder'
    BY StepOrders DEF SlotInv
  <2> QED
    BY <1>1, <2>1, AlwaysLocated, PTL DEF Spec
<1>3. TypeOK /\ InOrder => LiveInOrder
  <2> SUFFICES ASSUME TypeOK, InOrder, NEW c \in Callers,
                      NEW k \in 1 .. Len(calls[c]), NEW l \in 1 .. Len(calls[c]),
                      NEW m \in 1 .. Len(ran), NEW n \in 1 .. Len(ran),
                      k <= l, ran[m] = calls[c][k], ran[n] = calls[c][l],
                      path[ran[m]] # "parked", path[ran[n]] # "parked"
               PROVE  m <= n
    BY DEF LiveInOrder
  <2>1. calls[c] \in Seq(Inst) /\ ran \in Seq(Inst) /\ calls[c][k] \in Inst
    BY DEF TypeOK, CallType, WorkType
  <2>2. CASE k = l
    BY <2>1, <2>2 DEF InOrder, RanOnce, Single
  <2>3. CASE k < l
    <3>1. Before(ran, calls[c][k], calls[c][l])
      BY <2>3 DEF InOrder, Lined, Follows
    <3> QED
      BY <2>1, <3>1 DEF Before
  <2> QED
    BY <2>1, <2>2, <2>3
<1> QED
  BY <1>2, <1>3, TypeCorrect, PTL
=============================================================================
