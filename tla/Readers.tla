------------------------------ MODULE Readers -------------------------------
(***************************************************************************)
(* Those that use the task store while publishers and the tick go on       *)
(* (module Scheduler): Dispatcher.CatchUp, which replays what the cursor   *)
(* has passed; the handler of the runners, which records executions        *)
(* (cmd/jobsched/main.go); and the status page, whose backlog              *)
(* (internal/store/backlog.go) is read under one lock after another.       *)
(*                                                                         *)
(* The handler and the status page are part of cmd/jobsched; CatchUp has   *)
(* no caller there, a client of the package calls it at any time.  Whether *)
(* the runner opens its window and accepts a write is module Runner's      *)
(* matter: here it may refuse each.  Bound: one catch-up and one page.     *)
(***************************************************************************)
EXTENDS Scheduler, FiniteSetsExt

CONSTANTS From      \* the sequences a catch-up may start after

ASSUME FromAssumption == From \subseteq Nat

VARIABLES
    cpc, from,      \* the catch-up: its step and the sequence it starts after
    missed,         \* the tasks Since returned
    replayed,       \* and how many of them ReplayWrite accepted
    before,         \* history: the tasks the tick was through with when the
                    \* replay window was opened
    ran,            \* history: tasks the handler ran, live or in a replay
    spc, view       \* the status page: the number of its next read, and what
                    \* it has read

catchVars == <<cpc, from, missed, replayed, before>>
readerVars == <<catchVars, ran, spc, view>>

(* What BacklogInfo reads, in this order.  Variant: the cursor comes last. *)
ReadsCursorLast == <<"next", "first", "pending", "highest",
                     "retained", "dispatched", "retryable", "committed">>

Reads == <<"next", "first", "pending", "committed",
           "retained", "dispatched", "retryable", "highest">>

Blank == [r \in Range(Reads) |-> 0]

ReadersInit ==
    /\ Init
    /\ cpc = "idle" /\ from = 0 /\ missed = <<>> /\ replayed = 0
    /\ before = {} /\ ran = {}
    /\ spc = 1 /\ view = Blank

-----------------------------------------------------------------------------
(* CatchUpFrom with ReplayWindow.                                          *)

(* The replay window is open before the tasks are read.                    *)
OpenWindow(f) ==
    /\ "catchUp" \in env.readers /\ cpc = "idle"
    /\ from' = f
    /\ before' = Handed \ {cur}
    /\ cpc' = "since"
    /\ UNCHANGED <<vars, missed, replayed, ran, spc, view>>

(* Variant: what is still pending is returned too.                         *)
PassedAny(s) == from < s

Passed(s) == from < s /\ s <= committed

(* The tasks of S in the order of their sequences, which are all different.*)
InOrder(S) ==
    {s \in [1 .. Cardinality(S) -> S] :
        \A m, n \in 1 .. Cardinality(S) : m < n => seqOf[s[m]] < seqOf[s[n]]}

(* Store.Since: what the cursor has passed, handed off or not.             *)
Since ==
    /\ cpc = "since"
    /\ missed' \in InOrder({t \in retained : Passed(seqOf[t])})
    /\ cpc' = "replay"
    /\ UNCHANGED <<vars, from, replayed, before, ran, spc, view>>

ReplayWrite ==
    /\ cpc = "replay" /\ replayed < Len(missed)
    /\ replayed' = replayed + 1
    /\ UNCHANGED <<vars, cpc, from, missed, before, ran, spc, view>>

(* All is written, or the first write that fails ends the replay.          *)
CloseWindow ==
    /\ cpc = "replay"
    /\ cpc' = "closed"
    /\ UNCHANGED <<vars, from, missed, replayed, before, ran, spc, view>>

-----------------------------------------------------------------------------
(* The handler, called by a runner for a task it accepted.                 *)
Handle(t, how) ==
    /\ "handler" \in env.readers
    /\ \/ how = "live" /\ t \in Handed
       \/ how = "replay" /\ t \in Range(SubSeq(missed, 1, replayed))
    /\ <<t, how>> \notin ran
    /\ ran' = ran \cup {<<t, how>>}
    /\ records' = records \cup {t}
    /\ UNCHANGED <<env, now, ticker, seq, seqOf, retained, committed, marked, state>>
    /\ UNCHANGED <<queue, pubVars, tickVars, catchVars, spc, view>>

-----------------------------------------------------------------------------
(* BacklogInfo.                                                            *)

Pending == {t \in retained : seqOf[t] > committed}

Value(read) ==
    LET sequences == {seqOf[t] : t \in Pending}
    IN  CASE read = "next"       -> seq + 1
          [] read = "first"      -> IF Pending = {} THEN 0 ELSE Min(sequences)
          [] read = "pending"    -> Cardinality(Pending)
          [] read = "committed"  -> committed
          [] read = "retained"   -> Cardinality(retained)
          [] read = "dispatched" -> Cardinality(marked)
          [] read = "retryable"  -> Cardinality({t \in Pending : seqOf[t] \notin marked})
          [] read = "highest"    -> IF Pending = {} THEN 0 ELSE Max(sequences)

ReadNext ==
    /\ "status" \in env.readers /\ spc <= Len(Reads)
    /\ view' = [view EXCEPT ![Reads[spc]] = Value(Reads[spc])]
    /\ spc' = spc + 1
    /\ UNCHANGED <<vars, catchVars, ran>>

-----------------------------------------------------------------------------
ReadersNext ==
    \/ Next /\ UNCHANGED readerVars
    \/ \E f \in From : OpenWindow(f)
    \/ Since \/ ReplayWrite \/ CloseWindow
    \/ \E t \in Task, how \in {"live", "replay"} : Handle(t, how)
    \/ ReadNext

ReadersSpec == ReadersInit /\ [][ReadersNext]_<<vars, readerVars>>

-----------------------------------------------------------------------------
(* A replay misses nothing: all that the tick was through with when the    *)
(* window was opened, after the sequence asked for, is among the tasks     *)
(* read, although publishers and the tick went on in between.              *)
ReplayCovers ==
    cpc \in {"replay", "closed"} =>
        \A t \in before : seqOf[t] > from => t \in Range(missed)

(* "the committed tasks" (dispatch.go:63): a replay only holds tasks that  *)
(* were handed off or that a hand-off of a later publish has overtaken.    *)
(* (The overtaken ones may still be waiting, or belong to a publish that   *)
(* failed: the replay runs them all the same.)                             *)
ReplayBacked ==
    \A t \in Range(missed) : \E u \in Handed : seqOf[t] <= seqOf[u]

(* The record of an execution stays: a publish clears the record of its    *)
(* task before the tick can hand the task off, never that of another task. *)
(* (Only a replay may run a task whose record its publish then clears.)    *)
RecordKept == \A t \in Task : <<t, "live">> \in ran => t \in records

(* The backlog is put together from eight reads under eight locks, and     *)
(* still shows no pending sequence that its cursor has passed, no more     *)
(* pending tasks than retained ones, no cursor without a hand-off, and no  *)
(* first pending sequence above the one to be given next, unless the       *)
(* cursor has got there.                                                   *)
BacklogCoherent ==
    spc > Len(Reads) =>
        /\ view["highest"] # 0 => view["committed"] < view["highest"]
        /\ view["pending"] <= view["retained"]
        /\ view["committed"] # 0 => view["dispatched"] # 0
        /\ view["first"] > view["next"] => view["committed"] >= view["next"]
=============================================================================
