----------------------------- MODULE GroupsProofs -----------------------------
(***************************************************************************)
(* Proofs about Groups, for any number of tasks, groups and dispatchers    *)
(* and any bounds: the cached snapshot of a group that lists no stray is   *)
(* what one read under one lock would give, that of any group has its own  *)
(* tasks right, and a dispatch never chooses a task that was dead all      *)
(* along unless it is a stray.                                             *)
(***************************************************************************)
EXTENDS Groups, SequenceTheorems, WellFoundedInduction, TLAPS

(* Induction over the numbers, for a set of them: the order on Nat is well *)
(* founded.                                                                *)
LEMMA Induction ==
  ASSUME NEW Q, Q \subseteq Nat, 0 \in Q, \A n \in Nat : n \in Q => n + 1 \in Q
  PROVE  \A n \in Nat : n \in Q
<1> DEFINE R == OpToRel(<, Nat)
<1>1. IsWellFoundedOn(R, Nat)
  BY NatLessThanWellFounded
<1>2. \A m, n \in Nat : <<m, n>> \in R <=> m < n
  BY DEF OpToRel
<1> HIDE DEF R
<1> SUFFICES ASSUME Nat \ Q # {} PROVE FALSE
  OBVIOUS
<1>3. PICK n \in Nat \ Q : \A m \in Nat \ Q : ~(<<m, n>> \in R)
  BY <1>1, WFMin
<1>4. n \in Nat /\ n # 0 /\ n - 1 \in Nat /\ n - 1 < n
  OBVIOUS
<1>5. n - 1 \in Q
  BY <1>2, <1>3, <1>4
<1>6. n - 1 + 1 = n
  BY <1>4
<1> QED
  BY <1>4, <1>5, <1>6

-----------------------------------------------------------------------------
(* What is kept of a list.                                                 *)

(* A turn of the loop, given what the turn before it kept.                 *)
Turn(list, S, n, before) == IF list[n] \in S THEN Append(before, list[n]) ELSE before

(* What the loop keeps in its first m turns.                               *)
Runs(list, S, f, m) ==
    f = [n \in 0 .. m |-> IF n = 0 THEN <<>> ELSE Turn(list, S, n, f[n - 1])]

(* The loop has a result after each number of turns.                       *)
LEMMA LoopRuns ==
  ASSUME NEW list, NEW S, NEW m \in Nat
  PROVE  \E f : Runs(list, S, f, m)
<1> DEFINE Q == {k \in Nat : \E f : Runs(list, S, f, k)}
<1>1. 0 \in Q
  <2> DEFINE g == [n \in 0 .. 0 |-> <<>>]
  <2>1. Runs(list, S, g, 0)
    BY DEF Runs
  <2> QED
    BY <2>1
<1>2. ASSUME NEW k \in Nat, k \in Q
      PROVE  k + 1 \in Q
  <2>1. PICK f : Runs(list, S, f, k)
    BY <1>2
  <2> DEFINE g == [n \in 0 .. k + 1 |->
                     IF n = k + 1 THEN Turn(list, S, n, f[k]) ELSE f[n]]
  <2>2. \A n \in 0 .. k : g[n] = f[n]
    OBVIOUS
  <2>3. \A n \in 0 .. k + 1 : g[n] = IF n = 0 THEN <<>> ELSE Turn(list, S, n, g[n - 1])
    <3> SUFFICES ASSUME NEW n \in 0 .. k + 1
                 PROVE  g[n] = IF n = 0 THEN <<>> ELSE Turn(list, S, n, g[n - 1])
      OBVIOUS
    <3>1. CASE n = k + 1
      <4>1. n # 0 /\ n - 1 = k /\ k \in 0 .. k
        BY <3>1
      <4>2. g[n] = Turn(list, S, n, f[k])
        BY <3>1
      <4> QED
        BY <2>2, <4>1, <4>2
    <3>2. CASE n # k + 1
      <4>1. n \in 0 .. k /\ (n # 0 => n - 1 \in 0 .. k)
        BY <3>2
      <4>2. f[n] = IF n = 0 THEN <<>> ELSE Turn(list, S, n, f[n - 1])
        BY <2>1, <4>1 DEF Runs
      <4> QED
        BY <2>2, <4>1, <4>2
    <3> QED
      BY <3>1, <3>2
  <2>4. Runs(list, S, g, k + 1)
    <3>1. g = [n \in 0 .. k + 1 |-> g[n]]
      OBVIOUS
    <3> HIDE DEF g
    <3> QED
      BY <2>3, <3>1 DEF Runs
  <2> HIDE DEF g
  <2> QED
    BY <2>4
<1>3. \A k \in Nat : k \in Q
  BY <1>1, <1>2, Induction
<1> QED
  BY <1>3

(* What is kept after a turn depends on what was kept before it.           *)
LEMMA KeptTurns ==
  ASSUME NEW list \in Seq(Id), NEW S
  PROVE  /\ KeptBy(list, S)[0] = <<>>
         /\ \A n \in 0 .. Len(list) - 1 :
               KeptBy(list, S)[n + 1] = Turn(list, S, n + 1, KeptBy(list, S)[n])
<1> DEFINE Result(f) ==
        f = [n \in 0 .. Len(list) |->
               IF n = 0 THEN <<>>
               ELSE IF list[n] \in S THEN Append(f[n - 1], list[n]) ELSE f[n - 1]]
<1>1. \E f : Result(f)
  <2>1. Len(list) \in Nat
    OBVIOUS
  <2>2. PICK f : Runs(list, S, f, Len(list))
    BY <2>1, LoopRuns
  <2>3. Result(f)
    BY <2>2 DEF Runs, Turn
  <2> HIDE DEF Result
  <2> QED
    BY <2>3
<1> DEFINE kept == KeptBy(list, S)
<1>2. kept = CHOOSE f : Result(f)
  BY DEF KeptBy
<1>3. Result(kept)
  BY <1>1, <1>2
<1> HIDE DEF kept
<1>4. kept[0] = <<>>
  BY <1>3
<1>5. ASSUME NEW n \in 0 .. Len(list) - 1
      PROVE  kept[n + 1] = Turn(list, S, n + 1, kept[n])
  <2> DEFINE m == n + 1
  <2>1. m \in 0 .. Len(list) /\ m # 0 /\ m - 1 = n
    OBVIOUS
  <2> HIDE DEF m
  <2>2. kept[m] = IF list[m] \in S THEN Append(kept[m - 1], list[m]) ELSE kept[m - 1]
    BY <1>3, <2>1
  <2> QED
    BY <2>1, <2>2 DEF Turn, m
<1> QED
  BY <1>4, <1>5 DEF kept

(* What is kept are elements of the list that are in S.                    *)
LEMMA KeptTyped ==
  ASSUME NEW list \in Seq(Id), NEW S, NEW n \in 0 .. Len(list)
  PROVE  /\ KeptBy(list, S)[n] \in Seq(Id)
         /\ \A k \in 1 .. Len(KeptBy(list, S)[n]) : KeptBy(list, S)[n][k] \in S
<1> DEFINE kept == KeptBy(list, S)
           Good(m) == /\ kept[m] \in Seq(Id)
                      /\ \A k \in 1 .. Len(kept[m]) : kept[m][k] \in S
           Q == {m \in Nat : m <= Len(list) => Good(m)}
<1>0. /\ kept[0] = <<>>
      /\ \A m \in 0 .. Len(list) - 1 : kept[m + 1] = Turn(list, S, m + 1, kept[m])
  BY KeptTurns
<1> HIDE DEF kept
<1>1. 0 \in Q
  <2>1. <<>> \in Seq(Id) /\ \A k \in 1 .. Len(<<>>) : FALSE
    OBVIOUS
  <2>2. Good(0)
    BY <1>0, <2>1
  <2> HIDE DEF Good
  <2> QED
    BY <2>2
<1>2. ASSUME NEW m \in Nat, m \in Q
      PROVE  m + 1 \in Q
  <2> SUFFICES ASSUME m + 1 <= Len(list)
               PROVE  Good(m + 1)
    OBVIOUS
  <2>1. m \in 0 .. Len(list) - 1 /\ m + 1 \in 1 .. Len(list) /\ Good(m)
    BY <1>2
  <2>2. kept[m + 1] = Turn(list, S, m + 1, kept[m])
    BY <1>0, <2>1
  <2> DEFINE x == list[m + 1]
             b == kept[m]
  <2>3. x \in Id /\ b \in Seq(Id) /\ \A k \in 1 .. Len(b) : b[k] \in S
    BY <2>1
  <2>4. kept[m + 1] = IF x \in S THEN Append(b, x) ELSE b
    BY <2>2 DEF Turn
  <2> HIDE DEF x, b
  <2>5. CASE x \in S
    <3>1. /\ Append(b, x) \in Seq(Id) /\ Len(Append(b, x)) = Len(b) + 1
          /\ \A k \in 1 .. Len(b) + 1 : Append(b, x)[k] = IF k = Len(b) + 1 THEN x ELSE b[k]
      BY <2>3
    <3>2. \A k \in 1 .. Len(b) + 1 : Append(b, x)[k] \in S
      BY <2>3, <2>5, <3>1
    <3> QED
      BY <2>4, <2>5, <3>1, <3>2
  <2>6. CASE x \notin S
    BY <2>3, <2>4, <2>6
  <2> QED
    BY <2>5, <2>6
<1> HIDE DEF Good
<1>3. \A m \in Nat : m \in Q
  BY <1>1, <1>2, Induction
<1>4. Good(n)
  BY <1>3
<1> QED
  BY <1>4 DEF Good, kept

(* What is kept stays where it is in all later turns.                      *)
LEMMA KeptStays ==
  ASSUME NEW list \in Seq(Id), NEW S, NEW n \in 0 .. Len(list), NEW m \in n .. Len(list)
  PROVE  /\ Len(KeptBy(list, S)[n]) <= Len(KeptBy(list, S)[m])
         /\ \A k \in 1 .. Len(KeptBy(list, S)[n]) :
               KeptBy(list, S)[m][k] = KeptBy(list, S)[n][k]
<1> DEFINE kept == KeptBy(list, S)
           Good(l) == /\ Len(kept[n]) <= Len(kept[l])
                      /\ \A k \in 1 .. Len(kept[n]) : kept[l][k] = kept[n][k]
           Q == {l \in Nat : l >= n /\ l <= Len(list) => Good(l)}
<1>0. /\ \A l \in 0 .. Len(list) - 1 : kept[l + 1] = Turn(list, S, l + 1, kept[l])
      /\ \A l \in 0 .. Len(list) : kept[l] \in Seq(Id)
  BY KeptTurns, KeptTyped
<1> HIDE DEF kept
<1>a. Len(kept[n]) \in Nat
  BY <1>0
<1>1. 0 \in Q
  BY <1>a
<1>2. ASSUME NEW l \in Nat, l \in Q
      PROVE  l + 1 \in Q
  <2> SUFFICES ASSUME l + 1 >= n, l + 1 <= Len(list)
               PROVE  Good(l + 1)
    OBVIOUS
  <2>1. CASE l + 1 = n
    BY <1>a, <2>1
  <2>2. CASE l + 1 # n
    <3>1. l >= n /\ l \in 0 .. Len(list) - 1 /\ l + 1 \in 1 .. Len(list)
      BY <2>2
    <3>2. Good(l) /\ kept[l] \in Seq(Id) /\ list[l + 1] \in Id
      BY <1>0, <1>2, <3>1
    <3>3. kept[l + 1] = IF list[l + 1] \in S THEN Append(kept[l], list[l + 1]) ELSE kept[l]
      BY <1>0, <3>1 DEF Turn
    <3> DEFINE x == list[l + 1]
               b == kept[l]
    <3> HIDE DEF x, b
    <3>4. /\ Len(b) \in Nat /\ Len(Append(b, x)) = Len(b) + 1
          /\ \A k \in 1 .. Len(b) : Append(b, x)[k] = b[k]
      BY <3>2 DEF x, b
    <3>5. /\ Len(kept[n]) <= Len(b) /\ \A k \in 1 .. Len(kept[n]) : b[k] = kept[n][k]
      BY <3>2 DEF b
    <3>6. kept[l + 1] \in {b, Append(b, x)}
      BY <3>3 DEF b, x
    <3>7. CASE kept[l + 1] = b
      BY <3>5, <3>7
    <3>8. CASE kept[l + 1] = Append(b, x)
      <4>1. Len(kept[n]) <= Len(Append(b, x)) /\ 1 .. Len(kept[n]) \subseteq 1 .. Len(b)
        BY <1>a, <3>4, <3>5
      <4>2. \A k \in 1 .. Len(kept[n]) : Append(b, x)[k] = kept[n][k]
        BY <3>4, <3>5, <4>1
      <4> QED
        BY <3>8, <4>1, <4>2
    <3> QED
      BY <3>6, <3>7, <3>8
  <2> QED
    BY <2>1, <2>2
<1> HIDE DEF Good
<1>3. \A l \in Nat : l \in Q
  BY <1>1, <1>2, Induction
<1>4. Good(m)
  BY <1>3
<1> QED
  BY <1>4 DEF Good, kept

(* What is in S is kept, wherever it stands.                               *)
LEMMA KeptHas ==
  ASSUME NEW list \in Seq(Id), NEW S, NEW t \in Range(list), t \in S
  PROVE  t \in Range(Kept(list, S))
<1>1. PICK k \in 1 .. Len(list) : list[k] = t
  BY DEF Range
<1>2. /\ k \in 0 .. Len(list) /\ Len(list) \in k .. Len(list) /\ Len(list) \in 0 .. Len(list)
      /\ k - 1 \in 0 .. Len(list) - 1 /\ k - 1 \in 0 .. Len(list) /\ k - 1 + 1 = k /\ t \in Id
  BY <1>1
<1> DEFINE b == KeptBy(list, S)[k - 1]
           c == KeptBy(list, S)[k]
           all == KeptBy(list, S)[Len(list)]
<1>3. b \in Seq(Id) /\ all \in Seq(Id)
  BY <1>2, KeptTyped
<1>4. c = Append(b, t)
  <2>1. KeptBy(list, S)[k - 1 + 1] = Turn(list, S, k - 1 + 1, b)
    BY <1>2, KeptTurns
  <2> QED
    BY <1>1, <1>2, <2>1 DEF Turn
<1>5. /\ Len(c) <= Len(all)
      /\ \A n \in 1 .. Len(c) : all[n] = c[n]
  BY <1>2, KeptStays
<1>6. Kept(list, S) = all
  BY DEF Kept
<1> HIDE DEF b, c, all
<1>7. /\ Len(Append(b, t)) = Len(b) + 1 /\ Append(b, t)[Len(b) + 1] = t
      /\ Len(b) \in Nat /\ Len(all) \in Nat /\ DOMAIN all = 1 .. Len(all)
  BY <1>2, <1>3
<1>8. Len(b) + 1 \in DOMAIN all /\ all[Len(b) + 1] = t
  BY <1>4, <1>5, <1>7
<1> QED
  BY <1>6, <1>8 DEF Range

-----------------------------------------------------------------------------
(* The inductive invariant, in five parts.                                 *)

(* An entry of the table.                                                  *)
Entry == [state : {"pending", "dispatched", "done", "removed"}, due : Nat, group : Group]
             \cup {Absent}

(* Dispatcher d holds d.mu; it goes through its group.                     *)
Holds(d)   == dpc[d] \in {"list", "get", "alive"}
Reading(d) == dpc[d] \in {"get", "alive"}

(* No snapshot carries a version its group has not had yet.                *)
Types ==
    /\ GroupsTypeOK
    /\ \A g \in Group : cache[g].version <= version[g]
    /\ got \in [Dispatchers -> Entry]
    /\ lived \in [Dispatchers -> SUBSET Id]

(* What the table has is listed in its group.                              *)
Listed == \A t \in Id : byID[t] # Absent => t \in Range(groups[byID[t].group])

Living(g) == Range(groups[g]) \cap Alive(byID)

(* Given a table and the list of a group, the records of the listed ids,   *)
(* but for the rest, tell of each task of the group what the table has of  *)
(* it; what they tell of strays is left open.                              *)
RightBy(table, list, g, records, rest) ==
    /\ Range(rest) \subseteq Range(list)
    /\ \A r \in Range(records) :
          /\ r.id \in Range(list)
          /\ table[r.id].group = g =>
                r.id \in Alive(table) /\ r = [id |-> r.id, due |-> table[r.id].due]
    /\ \A t \in (Range(list) \cap Alive(table)) \ Range(rest) :
          table[t].group = g => [id |-> t, due |-> table[t].due] \in Range(records)

Right(g, records, rest) == RightBy(byID, groups[g], g, records, rest)

(* A list of records tells what a table says of the ids kept.              *)
Tells(records, kept, table) ==
    /\ Len(records) = Len(kept)
    /\ \A k \in 1 .. Len(kept) : records[k] = [id |-> kept[k], due |-> table[kept[k]].due]

Consumed(d) == Len(groups[grp[d]]) - Len(ids[d])

(* A dispatcher has read what one read under one lock would have, up to    *)
(* the ids it still has to read.                                           *)
InStep(d) ==
    /\ Len(ids[d]) <= Len(groups[grp[d]])
    /\ \A k \in 1 .. Len(ids[d]) : ids[d][k] = groups[grp[d]][Consumed(d) + k]
    /\ Tells(live[d], KeptBy(groups[grp[d]], Living(grp[d]))[Consumed(d)], byID)
    /\ \A k \in 2 .. Len(live[d]) : live[d][k - 1].due <= live[d][k].due

(* The task it got is the one the table has.                               *)
GotRight(d) == dpc[d] = "alive" /\ byID[Head(ids[d])].group = grp[d] =>
                   got[d] = byID[Head(ids[d])]

(* While the version is the one it read, a dispatcher has read the tasks   *)
(* of its group as they are, and all of the list if it has no strays.      *)
ScanRight(d) ==
    /\ Right(grp[d], live[d], ids[d])
    /\ GotRight(d)
    /\ Strays(grp[d]) = {} => InStep(d)

Scanning == \A d \in Dispatchers : Reading(d) /\ ver[d] = version[grp[d]] => ScanRight(d)

(* So is what is cached under the current version.                         *)
CacheRight(g) ==
    /\ cache[g].tasks # Unsorted => Right(g, cache[g].tasks, <<>>)
    /\ Strays(g) = {} => cache[g].tasks = View(g)

Cached == \A g \in Group : cache[g].version = version[g] => CacheRight(g)

(* The ids of a list of records.                                           *)
AllIn(records, S) == \A r \in Range(records) : r.id \in S

(* Whatever a call may come to send was alive since the call began, or is  *)
(* a stray of its group: what is in the table, what is cached under the    *)
(* version it read, and what another dispatcher is about to cache under it.*)
SeenBy(d) ==
    /\ Alive(byID) \subseteq lived[d]
    /\ cache[grp[d]].version = ver[d] /\ cache[grp[d]].tasks # Unsorted =>
          AllIn(cache[grp[d]].tasks, lived[d] \cup Strays(grp[d]))
    /\ \A e \in Dispatchers : Reading(e) /\ grp[e] = grp[d] /\ ver[e] = ver[d] =>
          AllIn(live[e], lived[d] \cup Strays(grp[d]))

Seen == \A d \in Dispatchers : Choosing(d) => SeenBy(d)

IInv == Types /\ Listed /\ Scanning /\ Cached /\ Seen

-----------------------------------------------------------------------------
(* Entries, lists and their elements.                                      *)

(* An entry that is not absent belongs to a group.                         *)
LEMMA EntryFields ==
  ASSUME NEW e \in Entry
  PROVE  /\ e.due \in Nat
         /\ e.group \in Group \cup {NoGroup}
         /\ e # Absent => e.group \in Group /\ e.state # "absent"
         /\ e = Absent => e.group = NoGroup /\ e.state = "absent"
BY GroupAssumption DEF Entry, Absent

(* The first element of a list, and what is left of it.                    *)
LEMMA HeadTail ==
  ASSUME NEW S, NEW q \in Seq(S), q # <<>>
  PROVE  /\ Head(q) \in S /\ Head(q) = q[1] /\ Tail(q) \in Seq(S)
         /\ Len(q) \in Nat \ {0} /\ Len(Tail(q)) = Len(q) - 1
         /\ \A k \in 1 .. Len(q) - 1 : Tail(q)[k] = q[k + 1]
  OBVIOUS

(* What is in a list.                                                      *)
LEMMA Elements ==
  ASSUME NEW S, NEW q \in Seq(S)
  PROVE  /\ Range(q) \subseteq S
         /\ \A k \in 1 .. Len(q) : q[k] \in Range(q)
         /\ \A x \in Range(q) : \E k \in 1 .. Len(q) : q[k] = x
BY DEF Range

(* In the empty list there is nothing.                                     *)
LEMMA NoElements == Range(<<>>) = {}
BY DEF Range

(* What is added to a list is in it.                                       *)
LEMMA MoreElements ==
  ASSUME NEW S, NEW q \in Seq(S), NEW x \in S
  PROVE  Range(Append(q, x)) = Range(q) \cup {x}
<1>1. /\ DOMAIN q = 1 .. Len(q) /\ Len(q) \in Nat
      /\ DOMAIN Append(q, x) = 1 .. Len(q) + 1
      /\ \A k \in 1 .. Len(q) : Append(q, x)[k] = q[k]
      /\ Append(q, x)[Len(q) + 1] = x
  OBVIOUS
<1>2. ASSUME NEW y \in Range(Append(q, x)) PROVE y \in Range(q) \cup {x}
  <2>1. PICK k \in 1 .. Len(q) + 1 : Append(q, x)[k] = y
    BY <1>1 DEF Range
  <2>2. k \in 1 .. Len(q) \/ k = Len(q) + 1
    BY <1>1
  <2> QED
    BY <1>1, <2>1, <2>2 DEF Range
<1>3. ASSUME NEW y \in Range(q) PROVE y \in Range(Append(q, x))
  <2>1. PICK k \in 1 .. Len(q) : q[k] = y
    BY <1>1 DEF Range
  <2>2. k \in 1 .. Len(q) + 1
    BY <1>1
  <2> QED
    BY <1>1, <2>1, <2>2 DEF Range
<1>4. x \in Range(Append(q, x))
  <2>1. Len(q) + 1 \in 1 .. Len(q) + 1
    BY <1>1
  <2> QED
    BY <1>1, <2>1 DEF Range
<1> QED
  BY <1>2, <1>3, <1>4

(* What is in a list is its head or in its tail.                           *)
LEMMA LessElements ==
  ASSUME NEW S, NEW q \in Seq(S), q # <<>>
  PROVE  Range(q) = Range(Tail(q)) \cup {Head(q)}
<1>1. /\ Head(q) = q[1] /\ Tail(q) \in Seq(S)
      /\ Len(q) \in Nat \ {0} /\ Len(Tail(q)) = Len(q) - 1
      /\ \A k \in 1 .. Len(q) - 1 : Tail(q)[k] = q[k + 1]
      /\ DOMAIN q = 1 .. Len(q) /\ DOMAIN Tail(q) = 1 .. Len(q) - 1
  BY HeadTail
<1>2. ASSUME NEW y \in Range(q) PROVE y \in Range(Tail(q)) \cup {Head(q)}
  <2>1. PICK k \in 1 .. Len(q) : q[k] = y
    BY <1>1 DEF Range
  <2>2. CASE k = 1
    BY <1>1, <2>1, <2>2
  <2>3. CASE k # 1
    <3>1. k - 1 \in 1 .. Len(q) - 1 /\ k - 1 + 1 = k
      BY <1>1, <2>3
    <3>2. k - 1 \in DOMAIN Tail(q) /\ Tail(q)[k - 1] = y
      BY <1>1, <2>1, <3>1
    <3> QED
      BY <3>2 DEF Range
  <2> QED
    BY <2>2, <2>3
<1>3. ASSUME NEW y \in Range(Tail(q)) PROVE y \in Range(q)
  <2>1. PICK k \in 1 .. Len(q) - 1 : Tail(q)[k] = y
    BY <1>1 DEF Range
  <2>2. k + 1 \in 1 .. Len(q)
    BY <1>1
  <2> QED
    BY <1>1, <2>1, <2>2 DEF Range
<1>4. Head(q) \in Range(q)
  BY <1>1 DEF Range
<1> QED
  BY <1>2, <1>3, <1>4

-----------------------------------------------------------------------------
(* The types.                                                              *)

RegTypes ==
    /\ byID \in [Id -> Entry] /\ incarnations \in [Id -> Nat]
    /\ groups \in [Group -> Seq(Id)] /\ version \in [Group -> Nat]
    /\ lived \in [Dispatchers -> SUBSET Id]

Cachable == [version : Int, tasks : Seq(Record) \cup {Unsorted}]

CacheTypes ==
    /\ cache \in [Group -> Cachable]
    /\ \A g \in Group : cache[g].version <= version[g]

Mutex ==
    /\ dpc \in [Dispatchers -> {"idle", "lookup", "list", "get", "alive", "send", "state"}]
    /\ mu = {d \in Dispatchers : Holds(d)}
    /\ \A d, e \in mu : d = e

LocalTypes ==
    /\ grp \in [Dispatchers -> Group \cup {NoGroup}]
    /\ ver \in [Dispatchers -> Nat]
    /\ ids \in [Dispatchers -> Seq(Id)]
    /\ got \in [Dispatchers -> Entry]
    /\ live \in [Dispatchers -> Seq(Record)]
    /\ batch \in [Dispatchers -> Seq(Record)]

Steps ==
    \A d \in Dispatchers : /\ Choosing(d) => grp[d] \in Group /\ ver[d] <= version[grp[d]]
                           /\ dpc[d] = "alive" => ids[d] # <<>>
                           /\ dpc[d] = "state" => batch[d] # <<>>

(* These are the parts of the types.                                       *)
LEMMA TypeParts ==
  /\ Types <=> RegTypes /\ CacheTypes /\ Mutex /\ LocalTypes /\ Steps
  /\ Types' <=> RegTypes' /\ CacheTypes' /\ Mutex' /\ LocalTypes' /\ Steps'
BY DEF Types, GroupsTypeOK, RegTypes, CacheTypes, Mutex, LocalTypes, Steps, Holds, Entry,
       Cachable

(* The ends of a call: with a batch to send, or with none.                 *)
LEMMA Delivered ==
  ASSUME LocalTypes, Mutex, lived \in [Dispatchers -> SUBSET Id],
         NEW d \in Dispatchers, NEW tasks \in Seq(Record) \cup {Unsorted}, Deliver(d, tasks)
  PROVE  /\ LocalTypes' /\ lived' \in [Dispatchers -> SUBSET Id]
         /\ dpc' \in {[dpc EXCEPT ![d] = "send"], [dpc EXCEPT ![d] = "idle"]}
         /\ \A e \in Dispatchers \ {d} :
               /\ dpc'[e] = dpc[e] /\ grp'[e] = grp[e] /\ ver'[e] = ver[e]
               /\ ids'[e] = ids[e] /\ got'[e] = got[e] /\ live'[e] = live[e]
               /\ batch'[e] = batch[e] /\ lived'[e] = lived[e]
         /\ dpc'[d] \in {"send", "idle"}
<1>1. /\ <<>> \in Seq(Id) /\ <<>> \in Seq(Record) /\ Absent \in Entry
  BY EmptySeq DEF Absent, Entry
<1>2. /\ grp' = [grp EXCEPT ![d] = NoGroup] /\ ver' = [ver EXCEPT ![d] = 0]
      /\ ids' = [ids EXCEPT ![d] = <<>>] /\ got' = [got EXCEPT ![d] = Absent]
      /\ live' = [live EXCEPT ![d] = <<>>] /\ lived' = [lived EXCEPT ![d] = {}]
  BY DEF Deliver
<1>3. \/ tasks # Unsorted /\ dpc' = [dpc EXCEPT ![d] = "send"]
                          /\ batch' = [batch EXCEPT ![d] = tasks]
      \/ dpc' = [dpc EXCEPT ![d] = "idle"] /\ batch' = [batch EXCEPT ![d] = <<>>]
  BY DEF Deliver
<1>4. batch' \in [Dispatchers -> Seq(Record)]
  BY <1>1, <1>3 DEF LocalTypes
<1>5. LocalTypes' /\ lived' \in [Dispatchers -> SUBSET Id]
  BY <1>1, <1>2, <1>4 DEF LocalTypes
<1>6. \A e \in Dispatchers \ {d} :
         /\ grp'[e] = grp[e] /\ ver'[e] = ver[e] /\ ids'[e] = ids[e]
         /\ got'[e] = got[e] /\ live'[e] = live[e] /\ lived'[e] = lived[e]
  BY <1>2 DEF LocalTypes
<1>7. \A e \in Dispatchers \ {d} : dpc'[e] = dpc[e] /\ batch'[e] = batch[e]
  BY <1>3 DEF LocalTypes, Mutex
<1>8. dpc'[d] \in {"send", "idle"}
  BY <1>3 DEF Mutex
<1> QED
  BY <1>3, <1>5, <1>6, <1>7, <1>8

(* A call into the registry that changes the table raises the version of   *)
(* one group.                                                              *)
LEMMA RegistryTyped ==
  ASSUME Types, NEW g \in Group, version' = [version EXCEPT ![g] = @ + 1],
         byID' \in [Id -> Entry], groups' \in [Group -> Seq(Id)],
         incarnations' \in [Id -> Nat], Lives, UNCHANGED cache
  PROVE  RegTypes' /\ CacheTypes' /\ \A h \in Group : version[h] <= version'[h]
<1>1. /\ version \in [Group -> Nat] /\ lived \in [Dispatchers -> SUBSET Id]
      /\ cache \in [Group -> Cachable] /\ \A h \in Group : cache[h].version <= version[h]
  BY TypeParts DEF RegTypes, CacheTypes
<1>2. version' \in [Group -> Nat] /\ \A h \in Group : version[h] <= version'[h]
  BY <1>1
<1>3. lived' \in [Dispatchers -> SUBSET Id]
  <2>1. Alive(byID') \subseteq Id
    BY DEF Alive
  <2> QED
    BY <1>1, <2>1 DEF Lives
<1>4. CacheTypes'
  <2>1. \A h \in Group : cache[h].version \in Int
    BY <1>1 DEF Cachable
  <2>2. \A h \in Group : cache[h].version <= version'[h]
    BY <1>1, <1>2, <2>1
  <2> QED
    BY <1>1, <2>2 DEF CacheTypes
<1> QED
  BY <1>2, <1>3, <1>4 DEF RegTypes

(* SetState changes the state of an entry, or nothing.                     *)
LEMMA SetTyped ==
  ASSUME Types, NEW t \in Id, NEW s \in {"dispatched", "done", "removed"}, SetState(t, s),
         UNCHANGED cache
  PROVE  RegTypes' /\ CacheTypes' /\ \A h \in Group : version[h] <= version'[h]
<1>0. byID \in [Id -> Entry] /\ groups \in [Group -> Seq(Id)] /\ incarnations \in [Id -> Nat]
  BY TypeParts DEF RegTypes
<1>1. CASE byID[t] = Absent
  <2>1. UNCHANGED <<byID, groups, version, incarnations, lived>>
    BY <1>1 DEF SetState, regVars
  <2> QED
    BY <2>1, TypeParts DEF RegTypes, CacheTypes
<1>2. CASE byID[t] # Absent
  <2>1. /\ byID' = [byID EXCEPT ![t].state = s]
        /\ version' = [version EXCEPT ![byID[t].group] = @ + 1]
        /\ Lives /\ UNCHANGED <<groups, incarnations>>
    BY <1>2 DEF SetState
  <2>2. byID[t].group \in Group
    BY <1>0, <1>2, EntryFields
  <2>3. [byID[t] EXCEPT !.state = s] \in Entry
    BY <1>0, <1>2 DEF Entry
  <2>4. byID' \in [Id -> Entry]
    <3>1. byID' = [byID EXCEPT ![t] = [byID[t] EXCEPT !.state = s]]
      BY <2>1
    <3> QED
      BY <1>0, <2>3, <3>1
  <2> QED
    BY <1>0, <2>1, <2>2, <2>4, RegistryTyped
<1> QED
  BY <1>1, <1>2

(* The steps of registrations and of clients keep the types.               *)
LEMMA ClientsTyped ==
  ASSUME Types,
         \/ \E t \in Id, g \in Group, due \in Dues : Register(t, g, due)
         \/ \E t \in Id : Delete(t)
         \/ \E t \in Id, s \in Final : ClientSetState(t, s)
  PROVE  Types'
<1>0. /\ byID \in [Id -> Entry] /\ incarnations \in [Id -> Nat]
      /\ groups \in [Group -> Seq(Id)] /\ version \in [Group -> Nat]
      /\ Mutex /\ LocalTypes /\ Steps
  BY TypeParts DEF RegTypes
<1>1. UNCHANGED callVars
  BY DEF Register, Delete, ClientSetState
<1>2. UNCHANGED <<cache, mu, dpc, grp, ver, ids, got, live, batch>>
  BY <1>1 DEF callVars
<1>3. Mutex' /\ LocalTypes'
  BY <1>0, <1>2 DEF Mutex, LocalTypes, Holds
<1>4. RegTypes' /\ CacheTypes' /\ \A h \in Group : version[h] <= version'[h]
  <2>1. ASSUME NEW t \in Id, NEW g \in Group, NEW due \in Dues, Register(t, g, due)
        PROVE  RegTypes' /\ CacheTypes' /\ \A h \in Group : version[h] <= version'[h]
    <3>1. byID' = [byID EXCEPT ![t] = [state |-> "pending", due |-> due, group |-> g]]
      BY <2>1 DEF Register
    <3>2. byID' \in [Id -> Entry]
      BY <1>0, <3>1, DuesAssumption DEF Entry, DuesAssumption
    <3>3. groups' \in [Group -> Seq(Id)]
      <4>1. groups' = [groups EXCEPT ![g] = Append(@, t)]
        BY <2>1 DEF Register
      <4>2. Append(groups[g], t) \in Seq(Id)
        BY <1>0
      <4> QED
        BY <1>0, <4>1, <4>2
    <3>4. incarnations' \in [Id -> Nat]
      <4>1. incarnations' = [incarnations EXCEPT ![t] =
                               IF byID[t] = Absent THEN 1
                               ELSE IF byID[t].state \in Final THEN @ + 1 ELSE @]
        BY <2>1 DEF Register
      <4> QED
        BY <1>0, <4>1
    <3>5. version' = [version EXCEPT ![g] = @ + 1] /\ Lives
      BY <2>1 DEF Register
    <3> QED
      BY <1>2, <3>2, <3>3, <3>4, <3>5, RegistryTyped
  <2>2. ASSUME NEW t \in Id, Delete(t)
        PROVE  RegTypes' /\ CacheTypes' /\ \A h \in Group : version[h] <= version'[h]
    <3> DEFINE g == byID[t].group
    <3>1. g \in Group
      BY <1>0, <2>2, EntryFields DEF Delete
    <3>2. byID' \in [Id -> Entry]
      BY <1>0, <2>2 DEF Delete, Entry
    <3>3. groups' \in [Group -> Seq(Id)]
      <4>1. /\ groups' = [groups EXCEPT ![g] = KeptBy(groups[g], Id \ {t})[Len(groups[g])]]
            /\ groups[g] \in Seq(Id) /\ Len(groups[g]) \in 0 .. Len(groups[g])
        BY <1>0, <2>2, <3>1 DEF Delete, Kept
      <4> QED
        BY <1>0, <3>1, <4>1, KeptTyped
    <3>4. version' = [version EXCEPT ![g] = @ + 1] /\ Lives /\ incarnations' = incarnations
      BY <2>2 DEF Delete
    <3> QED
      BY <1>0, <1>2, <3>1, <3>2, <3>3, <3>4, RegistryTyped
  <2>3. ASSUME NEW t \in Id, NEW s \in Final, ClientSetState(t, s)
        PROVE  RegTypes' /\ CacheTypes' /\ \A h \in Group : version[h] <= version'[h]
    <3>1. SetState(t, s) /\ s \in {"dispatched", "done", "removed"}
      BY <2>3 DEF ClientSetState, Final
    <3> QED
      BY <1>2, <3>1, SetTyped
  <2> QED
    BY <2>1, <2>2, <2>3
<1>5. Steps'
  <2>1. ASSUME NEW d \in Dispatchers, Choosing(d)
        PROVE  ver[d] <= version'[grp[d]]
    <3>1. ver[d] \in Nat /\ grp[d] \in Group /\ ver[d] <= version[grp[d]]
      BY <1>0, <2>1 DEF Steps, LocalTypes
    <3> QED
      BY <1>0, <1>4, <3>1 DEF RegTypes
  <2> QED
    BY <1>0, <1>2, <2>1 DEF Steps, Choosing
<1> QED
  BY <1>3, <1>4, <1>5, TypeParts

(* A step that does not take or give back d.mu.                            *)
LEMMA MutexSame ==
  ASSUME Mutex, mu' = mu, NEW d \in Dispatchers,
         NEW x \in {"idle", "lookup", "list", "get", "alive", "send", "state"},
         dpc' = [dpc EXCEPT ![d] = x],
         Holds(d) <=> x \in {"list", "get", "alive"}
  PROVE  Mutex'
<1>1. dpc' \in [Dispatchers -> {"idle", "lookup", "list", "get", "alive", "send", "state"}]
  BY DEF Mutex
<1>2. \A e \in Dispatchers : Holds(e)' <=> Holds(e)
  BY DEF Mutex, Holds
<1> QED
  BY <1>1, <1>2 DEF Mutex

(* Giving d.mu back.                                                       *)
LEMMA MutexLeft ==
  ASSUME Mutex, mu' = {}, NEW d \in Dispatchers, Holds(d),
         NEW x \in {"idle", "send"}, dpc' = [dpc EXCEPT ![d] = x]
  PROVE  Mutex'
<1>1. dpc' \in [Dispatchers -> {"idle", "lookup", "list", "get", "alive", "send", "state"}]
  BY DEF Mutex
<1>2. \A e \in Dispatchers : ~Holds(e)'
  BY DEF Mutex, Holds
<1> QED
  BY <1>1, <1>2 DEF Mutex

(* Taking d.mu.                                                            *)
LEMMA MutexTaken ==
  ASSUME Mutex, mu = {}, NEW d \in Dispatchers, mu' = {d}, dpc' = [dpc EXCEPT ![d] = "list"]
  PROVE  Mutex'
<1>1. dpc' \in [Dispatchers -> {"idle", "lookup", "list", "get", "alive", "send", "state"}]
  BY DEF Mutex
<1>2. \A e \in Dispatchers : Holds(e)' <=> e = d
  BY DEF Mutex, Holds
<1> QED
  BY <1>1, <1>2 DEF Mutex

(* A call that has ended is at no step that asks anything of its locals.   *)
LEMMA StepsDelivered ==
  ASSUME Steps, Mutex, LocalTypes, lived \in [Dispatchers -> SUBSET Id],
         NEW d \in Dispatchers, NEW tasks \in Seq(Record) \cup {Unsorted},
         Deliver(d, tasks), version' = version
  PROVE  Steps'
<1> SUFFICES ASSUME NEW e \in Dispatchers
             PROVE  /\ Choosing(e)' => grp'[e] \in Group /\ ver'[e] <= version[grp'[e]]
                    /\ dpc'[e] = "alive" => ids'[e] # <<>>
                    /\ dpc'[e] = "state" => batch'[e] # <<>>
  BY DEF Steps
<1>1. CASE e = d
  BY <1>1, Delivered DEF Choosing
<1>2. CASE e # d
  <2>1. /\ dpc'[e] = dpc[e] /\ grp'[e] = grp[e] /\ ver'[e] = ver[e]
        /\ ids'[e] = ids[e] /\ batch'[e] = batch[e]
    BY <1>2, Delivered
  <2> QED
    BY <2>1 DEF Steps, Choosing
<1> QED
  BY <1>1, <1>2

(* A snapshot carries the version that was read.                           *)
LEMMA SnapshotTyped ==
  ASSUME Types, NEW d \in Dispatchers, NEW tasks \in Seq(Record) \cup {Unsorted},
         Holds(d), Snapshot(d, tasks), UNCHANGED regVars
  PROVE  Types'
<1>1. /\ cache' = [cache EXCEPT ![grp[d]] = [version |-> ver[d], tasks |-> tasks]]
      /\ mu' = {} /\ Deliver(d, tasks)
      /\ UNCHANGED <<byID, groups, version, incarnations>>
  BY DEF Snapshot, SnapshotVersion, regVars
<1>2. RegTypes /\ CacheTypes /\ Mutex /\ LocalTypes /\ Steps
  BY TypeParts
<1>3. grp[d] \in Group /\ ver[d] \in Nat /\ ver[d] <= version[grp[d]]
  BY <1>2 DEF Steps, Holds, Choosing, LocalTypes
<1>4. CacheTypes'
  <2>1. [version |-> ver[d], tasks |-> tasks] \in Cachable
    BY <1>3 DEF Cachable
  <2>2. cache' \in [Group -> Cachable]
    BY <1>1, <1>2, <2>1 DEF CacheTypes
  <2>3. \A g \in Group : cache'[g].version <= version[g]
    BY <1>1, <1>2, <1>3 DEF CacheTypes
  <2> QED
    BY <1>1, <2>2, <2>3 DEF CacheTypes
<1>5. LocalTypes' /\ RegTypes'
  BY <1>1, <1>2, Delivered DEF RegTypes
<1>6. Mutex'
  BY <1>1, <1>2, Delivered, MutexLeft DEF RegTypes
<1>7. Steps'
  BY <1>1, <1>2, StepsDelivered DEF RegTypes
<1> QED
  BY <1>4, <1>5, <1>6, <1>7, TypeParts

(* The steps of a dispatch keep the types.                                 *)
LEMMA DispatchTyped ==
  ASSUME Types, NEW d \in Dispatchers, DispatchStep(d)
  PROVE  Types'
<1>0. RegTypes /\ CacheTypes /\ Mutex /\ LocalTypes /\ Steps
  BY TypeParts
<1> USE DEF regVars
<1>1. ASSUME NEW g \in Group, ReadVersion(d, g) PROVE Types'
  <2>1. RegTypes' /\ CacheTypes'
    BY <1>0, <1>1 DEF ReadVersion, RegTypes, CacheTypes, Alive
  <2>2. LocalTypes'
    BY <1>0, <1>1 DEF ReadVersion, LocalTypes, RegTypes
  <2>3. Mutex'
    BY <1>0, <1>1, MutexSame DEF ReadVersion, Holds
  <2>4. Steps'
    <3>1. version[g] \in Nat /\ version' = version
      BY <1>0, <1>1 DEF ReadVersion, RegTypes
    <3>2. ver'[d] <= version'[g] /\ grp'[d] = g /\ dpc'[d] = "lookup"
      BY <1>0, <1>1, <3>1 DEF ReadVersion, LocalTypes, Mutex
    <3>3. \A e \in Dispatchers \ {d} :
             dpc'[e] = dpc[e] /\ grp'[e] = grp[e] /\ ver'[e] = ver[e]
      BY <1>0, <1>1 DEF ReadVersion, LocalTypes, Mutex
    <3>4. UNCHANGED <<ids, batch>>
      BY <1>1 DEF ReadVersion
    <3> QED
      BY <1>0, <3>1, <3>2, <3>3, <3>4 DEF Steps, Choosing
  <2> QED
    BY <2>1, <2>2, <2>3, <2>4, TypeParts
<1>2. CASE Lookup(d)
  <2>0. /\ UNCHANGED <<byID, groups, version, incarnations>>
        /\ dpc[d] = "lookup" /\ mu = {}
    BY <1>2 DEF Lookup, MuFree
  <2>a. grp[d] \in Group
    BY <1>0, <2>0 DEF Steps, Choosing
  <2>1. CASE Current(d)
    <3>1. Deliver(d, cache[grp[d]].tasks) /\ cache' = cache /\ mu' = mu
      BY <1>2, <2>1 DEF Lookup
    <3>2. cache[grp[d]].tasks \in Seq(Record) \cup {Unsorted}
      BY <1>0, <2>a DEF CacheTypes, Cachable
    <3>3. LocalTypes' /\ RegTypes' /\ CacheTypes'
      BY <1>0, <2>0, <3>1, <3>2, Delivered DEF RegTypes, CacheTypes
    <3>4. Mutex'
      BY <1>0, <2>0, <3>1, <3>2, Delivered, MutexSame DEF RegTypes, Holds
    <3>5. Steps'
      BY <1>0, <2>0, <3>1, <3>2, StepsDelivered DEF RegTypes
    <3> QED
      BY <3>3, <3>4, <3>5, TypeParts
  <2>2. CASE ~Current(d)
    <3>1. /\ cache' = [cache EXCEPT ![grp[d]] = NoEntry] /\ mu' = {d}
          /\ dpc' = [dpc EXCEPT ![d] = "list"]
          /\ UNCHANGED <<grp, batch, ver, ids, got, live, lived>>
      BY <1>2, <2>2 DEF Lookup
    <3>2. CacheTypes'
      <4>1. NoEntry \in Cachable /\ NoEntry.version = -1
        BY EmptySeq DEF Cachable, NoEntry
      <4>2. cache' \in [Group -> Cachable]
        BY <1>0, <3>1, <4>1 DEF CacheTypes
      <4>3. \A g \in Group : cache'[g].version <= version[g]
        BY <1>0, <3>1, <4>1 DEF CacheTypes, RegTypes
      <4> QED
        BY <2>0, <4>2, <4>3 DEF CacheTypes
    <3>3. LocalTypes' /\ RegTypes'
      BY <1>0, <2>0, <3>1 DEF LocalTypes, RegTypes
    <3>4. Mutex'
      BY <1>0, <2>0, <3>1, MutexTaken
    <3>5. Steps'
      BY <1>0, <2>0, <3>1 DEF Steps, Mutex, Choosing
    <3> QED
      BY <3>2, <3>3, <3>4, <3>5, TypeParts
  <2> QED
    BY <2>1, <2>2
<1>3. CASE ListGroup(d)
  <2>0. /\ UNCHANGED <<byID, groups, version, incarnations, lived>>
        /\ UNCHANGED <<cache, mu, grp, ver, got, batch>>
        /\ dpc[d] = "list" /\ grp[d] \in Group /\ groups[grp[d]] \in Seq(Id)
        /\ ids' = [ids EXCEPT ![d] = groups[grp[d]]] /\ live' = [live EXCEPT ![d] = <<>>]
        /\ dpc' = [dpc EXCEPT ![d] = "get"]
    BY <1>0, <1>3 DEF ListGroup, Steps, Choosing, RegTypes
  <2>1. RegTypes' /\ CacheTypes'
    BY <1>0, <2>0 DEF RegTypes, CacheTypes
  <2>2. LocalTypes'
    BY <1>0, <2>0, EmptySeq DEF LocalTypes
  <2>3. Mutex'
    BY <1>0, <2>0, MutexSame DEF Holds
  <2>4. Steps'
    BY <1>0, <2>0 DEF Steps, Mutex, LocalTypes, Choosing
  <2> QED
    BY <2>1, <2>2, <2>3, <2>4, TypeParts
<1>4. CASE Get(d)
  <2>0. /\ ids[d] \in Seq(Id) /\ ids[d] # <<>> /\ dpc[d] = "get"
        /\ UNCHANGED <<byID, groups, version, incarnations, lived>>
        /\ UNCHANGED <<cache, mu, grp, ver, live, batch>>
    BY <1>0, <1>4 DEF Get, LocalTypes
  <2>a. Head(ids[d]) \in Id /\ Tail(ids[d]) \in Seq(Id)
    BY <2>0, HeadTail
  <2>1. RegTypes' /\ CacheTypes'
    BY <1>0, <2>0 DEF RegTypes, CacheTypes
  <2>2. CASE byID[Head(ids[d])] = Absent
    <3>1. ids' = [ids EXCEPT ![d] = Tail(@)] /\ UNCHANGED <<dpc, got>>
      BY <1>4, <2>2 DEF Get
    <3>2. LocalTypes' /\ Mutex'
      BY <1>0, <2>0, <2>a, <3>1 DEF LocalTypes, Mutex, Holds
    <3>3. Steps'
      BY <1>0, <2>0, <3>1 DEF Steps, Choosing, LocalTypes
    <3> QED
      BY <2>1, <3>2, <3>3, TypeParts
  <2>3. CASE byID[Head(ids[d])] # Absent
    <3>1. /\ got' = [got EXCEPT ![d] = byID[Head(ids[d])]]
          /\ dpc' = [dpc EXCEPT ![d] = "alive"] /\ UNCHANGED ids
      BY <1>4, <2>3 DEF Get
    <3>2. LocalTypes'
      BY <1>0, <2>0, <2>a, <3>1 DEF LocalTypes, RegTypes
    <3>3. Mutex'
      BY <1>0, <2>0, <3>1, MutexSame DEF Holds
    <3>4. Steps'
      BY <1>0, <2>0, <3>1 DEF Steps, Mutex, Choosing
    <3> QED
      BY <2>1, <3>2, <3>3, <3>4, TypeParts
  <2> QED
    BY <2>2, <2>3
<1>5. CASE CheckAlive(d)
  <2>0. /\ ids[d] \in Seq(Id) /\ ids[d] # <<>> /\ dpc[d] = "alive" /\ Holds(d)
        /\ UNCHANGED <<byID, groups, version, incarnations>>
    BY <1>0, <1>5 DEF CheckAlive, LocalTypes, Steps, Holds
  <2>a. Head(ids[d]) \in Id /\ Tail(ids[d]) \in Seq(Id)
    BY <2>0, HeadTail
  <2>1. CASE Snapshot(d, Unsorted)
    BY <2>0, <2>1, SnapshotTyped
  <2>2. CASE ~Snapshot(d, Unsorted)
    <3> DEFINE r == [id |-> Head(ids[d]), due |-> got[d].due]
    <3>1. /\ UNCHANGED <<cache, mu, grp, batch, ver, got, lived>>
          /\ ids' = [ids EXCEPT ![d] = Tail(@)]
          /\ dpc' = [dpc EXCEPT ![d] = "get"]
          /\ live' = [live EXCEPT ![d] = IF Head(ids[d]) \notin Alive(byID) THEN @
                                         ELSE Append(@, r)]
      BY <1>5, <2>2 DEF CheckAlive
    <3>2. r \in Record
      <4>1. got[d].due \in Nat
        BY <1>0, EntryFields DEF LocalTypes
      <4> QED
        BY <2>a, <4>1 DEF Record
    <3> HIDE DEF r
    <3>3. live' \in [Dispatchers -> Seq(Record)]
      <4>1. live \in [Dispatchers -> Seq(Record)] /\ Append(live[d], r) \in Seq(Record)
        BY <1>0, <3>2 DEF LocalTypes
      <4> QED
        BY <3>1, <4>1
    <3>4. LocalTypes'
      BY <1>0, <2>0, <2>a, <3>1, <3>3 DEF LocalTypes
    <3>5. Mutex'
      BY <1>0, <2>0, <3>1, MutexSame DEF Holds
    <3>6. Steps'
      BY <1>0, <2>0, <3>1 DEF Steps, Mutex, LocalTypes, Choosing
    <3>7. RegTypes' /\ CacheTypes'
      BY <1>0, <2>0, <3>1 DEF RegTypes, CacheTypes
    <3> QED
      BY <3>4, <3>5, <3>6, <3>7, TypeParts
  <2> QED
    BY <2>1, <2>2
<1>6. CASE ScanEnd(d)
  <2>1. live[d] \in Seq(Record) /\ Holds(d) /\ Snapshot(d, live[d]) /\ UNCHANGED regVars
    BY <1>0, <1>6 DEF ScanEnd, LocalTypes, Holds
  <2> QED
    BY <2>1, SnapshotTyped
<1>7. CASE SendFails(d) \/ HandOff(d) \/ Returns(d)
  <2>0. /\ UNCHANGED <<byID, groups, version, incarnations, lived>>
        /\ UNCHANGED <<cache, mu, grp, ver, ids, got, live>>
        /\ dpc[d] = "send" /\ batch[d] \in Seq(Record)
    BY <1>0, <1>7 DEF SendFails, HandOff, Returns, LocalTypes
  <2>1. RegTypes' /\ CacheTypes'
    BY <1>0, <2>0 DEF RegTypes, CacheTypes
  <2>2. /\ \/ dpc' = dpc
           \/ dpc' = [dpc EXCEPT ![d] = "idle"]
           \/ dpc' = [dpc EXCEPT ![d] = "state"] /\ batch[d] # <<>> /\ batch' = batch
        /\ \/ batch' = batch
           \/ batch' = [batch EXCEPT ![d] = <<>>]
           \/ batch' = [batch EXCEPT ![d] = Tail(@)] /\ batch[d] # <<>>
    BY <1>7 DEF SendFails, HandOff, Returns
  <2>3. batch' \in [Dispatchers -> Seq(Record)]
    <3>1. <<>> \in Seq(Record) /\ (batch[d] # <<>> => Tail(batch[d]) \in Seq(Record))
      BY <2>0, HeadTail, EmptySeq
    <3> QED
      BY <1>0, <2>2, <3>1 DEF LocalTypes
  <2>4. LocalTypes'
    BY <1>0, <2>0, <2>3 DEF LocalTypes
  <2>5. Mutex'
    <3>1. CASE dpc' = dpc
      BY <1>0, <2>0, <3>1 DEF Mutex, Holds
    <3>2. CASE dpc' # dpc
      BY <1>0, <2>0, <2>2, <3>2, MutexSame DEF Holds
    <3> QED
      BY <3>1, <3>2
  <2>6. Steps'
    BY <1>0, <2>0, <2>2 DEF Steps, Mutex, LocalTypes, Choosing
  <2> QED
    BY <2>1, <2>4, <2>5, <2>6, TypeParts
<1>8. CASE MarkState(d)
  <2>0. /\ UNCHANGED <<cache, mu, grp, ver, ids, got, live>>
        /\ dpc[d] = "state" /\ batch[d] \in Seq(Record) /\ batch[d] # <<>>
        /\ batch' = [batch EXCEPT ![d] = Tail(@)] /\ dpc' = [dpc EXCEPT ![d] = "send"]
        /\ SetState(Head(batch[d]).id, "dispatched")
    BY <1>0, <1>8 DEF MarkState, LocalTypes, Steps
  <2>1. Head(batch[d]).id \in Id /\ Tail(batch[d]) \in Seq(Record)
    <3>1. Head(batch[d]) \in Record /\ Tail(batch[d]) \in Seq(Record)
      BY <2>0, HeadTail
    <3> QED
      BY <3>1 DEF Record
  <2>2. RegTypes' /\ CacheTypes' /\ \A h \in Group : version[h] <= version'[h]
    BY <2>0, <2>1, SetTyped
  <2>3. LocalTypes'
    BY <1>0, <2>0, <2>1 DEF LocalTypes
  <2>4. Mutex'
    BY <1>0, <2>0, MutexSame DEF Holds
  <2>5. Steps'
    <3>1. ASSUME NEW e \in Dispatchers, Choosing(e)'
          PROVE  grp[e] \in Group /\ ver[e] <= version'[grp[e]]
      <4>1. Choosing(e)
        BY <1>0, <2>0, <3>1 DEF Choosing, Mutex
      <4>2. grp[e] \in Group /\ ver[e] \in Nat /\ ver[e] <= version[grp[e]]
        BY <1>0, <4>1 DEF Steps, LocalTypes
      <4> QED
        BY <1>0, <2>2, <4>2 DEF RegTypes
    <3> QED
      BY <1>0, <2>0, <3>1 DEF Steps, Mutex, LocalTypes
  <2> QED
    BY <2>2, <2>3, <2>4, <2>5, TypeParts
<1> QED
  BY <1>1, <1>2, <1>3, <1>4, <1>5, <1>6, <1>7, <1>8 DEF DispatchStep

(* Every step keeps the types.                                             *)
LEMMA TypesStep == Types /\ [GroupsNext]_groupsVars => Types'
<1> SUFFICES ASSUME Types, [GroupsNext]_groupsVars PROVE Types'
  OBVIOUS
<1>1. CASE UNCHANGED groupsVars
  BY <1>1 DEF groupsVars, regVars, callVars, Types, GroupsTypeOK, Choosing
<1> QED
  BY <1>1, ClientsTyped, DispatchTyped DEF GroupsNext

-----------------------------------------------------------------------------
(* What a read of the whole group gives.                                   *)

(* The ids of a group that are alive are ids.                              *)
LEMMA AliveList ==
  ASSUME Types, NEW g \in Group
  PROVE  /\ groups[g] \in Seq(Id) /\ byID \in [Id -> Entry] /\ Len(groups[g]) \in Nat
         /\ \A n \in 0 .. Len(groups[g]) :
               /\ KeptBy(groups[g], Living(g))[n] \in Seq(Id)
               /\ \A k \in 1 .. Len(KeptBy(groups[g], Living(g))[n]) :
                     KeptBy(groups[g], Living(g))[n][k] \in Living(g)
<1>1. groups[g] \in Seq(Id) /\ byID \in [Id -> Entry]
  BY TypeParts DEF RegTypes
<1> QED
  BY <1>1, KeptTyped

(* What a view is.                                                         *)
LEMMA ViewIs ==
  ASSUME NEW g
  PROVE  LET alive == Kept(groups[g], Living(g))
         IN  View(g) = IF \E k \in 2 .. Len(alive) : byID[alive[k]].due < byID[alive[k - 1]].due
                       THEN Unsorted
                       ELSE [k \in 1 .. Len(alive) |->
                               [id |-> alive[k], due |-> byID[alive[k]].due]]
BY DEF View, AliveIds, RecordOf, Living

(* A dispatcher that has read the whole group, in order of due times, has  *)
(* its view.                                                               *)
LEMMA ViewRead ==
  ASSUME Types, NEW g \in Group, NEW records \in Seq(Record),
         Tells(records, Kept(groups[g], Living(g)), byID),
         \A k \in 2 .. Len(records) : records[k - 1].due <= records[k].due
  PROVE  View(g) = records
<1> DEFINE alive == Kept(groups[g], Living(g))
<1>1. alive \in Seq(Id) /\ byID \in [Id -> Entry]
  BY AliveList DEF Kept
<1>2. /\ Len(records) = Len(alive)
      /\ \A k \in 1 .. Len(alive) : records[k] = [id |-> alive[k], due |-> byID[alive[k]].due]
  BY DEF Tells
<1>3. View(g) = IF \E k \in 2 .. Len(alive) : byID[alive[k]].due < byID[alive[k - 1]].due
                THEN Unsorted
                ELSE [k \in 1 .. Len(alive) |-> [id |-> alive[k], due |-> byID[alive[k]].due]]
  BY ViewIs
<1> HIDE DEF alive
<1>4. ASSUME NEW k \in 2 .. Len(alive) PROVE ~(byID[alive[k]].due < byID[alive[k - 1]].due)
  <2>1. k \in 1 .. Len(alive) /\ k - 1 \in 1 .. Len(alive) /\ k \in 2 .. Len(records)
    BY <1>1, <1>2
  <2>2. alive[k] \in Id /\ alive[k - 1] \in Id
    BY <1>1, <2>1
  <2>3. byID[alive[k]].due \in Nat /\ byID[alive[k - 1]].due \in Nat
    BY <1>1, <2>2, EntryFields
  <2>4. records[k - 1].due <= records[k].due
    BY <2>1
  <2>5. /\ records[k] = [id |-> alive[k], due |-> byID[alive[k]].due]
        /\ records[k - 1] = [id |-> alive[k - 1], due |-> byID[alive[k - 1]].due]
    BY <1>2, <2>1
  <2> QED
    BY <2>3, <2>4, <2>5
<1>5. records = [k \in 1 .. Len(records) |-> records[k]]
  OBVIOUS
<1> QED
  BY <1>2, <1>3, <1>4, <1>5

(* A task due before the one kept before it leaves the group unsorted.     *)
LEMMA ViewUnsorted ==
  ASSUME NEW g \in Group, NEW k \in 2 .. Len(Kept(groups[g], Living(g))),
         byID[Kept(groups[g], Living(g))[k]].due < byID[Kept(groups[g], Living(g))[k - 1]].due
  PROVE  View(g) = Unsorted
<1> DEFINE alive == Kept(groups[g], Living(g))
<1>1. View(g) = IF \E l \in 2 .. Len(alive) : byID[alive[l]].due < byID[alive[l - 1]].due
                THEN Unsorted
                ELSE [l \in 1 .. Len(alive) |-> [id |-> alive[l], due |-> byID[alive[l]].due]]
  BY ViewIs
<1> HIDE DEF alive
<1>2. k \in 2 .. Len(alive) /\ byID[alive[k]].due < byID[alive[k - 1]].due
  BY DEF alive
<1> QED
  BY <1>1, <1>2

-----------------------------------------------------------------------------
(* The scan.                                                               *)

(* The group that a dispatcher reads.                                      *)
LEMMA ReadsGroup ==
  ASSUME Types, NEW d \in Dispatchers, Reading(d)
  PROVE  /\ grp[d] \in Group /\ ids[d] \in Seq(Id) /\ live[d] \in Seq(Record)
         /\ got[d] \in Entry /\ (dpc[d] = "alive" => ids[d] # <<>>)
BY TypeParts DEF Reading, Steps, Choosing, LocalTypes

(* The next id to read, and what the loop keeps of it.                     *)
LEMMA NextRead ==
  ASSUME Types, NEW d \in Dispatchers, Reading(d), InStep(d), ids[d] # <<>>
  PROVE  LET n == Consumed(d)
             list == groups[grp[d]]
             kept == KeptBy(list, Living(grp[d]))
         IN  /\ n \in 0 .. Len(list) - 1 /\ list[n + 1] = Head(ids[d])
             /\ kept[n + 1] = IF Head(ids[d]) \in Alive(byID)
                              THEN Append(kept[n], Head(ids[d])) ELSE kept[n]
             /\ Len(list) - Len(Tail(ids[d])) = n + 1
             /\ Len(Tail(ids[d])) <= Len(list)
             /\ \A k \in 1 .. Len(Tail(ids[d])) : Tail(ids[d])[k] = list[n + 1 + k]
<1> DEFINE n == Consumed(d)
           q == ids[d]
           list == groups[grp[d]]
           S == Living(grp[d])
           kept == KeptBy(list, S)
<1>1. q \in Seq(Id) /\ q # <<>> /\ Len(list) \in Nat /\ list \in Seq(Id)
  BY AliveList, ReadsGroup
<1>2. /\ Len(q) <= Len(list) /\ n = Len(list) - Len(q)
      /\ \A k \in 1 .. Len(q) : q[k] = list[n + k]
  BY DEF InStep, Consumed
<1>3. \A m \in 0 .. Len(list) - 1 : kept[m + 1] = Turn(list, S, m + 1, kept[m])
  BY <1>1, KeptTurns
<1>s. S = Range(list) \cap Alive(byID)
  BY DEF Living
<1> HIDE DEF n, q, kept, S, list
<1>4. /\ Head(q) = q[1] /\ Len(q) \in Nat \ {0} /\ Len(Tail(q)) = Len(q) - 1
      /\ \A k \in 1 .. Len(q) - 1 : Tail(q)[k] = q[k + 1]
  BY <1>1, HeadTail
<1>5. n \in 0 .. Len(list) - 1 /\ list[n + 1] = Head(q)
  BY <1>1, <1>2, <1>4
<1>6. kept[n + 1] = IF Head(q) \in Alive(byID) THEN Append(kept[n], Head(q)) ELSE kept[n]
  <2>1. n + 1 \in 1 .. Len(list)
    BY <1>1, <1>5
  <2>2. Head(q) \in Range(list)
    BY <1>1, <1>5, <2>1, Elements
  <2> QED
    BY <1>3, <1>5, <1>s, <2>2 DEF Turn
<1>7. Len(list) - Len(Tail(q)) = n + 1 /\ Len(Tail(q)) <= Len(list)
  BY <1>1, <1>2, <1>4
<1>8. ASSUME NEW k \in 1 .. Len(Tail(q)) PROVE Tail(q)[k] = list[n + 1 + k]
  <2>1. k + 1 \in 1 .. Len(q) /\ k \in 1 .. Len(q) - 1 /\ n + (k + 1) = n + 1 + k
    BY <1>1, <1>2, <1>4
  <2> QED
    BY <1>2, <1>4, <2>1
<1> QED
  BY <1>5, <1>6, <1>7, <1>8 DEF n, q, kept, S, list

(* A dispatcher whose part is left alone stays in step.                    *)
LEMMA InStepKept ==
  ASSUME NEW d \in Dispatchers, InStep(d), UNCHANGED <<byID, groups>>,
         grp'[d] = grp[d], ids'[d] = ids[d], live'[d] = live[d]
  PROVE  InStep(d)'
<1>1. Consumed(d)' = Consumed(d) /\ Living(grp[d])' = Living(grp[d])
  BY DEF Consumed, Living
<1>2. KeptBy(groups[grp[d]], Living(grp[d]))' = KeptBy(groups[grp[d]], Living(grp[d]))
  BY <1>1
<1>3. Tells(live[d], KeptBy(groups[grp[d]], Living(grp[d]))[Consumed(d)], byID)'
  <2>1. Tells(live[d], KeptBy(groups[grp[d]], Living(grp[d]))[Consumed(d)], byID)
    BY DEF InStep
  <2> QED
    BY <1>1, <1>2, <2>1
<1> QED
  BY <1>1, <1>3 DEF InStep

(* An id whose task is gone or not alive is passed over.                   *)
LEMMA InStepPasses ==
  ASSUME Types, NEW d \in Dispatchers, Reading(d), InStep(d), ids[d] # <<>>,
         Head(ids[d]) \notin Alive(byID), UNCHANGED <<byID, groups>>,
         grp'[d] = grp[d], ids'[d] = Tail(ids[d]), live'[d] = live[d]
  PROVE  InStep(d)'
<1> DEFINE n == Consumed(d)
           list == groups[grp[d]]
           kept == KeptBy(list, Living(grp[d]))
<1>1. /\ kept[n + 1] = kept[n] /\ Consumed(d)' = n + 1
      /\ Len(Tail(ids[d])) <= Len(list)
      /\ \A k \in 1 .. Len(Tail(ids[d])) : Tail(ids[d])[k] = list[n + 1 + k]
  BY NextRead DEF Consumed
<1>2. KeptBy(groups[grp[d]], Living(grp[d]))' = kept
  BY DEF Living
<1>3. Tells(live[d], kept[n], byID) /\ \A k \in 2 .. Len(live[d]) : live[d][k - 1].due <= live[d][k].due
  BY DEF InStep
<1>4. Tells(live[d], KeptBy(groups[grp[d]], Living(grp[d]))[Consumed(d)], byID)'
  <2>1. KeptBy(groups[grp[d]], Living(grp[d]))'[Consumed(d)'] = kept[n]
    BY <1>1, <1>2
  <2> HIDE DEF n, list, kept
  <2> QED
    BY <1>3, <2>1
<1> QED
  BY <1>1, <1>3, <1>4 DEF InStep

(* An alive task that is not due before the last one is kept.              *)
LEMMA InStepAppends ==
  ASSUME Types, NEW d \in Dispatchers, Reading(d), InStep(d), ids[d] # <<>>,
         Head(ids[d]) \in Alive(byID), UNCHANGED <<byID, groups>>,
         grp'[d] = grp[d], ids'[d] = Tail(ids[d]), got[d] = byID[Head(ids[d])],
         live'[d] = Append(live[d], [id |-> Head(ids[d]), due |-> got[d].due]),
         ~(live[d] # <<>> /\ got[d].due < Last(live[d]).due)
  PROVE  InStep(d)'
<1> DEFINE n == Consumed(d)
           list == groups[grp[d]]
           kept == KeptBy(list, Living(grp[d]))
           t == Head(ids[d])
           r == [id |-> t, due |-> got[d].due]
           l == live[d]
           b == kept[n]
<1>1. /\ kept[n + 1] = Append(b, t) /\ Consumed(d)' = n + 1
      /\ Len(Tail(ids[d])) <= Len(list) /\ n \in 0 .. Len(list) - 1
      /\ \A k \in 1 .. Len(Tail(ids[d])) : Tail(ids[d])[k] = list[n + 1 + k]
  BY NextRead DEF Consumed
<1>2. KeptBy(groups[grp[d]], Living(grp[d]))' = kept
  BY DEF Living
<1>3. Tells(l, b, byID) /\ \A k \in 2 .. Len(l) : l[k - 1].due <= l[k].due
  BY DEF InStep
<1>4. /\ l \in Seq(Record) /\ t \in Id /\ r \in Record /\ got[d].due \in Nat
      /\ byID[t].due = got[d].due
  <2>1. l \in Seq(Record) /\ t \in Id /\ got[d] \in Entry
    BY ReadsGroup, HeadTail
  <2>2. got[d].due \in Nat
    BY <2>1, EntryFields
  <2> QED
    BY <2>1, <2>2 DEF Record
<1>5. b \in Seq(Id)
  <2>1. grp[d] \in Group /\ Len(list) \in Nat
    BY ReadsGroup, AliveList
  <2>2. n \in 0 .. Len(list)
    BY <1>1, <2>1
  <2> QED
    BY <2>1, <2>2, AliveList
<1>6. live'[d] = Append(l, r) /\ byID' = byID
  OBVIOUS
<1>7. r = [id |-> t, due |-> byID[t].due] /\ r.due = got[d].due
  BY <1>4
<1>8. l # <<>> => l[Len(l)].due <= r.due
  <2> SUFFICES ASSUME l # <<>> PROVE l[Len(l)].due <= r.due
    OBVIOUS
  <2>1. Len(l) \in 1 .. Len(l) /\ Last(l) = l[Len(l)]
    BY <1>4, HeadTail DEF Last
  <2>2. l[Len(l)] \in Record
    BY <1>4, <2>1
  <2>3. l[Len(l)].due \in Nat
    BY <2>2 DEF Record
  <2>4. ~(got[d].due < Last(l).due)
    OBVIOUS
  <2> QED
    BY <1>4, <1>7, <2>1, <2>3, <2>4
<1> HIDE DEF n, list, kept, t, r, l, b
<1>9. /\ Len(Append(l, r)) = Len(l) + 1 /\ Len(l) \in Nat
      /\ \A k \in 1 .. Len(l) + 1 : Append(l, r)[k] = IF k = Len(l) + 1 THEN r ELSE l[k]
  BY <1>4
<1>10. /\ Len(Append(b, t)) = Len(b) + 1 /\ Len(b) \in Nat
       /\ \A k \in 1 .. Len(b) + 1 : Append(b, t)[k] = IF k = Len(b) + 1 THEN t ELSE b[k]
  BY <1>4, <1>5
<1>11. Tells(Append(l, r), Append(b, t), byID)
  <2>1. Len(l) = Len(b) /\ \A k \in 1 .. Len(b) : l[k] = [id |-> b[k], due |-> byID[b[k]].due]
    BY <1>3 DEF Tells
  <2>2. Len(Append(l, r)) = Len(Append(b, t))
    BY <1>9, <1>10, <2>1
  <2>3. ASSUME NEW k \in 1 .. Len(b) + 1
        PROVE  Append(l, r)[k] = [id |-> Append(b, t)[k], due |-> byID[Append(b, t)[k]].due]
    <3>1. CASE k = Len(b) + 1
      BY <1>7, <1>9, <1>10, <2>1, <3>1
    <3>2. CASE k # Len(b) + 1
      <4>1. k \in 1 .. Len(b)
        BY <1>10, <3>2
      <4> QED
        BY <1>9, <1>10, <2>1, <3>2, <4>1
    <3> QED
      BY <3>1, <3>2
  <2> QED
    BY <1>10, <2>2, <2>3 DEF Tells
<1>12. \A k \in 2 .. Len(l) + 1 : Append(l, r)[k - 1].due <= Append(l, r)[k].due
  <2> SUFFICES ASSUME NEW k \in 2 .. Len(l) + 1
               PROVE  Append(l, r)[k - 1].due <= Append(l, r)[k].due
    OBVIOUS
  <2>1. CASE k = Len(l) + 1
    <3>1. k - 1 = Len(l) /\ k - 1 \in 1 .. Len(l) /\ l # <<>>
      BY <1>4, <1>9, <2>1
    <3> QED
      BY <1>8, <1>9, <2>1, <3>1
  <2>2. CASE k # Len(l) + 1
    <3>1. k \in 2 .. Len(l) /\ k - 1 \in 1 .. Len(l)
      BY <1>9, <2>2
    <3> QED
      BY <1>3, <1>9, <2>2, <3>1
  <2> QED
    BY <2>1, <2>2
<1>13. Tells(live[d], KeptBy(groups[grp[d]], Living(grp[d]))[Consumed(d)], byID)'
  <2>1. KeptBy(groups[grp[d]], Living(grp[d]))'[Consumed(d)'] = Append(b, t)
    BY <1>1, <1>2
  <2>2. Tells(Append(l, r), Append(b, t), byID')
    BY <1>6, <1>11
  <2> QED
    BY <1>6, <2>1, <2>2
<1> QED
  BY <1>1, <1>6, <1>9, <1>12, <1>13 DEF InStep, n, list

(* A task due before the last one read makes the view unsorted.            *)
LEMMA UnsortedFound ==
  ASSUME Types, NEW d \in Dispatchers, Reading(d), InStep(d), ids[d] # <<>>,
         Head(ids[d]) \in Alive(byID), got[d] = byID[Head(ids[d])],
         live[d] # <<>>, got[d].due < Last(live[d]).due
  PROVE  View(grp[d]) = Unsorted
<1> DEFINE n == Consumed(d)
           list == groups[grp[d]]
           kept == KeptBy(list, Living(grp[d]))
           t == Head(ids[d])
           l == live[d]
           b == kept[n]
           all == Kept(list, Living(grp[d]))
<1>1. kept[n + 1] = Append(b, t) /\ n \in 0 .. Len(list) - 1
  BY NextRead
<1>0. grp[d] \in Group
  BY ReadsGroup
<1>2. /\ Len(list) \in Nat /\ list \in Seq(Id) /\ all = kept[Len(list)] /\ all \in Seq(Id)
  BY <1>0, AliveList DEF Kept
<1>3. b \in Seq(Id) /\ t \in Id /\ l \in Seq(Record)
  <2>1. b \in Seq(Id)
    <3>1. n \in 0 .. Len(list)
      BY <1>1, <1>2
    <3> QED
      BY <1>0, <3>1, AliveList
  <2>2. l \in Seq(Record) /\ ids[d] \in Seq(Id)
    BY ReadsGroup
  <2>3. t \in Id
    BY <2>2, HeadTail
  <2> QED
    BY <2>1, <2>2, <2>3
<1>4. /\ Len(kept[n + 1]) <= Len(kept[Len(list)])
      /\ \A k \in 1 .. Len(kept[n + 1]) : kept[Len(list)][k] = kept[n + 1][k]
  <2> DEFINE S == Living(grp[d])
  <2>1. list \in Seq(Id) /\ n + 1 \in 0 .. Len(list) /\ Len(list) \in n + 1 .. Len(list)
    <3> HIDE DEF n
    <3> QED
      BY <1>1, <1>2
  <2>2. kept = KeptBy(list, S)
    OBVIOUS
  <2> HIDE DEF n, list, kept, S
  <2>3. /\ Len(KeptBy(list, S)[n + 1]) <= Len(KeptBy(list, S)[Len(list)])
        /\ \A k \in 1 .. Len(KeptBy(list, S)[n + 1]) :
              KeptBy(list, S)[Len(list)][k] = KeptBy(list, S)[n + 1][k]
    <3>1. \A a \in 0 .. Len(list) : \A c \in a .. Len(list) :
             /\ Len(KeptBy(list, S)[a]) <= Len(KeptBy(list, S)[c])
             /\ \A k \in 1 .. Len(KeptBy(list, S)[a]) :
                   KeptBy(list, S)[c][k] = KeptBy(list, S)[a][k]
      BY <2>1, KeptStays
    <3> DEFINE m == n + 1
    <3>2. m \in 0 .. Len(list) /\ Len(list) \in m .. Len(list)
      BY <2>1
    <3> HIDE DEF m
    <3>3. /\ Len(KeptBy(list, S)[m]) <= Len(KeptBy(list, S)[Len(list)])
          /\ \A k \in 1 .. Len(KeptBy(list, S)[m]) :
                KeptBy(list, S)[Len(list)][k] = KeptBy(list, S)[m][k]
      BY <3>1, <3>2
    <3> QED
      BY <3>3 DEF m
  <2> QED
    BY <2>2, <2>3
<1>5. Tells(l, b, byID)
  BY DEF InStep
<1>6. byID[t].due < Last(l).due /\ Last(l) = l[Len(l)] /\ Len(l) \in Nat \ {0}
  BY <1>3, HeadTail DEF Last
<1> HIDE DEF n, kept, t, l, b, all
<1>7. /\ Len(Append(b, t)) = Len(b) + 1 /\ Append(b, t)[Len(b) + 1] = t
      /\ \A k \in 1 .. Len(b) : Append(b, t)[k] = b[k]
  BY <1>3
<1> DEFINE k == Len(l) + 1
<1>8. Len(l) = Len(b) /\ Len(l) \in 1 .. Len(b) /\ k \in 1 .. Len(b) + 1
  BY <1>5, <1>6 DEF Tells
<1>9. all[k] = t /\ all[k - 1] = b[Len(l)] /\ k \in 2 .. Len(all)
  <2>1. k = Len(b) + 1 /\ k - 1 = Len(l) /\ k - 1 \in 1 .. Len(b) + 1
    BY <1>6, <1>8
  <2>2. all[k] = Append(b, t)[k] /\ all[k - 1] = Append(b, t)[k - 1]
    BY <1>1, <1>2, <1>4, <1>7, <1>8, <2>1
  <2>3. Len(all) \in Nat /\ Len(b) + 1 <= Len(all)
    BY <1>1, <1>2, <1>4, <1>7
  <2> QED
    BY <1>6, <1>7, <1>8, <2>1, <2>2, <2>3
<1>10. l[Len(l)].due = byID[b[Len(l)]].due
  <2>1. l[Len(l)] = [id |-> b[Len(l)], due |-> byID[b[Len(l)]].due]
    BY <1>5, <1>8 DEF Tells
  <2> QED
    BY <2>1
<1>11. byID[all[k]].due < byID[all[k - 1]].due
  BY <1>6, <1>9, <1>10
<1> HIDE DEF k
<1> QED
  BY <1>0, <1>9, <1>11, ViewUnsorted DEF all

(* A finished scan in step with the group has its view.                    *)
LEMMA ScanComplete ==
  ASSUME Types, NEW d \in Dispatchers, Reading(d), InStep(d), ids[d] = <<>>
  PROVE  View(grp[d]) = live[d]
<1>1. live[d] \in Seq(Record) /\ grp[d] \in Group /\ Len(groups[grp[d]]) \in Nat
  BY ReadsGroup, AliveList
<1>2. Consumed(d) = Len(groups[grp[d]])
  BY <1>1 DEF Consumed
<1>3. /\ Tells(live[d], Kept(groups[grp[d]], Living(grp[d])), byID)
      /\ \A k \in 2 .. Len(live[d]) : live[d][k - 1].due <= live[d][k].due
  BY <1>2 DEF InStep, Kept
<1> QED
  BY <1>1, <1>3, ViewRead

-----------------------------------------------------------------------------
(* The calls into the registry.                                            *)

RegistryCall ==
    \/ \E t \in Id, g \in Group, due \in Dues : Register(t, g, due)
    \/ \E t \in Id : Delete(t)
    \/ \E t \in Id, s \in Final : ClientSetState(t, s)
    \/ \E d \in Dispatchers : MarkState(d)

(* A group whose version a call does not raise: its list stays, and so do  *)
(* the entries of the ids that belong to it afterwards.                    *)
Stays(g) ==
    /\ version'[g] = version[g] /\ groups'[g] = groups[g]
    /\ \A t \in Id : byID'[t].group = g => byID'[t] = byID[t]

(* What was listed in a group of which it is no part goes on to be that,   *)
(* or is alive.                                                            *)
StraysStay == \A g \in Group : Strays(g) \subseteq Strays(g)' \cup Alive(byID')

(* What a call into the table does to the groups.                          *)
Moves ==
    /\ UNCHANGED <<byID, groups, version, lived>> \/ Lives
    /\ \A g \in Group : version'[g] = version[g] + 1 \/ Stays(g)
    /\ StraysStay
    /\ Listed'

(* A registration.                                                         *)
LEMMA RegisterMoves ==
  ASSUME Types, Listed, NEW t \in Id, NEW g \in Group, NEW due \in Dues, Register(t, g, due)
  PROVE  Moves
<1>0. /\ byID \in [Id -> Entry] /\ groups \in [Group -> Seq(Id)] /\ version \in [Group -> Nat]
  BY TypeParts DEF RegTypes
<1>1. /\ byID' = [byID EXCEPT ![t] = [state |-> "pending", due |-> due, group |-> g]]
      /\ groups' = [groups EXCEPT ![g] = Append(@, t)]
      /\ version' = [version EXCEPT ![g] = @ + 1] /\ Lives
  BY DEF Register
<1>2. /\ byID'[t] = [state |-> "pending", due |-> due, group |-> g]
      /\ \A u \in Id \ {t} : byID'[u] = byID[u]
      /\ groups'[g] = Append(groups[g], t) /\ version'[g] = version[g] + 1
      /\ \A h \in Group \ {g} : groups'[h] = groups[h] /\ version'[h] = version[h]
  BY <1>0, <1>1
<1>3. byID'[t].group = g /\ t \in Alive(byID')
  BY <1>2 DEF Alive
<1>4. /\ Range(groups'[g]) = Range(groups[g]) \cup {t}
      /\ \A h \in Group : Range(groups[h]) \subseteq Range(groups'[h])
      /\ \A h \in Group : Range(groups[h]) \subseteq Id
  <2>1. Range(Append(groups[g], t)) = Range(groups[g]) \cup {t}
    BY <1>0, MoreElements
  <2>2. \A h \in Group : Range(groups[h]) \subseteq Id
    BY <1>0, Elements
  <2> QED
    BY <1>2, <2>1, <2>2
<1>5. \A h \in Group : version'[h] = version[h] + 1 \/ Stays(h)
  BY <1>2, <1>3 DEF Stays
<1>6. StraysStay
  <2> SUFFICES ASSUME NEW h \in Group, NEW u \in Strays(h), u # t
               PROVE  u \in Strays(h)'
    BY <1>3 DEF StraysStay
  <2> QED
    BY <1>2, <1>4 DEF Strays
<1>7. Listed'
  <2> SUFFICES ASSUME NEW u \in Id, byID'[u] # Absent
               PROVE  u \in Range(groups'[byID'[u].group])
    BY DEF Listed
  <2>1. CASE u = t
    BY <1>3, <1>4, <2>1
  <2>2. CASE u # t
    <3>1. byID[u].group \in Group /\ u \in Range(groups[byID[u].group])
      BY <1>0, <1>2, <2>2, EntryFields DEF Listed
    <3> QED
      BY <1>2, <1>4, <2>2, <3>1
  <2> QED
    BY <2>1, <2>2
<1> QED
  BY <1>1, <1>5, <1>6, <1>7 DEF Moves

(* A deletion.                                                             *)
LEMMA DeleteMoves ==
  ASSUME Types, Listed, NEW t \in Id, Delete(t)
  PROVE  Moves
<1>0. /\ byID \in [Id -> Entry] /\ groups \in [Group -> Seq(Id)] /\ version \in [Group -> Nat]
  BY TypeParts DEF RegTypes
<1> DEFINE g == byID[t].group
<1>1. /\ byID' = [byID EXCEPT ![t] = Absent]
      /\ groups' = [groups EXCEPT ![g] = Kept(@, Id \ {t})]
      /\ version' = [version EXCEPT ![g] = @ + 1] /\ Lives /\ byID[t] # Absent
  BY DEF Delete
<1>a. g \in Group
  BY <1>0, <1>1, EntryFields
<1> HIDE DEF g
<1>2. /\ byID'[t] = Absent
      /\ \A u \in Id \ {t} : byID'[u] = byID[u]
      /\ groups'[g] = Kept(groups[g], Id \ {t}) /\ version'[g] = version[g] + 1
      /\ \A h \in Group \ {g} : groups'[h] = groups[h] /\ version'[h] = version[h]
  BY <1>0, <1>1, <1>a
<1>3. byID'[t].group = NoGroup
  BY <1>2 DEF Absent
<1>4. \A h \in Group : /\ Range(groups[h]) \subseteq Id
                       /\ Range(groups[h]) \ {t} \subseteq Range(groups'[h])
  <2> SUFFICES ASSUME NEW h \in Group
               PROVE  /\ Range(groups[h]) \subseteq Id
                      /\ Range(groups[h]) \ {t} \subseteq Range(groups'[h])
    OBVIOUS
  <2>1. groups[h] \in Seq(Id) /\ Range(groups[h]) \subseteq Id
    BY <1>0, Elements
  <2>2. \A u \in Range(groups[h]) \ {t} : u \in Range(Kept(groups[h], Id \ {t}))
    BY <2>1, KeptHas
  <2> QED
    BY <1>2, <2>1, <2>2
<1>5. \A h \in Group : version'[h] = version[h] + 1 \/ Stays(h)
  BY <1>2, <1>3, GroupAssumption DEF Stays
<1>6. StraysStay
  <2> SUFFICES ASSUME NEW h \in Group, NEW u \in Strays(h)
               PROVE  u \in Strays(h)'
    BY DEF StraysStay
  <2>1. u \in Range(groups[h]) /\ byID[u].group # h
    BY DEF Strays
  <2>2. CASE u = t
    <3>1. h # g
      BY <2>1, <2>2 DEF g
    <3> QED
      BY <1>2, <1>3, <2>1, <2>2, <3>1, GroupAssumption DEF Strays
  <2>3. CASE u # t
    BY <1>2, <1>4, <2>1, <2>3 DEF Strays
  <2> QED
    BY <2>2, <2>3
<1>7. Listed'
  <2> SUFFICES ASSUME NEW u \in Id, byID'[u] # Absent
               PROVE  u \in Range(groups'[byID'[u].group])
    BY DEF Listed
  <2>1. u # t /\ byID'[u] = byID[u]
    BY <1>2
  <2>2. byID[u].group \in Group /\ u \in Range(groups[byID[u].group])
    BY <1>0, <2>1, EntryFields DEF Listed
  <2> QED
    BY <1>4, <2>1, <2>2
<1> QED
  BY <1>1, <1>5, <1>6, <1>7 DEF Moves

(* A change of state.                                                      *)
LEMMA SetStateMoves ==
  ASSUME Types, Listed, NEW t \in Id, NEW s, SetState(t, s)
  PROVE  Moves
<1>0. /\ byID \in [Id -> Entry] /\ groups \in [Group -> Seq(Id)] /\ version \in [Group -> Nat]
  BY TypeParts DEF RegTypes
<1>1. CASE byID[t] = Absent
  <2>1. UNCHANGED <<byID, groups, version, lived>>
    BY <1>1 DEF SetState, regVars
  <2>2. \A h \in Group : Stays(h)
    BY <2>1 DEF Stays
  <2> QED
    BY <2>1, <2>2 DEF Moves, StraysStay, Strays, Listed
<1>2. CASE byID[t] # Absent
  <2> DEFINE g == byID[t].group
  <2>1. /\ byID' = [byID EXCEPT ![t].state = s]
        /\ version' = [version EXCEPT ![g] = @ + 1]
        /\ Lives /\ UNCHANGED groups
    BY <1>2 DEF SetState
  <2>a. g \in Group
    BY <1>0, <1>2, EntryFields
  <2>2. /\ byID'[t].group = g /\ version'[g] = version[g] + 1
        /\ \A u \in Id \ {t} : byID'[u] = byID[u]
        /\ \A h \in Group \ {g} : version'[h] = version[h]
    <3>1. byID[t] \in [state : {"pending", "dispatched", "done", "removed"},
                       due : Nat, group : Group]
      BY <1>0, <1>2 DEF Entry
    <3>2. byID'[t] = [byID[t] EXCEPT !.state = s]
      BY <1>0, <2>1
    <3>3. byID'[t].group = g
      BY <3>1, <3>2
    <3> QED
      BY <1>0, <2>1, <2>a, <3>3
  <2>b. \A h \in Group : Range(groups[h]) \subseteq Id
    BY <1>0, Elements
  <2>c. \A u \in Id : byID'[u].group = byID[u].group
    BY <2>2
  <2>3. \A h \in Group : version'[h] = version[h] + 1 \/ Stays(h)
    BY <2>1, <2>2 DEF Stays
  <2>4. StraysStay
    BY <2>1, <2>b, <2>c DEF StraysStay, Strays
  <2>5. Listed'
    BY <1>2, <2>1, <2>2, <2>c DEF Listed
  <2> QED
    BY <2>1, <2>3, <2>4, <2>5 DEF Moves
<1> QED
  BY <1>1, <1>2

(* What a call into the registry does, and what it leaves alone.           *)
LEMMA RegistryMoves ==
  ASSUME Types, Listed, RegistryCall
  PROVE  /\ UNCHANGED <<cache, mu, grp, ver, ids, got, live>>
         /\ \A d \in Dispatchers : Choosing(d)' = Choosing(d) /\ Reading(d)' = Reading(d)
         /\ \A d \in Dispatchers : (dpc'[d] = "alive") = (dpc[d] = "alive")
         /\ \A d \in Dispatchers : ~(Choosing(d) /\ dpc'[d] = "send")
         /\ Moves
<1>1. ASSUME UNCHANGED callVars
      PROVE  /\ UNCHANGED <<cache, mu, grp, ver, ids, got, live>>
             /\ \A d \in Dispatchers : Choosing(d)' = Choosing(d) /\ Reading(d)' = Reading(d)
             /\ \A d \in Dispatchers : (dpc'[d] = "alive") = (dpc[d] = "alive")
             /\ \A d \in Dispatchers : ~(Choosing(d) /\ dpc'[d] = "send")
  BY <1>1 DEF callVars, Choosing, Reading
<1>2. ASSUME NEW t \in Id, NEW g \in Group, NEW due \in Dues, Register(t, g, due)
      PROVE  UNCHANGED callVars /\ Moves
  BY <1>2, RegisterMoves DEF Register
<1>3. ASSUME NEW t \in Id, Delete(t)
      PROVE  UNCHANGED callVars /\ Moves
  BY <1>3, DeleteMoves DEF Delete
<1>4. ASSUME NEW t \in Id, NEW s \in Final, ClientSetState(t, s)
      PROVE  UNCHANGED callVars /\ Moves
  BY <1>4, SetStateMoves DEF ClientSetState
<1>5. ASSUME NEW d \in Dispatchers, MarkState(d)
      PROVE  /\ UNCHANGED <<cache, mu, grp, ver, ids, got, live>>
             /\ \A e \in Dispatchers : Choosing(e)' = Choosing(e) /\ Reading(e)' = Reading(e)
             /\ \A e \in Dispatchers : (dpc'[e] = "alive") = (dpc[e] = "alive")
             /\ \A e \in Dispatchers : ~(Choosing(e) /\ dpc'[e] = "send")
             /\ Moves
  <2>0. Mutex /\ LocalTypes /\ Steps
    BY TypeParts
  <2>1. /\ batch[d] \in Seq(Record) /\ batch[d] # <<>> /\ dpc[d] = "state"
        /\ dpc' = [dpc EXCEPT ![d] = "send"]
        /\ UNCHANGED <<cache, mu, grp, ver, ids, got, live>>
        /\ SetState(Head(batch[d]).id, "dispatched")
    BY <1>5, <2>0 DEF MarkState, LocalTypes, Steps
  <2>2. Head(batch[d]).id \in Id
    <3>1. Head(batch[d]) \in Record
      BY <2>1, HeadTail
    <3> QED
      BY <3>1 DEF Record
  <2>3. Moves
    BY <2>1, <2>2, SetStateMoves
  <2> QED
    BY <2>0, <2>1, <2>3 DEF Choosing, Reading, Mutex
<1>6. CASE \E d \in Dispatchers : MarkState(d)
  BY <1>5, <1>6
<1>7. CASE ~(\E d \in Dispatchers : MarkState(d))
  BY <1>1, <1>2, <1>3, <1>4, <1>7 DEF RegistryCall
<1> QED
  BY <1>6, <1>7

(* Records that are right stay so when the table has what it had of each   *)
(* id that belongs to the group afterwards.                                *)
LEMMA RightStays ==
  ASSUME NEW table, NEW later, NEW list \in Seq(Id), NEW g, NEW records, NEW rest,
         \A t \in Id : later[t].group = g => later[t] = table[t],
         RightBy(table, list, g, records, rest)
  PROVE  RightBy(later, list, g, records, rest)
<1>1. Range(list) \subseteq Id
  BY Elements
<1>2. /\ Range(rest) \subseteq Range(list)
      /\ \A r \in Range(records) :
            /\ r.id \in Range(list)
            /\ table[r.id].group = g =>
                  r.id \in Alive(table) /\ r = [id |-> r.id, due |-> table[r.id].due]
      /\ \A t \in (Range(list) \cap Alive(table)) \ Range(rest) :
            table[t].group = g => [id |-> t, due |-> table[t].due] \in Range(records)
  BY DEF RightBy
<1>3. \A t \in Id : later[t] = table[t] => (t \in Alive(later) <=> t \in Alive(table))
  BY DEF Alive
<1>4. \A r \in Range(records) :
         /\ r.id \in Range(list)
         /\ later[r.id].group = g =>
               r.id \in Alive(later) /\ r = [id |-> r.id, due |-> later[r.id].due]
  BY <1>1, <1>2, <1>3
<1>5. \A t \in (Range(list) \cap Alive(later)) \ Range(rest) :
         later[t].group = g => [id |-> t, due |-> later[t].due] \in Range(records)
  BY <1>1, <1>2, <1>3
<1> QED
  BY <1>2, <1>4, <1>5 DEF RightBy

(* A group that stays, and has no strays then, has the tasks it had.       *)
LEMMA GroupStays ==
  ASSUME Types, NEW g \in Group, Stays(g), Strays(g)' = {}
  PROVE  /\ \A t \in Range(groups[g]) : byID'[t] = byID[t]
         /\ Strays(g) = {}
         /\ Living(g)' = Living(g)
         /\ View(g)' = View(g)
<1>0. groups[g] \in Seq(Id) /\ Range(groups[g]) \subseteq Id
  BY AliveList, Elements
<1>1. \A t \in Range(groups[g]) : byID'[t].group = g /\ byID'[t] = byID[t]
  BY <1>0 DEF Stays, Strays
<1>2. groups'[g] = groups[g]
  BY DEF Stays
<1>3. Strays(g) = {}
  BY <1>1 DEF Strays
<1>4. Living(g)' = Living(g)
  BY <1>0, <1>1, <1>2 DEF Living, Alive
<1> DEFINE alive == Kept(groups[g], Living(g))
<1>5. alive' = alive
  BY <1>2, <1>4
<1>6. alive \in Seq(Id) /\ \A k \in 1 .. Len(alive) : alive[k] \in Living(g)
  BY AliveList DEF Kept
<1>7. \A k \in 1 .. Len(alive) : byID'[alive[k]] = byID[alive[k]]
  BY <1>1, <1>6 DEF Living
<1>8. /\ View(g) = IF \E k \in 2 .. Len(alive) : byID[alive[k]].due < byID[alive[k - 1]].due
                   THEN Unsorted
                   ELSE [k \in 1 .. Len(alive) |->
                           [id |-> alive[k], due |-> byID[alive[k]].due]]
      /\ View(g)' = IF \E k \in 2 .. Len(alive') :
                          byID'[alive'[k]].due < byID'[alive'[k - 1]].due
                    THEN Unsorted
                    ELSE [k \in 1 .. Len(alive') |->
                            [id |-> alive'[k], due |-> byID'[alive'[k]].due]]
  BY ViewIs DEF View, AliveIds, RecordOf, Living
<1> HIDE DEF alive
<1>9. View(g)' = View(g)
  <2>1. \A k \in 2 .. Len(alive) : k \in 1 .. Len(alive) /\ k - 1 \in 1 .. Len(alive)
    BY <1>6
  <2>2. \A k \in 2 .. Len(alive) :
           /\ byID'[alive[k]] = byID[alive[k]] /\ byID'[alive[k - 1]] = byID[alive[k - 1]]
    BY <1>7, <2>1
  <2>3. [k \in 1 .. Len(alive) |-> [id |-> alive[k], due |-> byID'[alive[k]].due]]
          = [k \in 1 .. Len(alive) |-> [id |-> alive[k], due |-> byID[alive[k]].due]]
    BY <1>7
  <2> QED
    BY <1>5, <1>8, <2>2, <2>3
<1> QED
  BY <1>1, <1>3, <1>4, <1>9

(* A dispatcher that has read such a group in step goes on to have.        *)
LEMMA InStepStays ==
  ASSUME Types, NEW d \in Dispatchers, Reading(d), InStep(d), Stays(grp[d]),
         Strays(grp[d])' = {}, grp' = grp, ids' = ids, live' = live
  PROVE  InStep(d)'
<1> DEFINE g == grp[d]
           list == groups[g]
           kept == KeptBy(list, Living(g))
           n == Consumed(d)
<1>0. g \in Group /\ list \in Seq(Id) /\ Len(list) \in Nat /\ ids[d] \in Seq(Id)
  BY ReadsGroup, AliveList
<1>1. /\ \A t \in Range(list) : byID'[t] = byID[t]
      /\ Living(g)' = Living(g)
  BY <1>0, GroupStays
<1>2. /\ groups'[g] = list /\ grp'[d] = g /\ ids'[d] = ids[d] /\ live'[d] = live[d]
  BY DEF Stays
<1>3. /\ Consumed(d)' = n /\ KeptBy(groups[grp[d]], Living(grp[d]))' = kept
  <2>1. Living(grp[d])' = Living(g)
    BY <1>1, <1>2 DEF Living
  <2> QED
    BY <1>2, <2>1 DEF Consumed
<1>4. /\ Len(ids[d]) <= Len(list)
      /\ \A k \in 1 .. Len(ids[d]) : ids[d][k] = list[n + k]
      /\ Tells(live[d], kept[n], byID)
      /\ \A k \in 2 .. Len(live[d]) : live[d][k - 1].due <= live[d][k].due
  BY DEF InStep
<1>5. n \in 0 .. Len(list)
  <2>1. Len(list) \in Nat /\ Len(ids[d]) \in Nat /\ Len(ids[d]) <= Len(list)
    BY <1>0, <1>4
  <2>2. n = Len(list) - Len(ids[d])
    BY DEF Consumed
  <2> HIDE DEF n, list
  <2> QED
    BY <2>1, <2>2
<1>6. kept[n] \in Seq(Id) /\ \A k \in 1 .. Len(kept[n]) : kept[n][k] \in Range(list)
  BY <1>0, <1>5, AliveList DEF Living
<1>7. Tells(live[d], kept[n], byID')
  BY <1>1, <1>4, <1>6 DEF Tells
<1>8. Tells(live[d], KeptBy(groups[grp[d]], Living(grp[d]))[Consumed(d)], byID)'
  BY <1>2, <1>3, <1>7
<1> HIDE DEF n, kept
<1> QED
  BY <1>2, <1>3, <1>4, <1>8 DEF InStep

-----------------------------------------------------------------------------
(* The scan and the cache keep step with the table.                        *)

(* The steps of a call that leave the table alone: they change what one    *)
(* dispatcher has, and no other.                                           *)
Alone(d) ==
    /\ UNCHANGED <<byID, groups, version>>
    /\ \A e \in Dispatchers \ {d} :
          /\ dpc'[e] = dpc[e] /\ grp'[e] = grp[e] /\ ver'[e] = ver[e] /\ ids'[e] = ids[e]
          /\ got'[e] = got[e] /\ live'[e] = live[e] /\ lived'[e] = lived[e]

(* Such are all steps of a call but MarkState.                             *)
LEMMA StepsAlone ==
  ASSUME Types, NEW d \in Dispatchers, DispatchStep(d), ~MarkState(d)
  PROVE  Alone(d)
<1>0. LocalTypes /\ Mutex /\ lived \in [Dispatchers -> SUBSET Id]
  BY TypeParts DEF RegTypes
<1> USE DEF regVars
<1>1. ASSUME NEW g \in Group, ReadVersion(d, g) PROVE Alone(d)
  BY <1>0, <1>1 DEF ReadVersion, Alone, LocalTypes, Mutex
<1>2. CASE Lookup(d)
  BY <1>0, <1>2 DEF Lookup, Deliver, Alone, LocalTypes, Mutex
<1>3. CASE ListGroup(d)
  BY <1>0, <1>3 DEF ListGroup, Alone, LocalTypes, Mutex
<1>4. CASE Get(d)
  BY <1>0, <1>4 DEF Get, Alone, LocalTypes, Mutex
<1>5. CASE CheckAlive(d)
  BY <1>0, <1>5 DEF CheckAlive, Snapshot, Deliver, Alone, LocalTypes, Mutex
<1>6. CASE ScanEnd(d)
  BY <1>0, <1>6 DEF ScanEnd, Snapshot, Deliver, Alone, LocalTypes, Mutex
<1>7. CASE SendFails(d) \/ HandOff(d) \/ Returns(d)
  BY <1>0, <1>7 DEF SendFails, HandOff, Returns, Alone, LocalTypes, Mutex
<1> QED
  BY <1>1, <1>2, <1>3, <1>4, <1>5, <1>6, <1>7 DEF DispatchStep

(* After a step of one dispatcher the others have read what they had.      *)
LEMMA ScanStays ==
  ASSUME Types, Scanning, NEW d \in Dispatchers, Alone(d),
         Reading(d)' /\ ver'[d] = version'[grp'[d]] => ScanRight(d)'
  PROVE  Scanning'
<1> SUFFICES ASSUME NEW e \in Dispatchers, Reading(e)', ver'[e] = version'[grp'[e]], e # d
             PROVE  ScanRight(e)'
  BY DEF Scanning
<1>0. /\ UNCHANGED <<byID, groups, version>>
      /\ dpc'[e] = dpc[e] /\ grp'[e] = grp[e] /\ ver'[e] = ver[e] /\ ids'[e] = ids[e]
      /\ got'[e] = got[e] /\ live'[e] = live[e]
  BY DEF Alone
<1>1. ScanRight(e)
  BY <1>0 DEF Scanning, Reading
<1>2. Right(grp[e], live[e], ids[e])' /\ GotRight(e)'
  BY <1>0, <1>1 DEF ScanRight, Right, GotRight
<1>3. Strays(grp[e])' = {} => InStep(e)'
  <2>1. Strays(grp[e])' = Strays(grp[e])
    BY <1>0 DEF Strays
  <2> QED
    BY <1>0, <1>1, <2>1, InStepKept DEF ScanRight
<1> QED
  BY <1>2, <1>3 DEF ScanRight

(* An id that is passed over, or whose record is kept, is read.            *)
LEMMA RightReads ==
  ASSUME NEW table, NEW list \in Seq(Id), NEW g, NEW records, NEW rest \in Seq(Id),
         rest # <<>>, NEW more, RightBy(table, list, g, records, rest),
         \/ Head(rest) \notin Alive(table) /\ more = records
         \/ /\ Head(rest) \in Alive(table)
            /\ \E r : /\ r.id = Head(rest) /\ Range(more) = Range(records) \cup {r}
                      /\ table[Head(rest)].group = g =>
                            r = [id |-> Head(rest), due |-> table[Head(rest)].due]
  PROVE  RightBy(table, list, g, more, Tail(rest))
<1> DEFINE t == Head(rest)
<1>1. Range(rest) = Range(Tail(rest)) \cup {t}
  BY LessElements
<1>2. /\ Range(rest) \subseteq Range(list)
      /\ \A r \in Range(records) :
            /\ r.id \in Range(list)
            /\ table[r.id].group = g =>
                  r.id \in Alive(table) /\ r = [id |-> r.id, due |-> table[r.id].due]
      /\ \A u \in (Range(list) \cap Alive(table)) \ Range(rest) :
            table[u].group = g => [id |-> u, due |-> table[u].due] \in Range(records)
  BY DEF RightBy
<1> HIDE DEF t
<1>3. CASE t \notin Alive(table) /\ more = records
  BY <1>1, <1>2, <1>3 DEF RightBy
<1>4. CASE t \in Alive(table) /\ ~(more = records /\ t \notin Alive(table))
  <2>1. PICK r : /\ r.id = t /\ Range(more) = Range(records) \cup {r}
                 /\ table[t].group = g => r = [id |-> t, due |-> table[t].due]
    BY <1>4 DEF t
  <2>2. \A x \in Range(more) :
           /\ x.id \in Range(list)
           /\ table[x.id].group = g =>
                 x.id \in Alive(table) /\ x = [id |-> x.id, due |-> table[x.id].due]
    BY <1>1, <1>2, <1>4, <2>1
  <2>3. \A u \in (Range(list) \cap Alive(table)) \ Range(Tail(rest)) :
           table[u].group = g => [id |-> u, due |-> table[u].due] \in Range(more)
    BY <1>1, <1>2, <2>1
  <2> QED
    BY <1>1, <1>2, <2>2, <2>3 DEF RightBy
<1> QED
  BY <1>3, <1>4 DEF t

(* The id to be read next, while the version is the one that was read, is  *)
(* listed, and of the group unless it is a stray.                          *)
LEMMA NextListed ==
  ASSUME Types, NEW d \in Dispatchers, Reading(d), ScanRight(d), ids[d] # <<>>
  PROVE  /\ Head(ids[d]) \in Range(groups[grp[d]])
         /\ Strays(grp[d]) = {} => byID[Head(ids[d])].group = grp[d] /\ InStep(d)
<1>1. Head(ids[d]) \in Range(ids[d])
  BY ReadsGroup, LessElements
<1>2. Range(ids[d]) \subseteq Range(groups[grp[d]])
  BY DEF ScanRight, Right, RightBy
<1> QED
  BY <1>1, <1>2 DEF Strays, ScanRight

(* Every step keeps the dispatchers that read in step with the table.      *)
LEMMA ScanningStep == Types /\ Listed /\ Scanning /\ [GroupsNext]_groupsVars => Scanning'
<1> SUFFICES ASSUME Types, Listed, Scanning, [GroupsNext]_groupsVars PROVE Scanning'
  OBVIOUS
<1> USE DEF regVars
<1>0. /\ byID \in [Id -> Entry] /\ groups \in [Group -> Seq(Id)] /\ version \in [Group -> Nat]
      /\ Mutex /\ LocalTypes /\ Steps
  BY TypeParts DEF RegTypes
<1>1. CASE RegistryCall
  <2> SUFFICES ASSUME NEW d \in Dispatchers, Reading(d)', ver'[d] = version'[grp'[d]]
               PROVE  ScanRight(d)'
    BY DEF Scanning
  <2>1. /\ UNCHANGED <<cache, mu, grp, ver, ids, got, live>>
        /\ Reading(d) /\ (dpc'[d] = "alive" <=> dpc[d] = "alive")
        /\ \A g \in Group : version'[g] = version[g] + 1 \/ Stays(g)
    BY <1>1, RegistryMoves DEF Moves
  <2>2. grp[d] \in Group /\ ver[d] \in Nat /\ ver[d] <= version[grp[d]]
    BY <1>0, <2>1 DEF Steps, Reading, Choosing, LocalTypes
  <2>3. Stays(grp[d])
    <3>1. version[grp[d]] \in Nat /\ version'[grp[d]] = ver[d]
      BY <1>0, <2>1, <2>2
    <3> QED
      BY <2>1, <2>2, <3>1
  <2>4. /\ version'[grp[d]] = version[grp[d]] /\ groups'[grp[d]] = groups[grp[d]]
        /\ \A t \in Id : byID'[t].group = grp[d] => byID'[t] = byID[t]
    BY <2>3 DEF Stays
  <2>5. ScanRight(d) /\ groups[grp[d]] \in Seq(Id)
    BY <1>0, <2>1, <2>2, <2>4 DEF Scanning
  <2>6. Right(grp[d], live[d], ids[d])'
    <3>1. RightBy(byID, groups[grp[d]], grp[d], live[d], ids[d])
      BY <2>5 DEF ScanRight, Right
    <3>2. RightBy(byID', groups[grp[d]], grp[d], live[d], ids[d])
      BY <2>4, <2>5, <3>1, RightStays
    <3> QED
      BY <2>1, <2>4, <3>2 DEF Right
  <2>7. GotRight(d)'
    <3> SUFFICES ASSUME dpc'[d] = "alive", byID'[Head(ids[d])].group = grp[d]
                 PROVE  got[d] = byID'[Head(ids[d])]
      BY <2>1 DEF GotRight
    <3>1. Head(ids[d]) \in Id
      BY <2>1, ReadsGroup, HeadTail
    <3>2. byID'[Head(ids[d])] = byID[Head(ids[d])]
      BY <2>4, <3>1
    <3> QED
      BY <2>1, <2>5, <3>2 DEF ScanRight, GotRight
  <2>8. Strays(grp[d])' = {} => InStep(d)'
    <3> SUFFICES ASSUME Strays(grp[d])' = {} PROVE InStep(d)'
      OBVIOUS
    <3>1. (\A g \in Group : g = grp[d] => Strays(g)' = {}) /\ grp' = grp
      BY <2>1 DEF Strays
    <3>2. Strays(grp[d]) = {}
      BY <2>2, <2>3, <3>1, GroupStays
    <3> QED
      BY <2>1, <2>3, <2>5, <3>2, InStepStays DEF ScanRight
  <2> QED
    BY <2>6, <2>7, <2>8 DEF ScanRight
<1>2. ASSUME NEW d \in Dispatchers, NEW g \in Group, ReadVersion(d, g) PROVE Scanning'
  <2>1. ~Reading(d)' /\ Alone(d)
    BY <1>0, <1>2 DEF ReadVersion, Reading, Mutex, Alone, LocalTypes
  <2> QED
    BY <2>1, ScanStays
<1>3. ASSUME NEW d \in Dispatchers,
             Lookup(d) \/ ScanEnd(d) \/ SendFails(d) \/ HandOff(d) \/ Returns(d)
      PROVE  Scanning'
  <2>1. ~Reading(d)'
    BY <1>0, <1>3 DEF Lookup, ScanEnd, Snapshot, SendFails, HandOff, Returns, Deliver, Reading, Mutex
  <2>2. Alone(d)
    <3>1. DispatchStep(d) /\ ~MarkState(d)
      BY <1>3 DEF DispatchStep, Lookup, ScanEnd, SendFails, HandOff, Returns, MarkState
    <3> QED
      BY <3>1, StepsAlone
  <2> QED
    BY <2>1, <2>2, ScanStays
<1>4. ASSUME NEW d \in Dispatchers, ListGroup(d) PROVE Scanning'
  <2>1. /\ Alone(d) /\ UNCHANGED <<byID, groups, version, grp, ver>>
        /\ dpc[d] = "list" /\ dpc'[d] = "get"
        /\ ids'[d] = groups[grp[d]] /\ live'[d] = <<>>
    BY <1>0, <1>4 DEF ListGroup, Alone, Mutex, LocalTypes
  <2>2. grp[d] \in Group /\ groups[grp[d]] \in Seq(Id) /\ Len(groups[grp[d]]) \in Nat
    BY <1>0, <2>1 DEF Steps, Choosing
  <2>3. Right(grp[d], live[d], ids[d])'
    BY <2>1, NoElements DEF Right, RightBy
  <2>4. InStep(d)'
    <3>1. Consumed(d)' = 0
      BY <2>1, <2>2 DEF Consumed
    <3>2. KeptBy(groups[grp[d]], Living(grp[d]))'[0] = <<>>
      BY <2>1, <2>2, KeptTurns
    <3> QED
      BY <2>1, <2>2, <3>1, <3>2 DEF InStep, Tells
  <2>5. ScanRight(d)'
    BY <2>1, <2>3, <2>4 DEF ScanRight, GotRight
  <2> QED
    BY <2>1, <2>5, ScanStays
<1>5. ASSUME NEW d \in Dispatchers, Get(d) PROVE Scanning'
  <2>1. /\ Alone(d) /\ UNCHANGED <<byID, groups, version, grp, ver, live>>
        /\ ids[d] # <<>> /\ dpc[d] = "get" /\ Reading(d)
    BY <1>0, <1>5 DEF Get, Alone, Mutex, LocalTypes, Reading
  <2> SUFFICES ASSUME ver[d] = version[grp[d]]
               PROVE  ScanRight(d)'
    BY <2>1, ScanStays
  <2>2. ScanRight(d) /\ grp[d] \in Group /\ ids[d] \in Seq(Id) /\ groups[grp[d]] \in Seq(Id)
    BY <1>0, <2>1, ReadsGroup DEF Scanning
  <2>3. Strays(grp[d])' = Strays(grp[d])
    BY <2>1 DEF Strays
  <2>4. CASE byID[Head(ids[d])] = Absent
    <3>1. ids'[d] = Tail(ids[d]) /\ dpc'[d] = "get"
      BY <1>0, <1>5, <2>1, <2>4 DEF Get, LocalTypes
    <3>2. Head(ids[d]) \notin Alive(byID)
      BY <2>4 DEF Alive, Absent
    <3>3. Right(grp[d], live[d], ids[d])'
      <4>1. RightBy(byID, groups[grp[d]], grp[d], live[d], ids[d])
        BY <2>2 DEF ScanRight, Right
      <4>2. RightBy(byID, groups[grp[d]], grp[d], live[d], Tail(ids[d]))
        BY <2>1, <2>2, <3>2, <4>1, RightReads
      <4> QED
        BY <2>1, <3>1, <4>2 DEF Right
    <3>4. InStep(d) => InStep(d)'
      BY <2>1, <3>1, <3>2, InStepPasses
    <3> QED
      BY <2>2, <2>3, <3>1, <3>3, <3>4 DEF ScanRight, GotRight
  <2>5. CASE byID[Head(ids[d])] # Absent
    <3>1. ids' = ids /\ got'[d] = byID[Head(ids[d])]
      BY <1>0, <1>5, <2>5 DEF Get, LocalTypes
    <3>2. InStep(d) => InStep(d)'
      BY <2>1, <3>1, InStepKept
    <3>3. Right(grp[d], live[d], ids[d])' /\ GotRight(d)'
      BY <2>1, <2>2, <3>1 DEF ScanRight, Right, GotRight
    <3> QED
      BY <2>2, <2>3, <3>2, <3>3 DEF ScanRight
  <2> QED
    BY <2>4, <2>5
<1>6. ASSUME NEW d \in Dispatchers, CheckAlive(d) PROVE Scanning'
  <2>1. /\ UNCHANGED <<byID, groups, version>> /\ dpc[d] = "alive" /\ ids[d] # <<>>
        /\ Reading(d)
    BY <1>0, <1>6 DEF CheckAlive, Reading, Steps
  <2>2. Alone(d)
    <3>1. DispatchStep(d) /\ ~MarkState(d)
      BY <1>6, <2>1 DEF DispatchStep, MarkState
    <3> QED
      BY <3>1, StepsAlone
  <2>3. CASE Snapshot(d, Unsorted)
    <3>1. ~Reading(d)'
      BY <1>0, <2>3 DEF Snapshot, Deliver, Reading, Mutex
    <3> QED
      BY <2>2, <3>1, ScanStays
  <2>4. CASE ~Snapshot(d, Unsorted)
    <3> DEFINE t == Head(ids[d])
               r == [id |-> t, due |-> got[d].due]
    <3>1. /\ UNCHANGED <<grp, ver, got>>
          /\ ids'[d] = Tail(ids[d]) /\ dpc'[d] = "get"
          /\ live'[d] = IF t \notin Alive(byID) THEN live[d] ELSE Append(live[d], r)
          /\ ~(t \in Alive(byID) /\ live[d] # <<>> /\ got[d].due < Last(live[d]).due)
      BY <1>0, <1>6, <2>4 DEF CheckAlive, LocalTypes, Mutex
    <3> SUFFICES ASSUME ver[d] = version[grp[d]]
                 PROVE  ScanRight(d)'
      BY <2>1, <2>2, <3>1, ScanStays
    <3>2. /\ ScanRight(d) /\ grp[d] \in Group /\ ids[d] \in Seq(Id)
          /\ live[d] \in Seq(Record) /\ groups[grp[d]] \in Seq(Id) /\ got[d] \in Entry
      BY <1>0, <2>1, ReadsGroup DEF Scanning
    <3>3. Strays(grp[d])' = Strays(grp[d])
      BY <2>1, <3>1 DEF Strays
    <3>4. byID[t].group = grp[d] => got[d] = byID[t]
      BY <2>1, <3>2 DEF ScanRight, GotRight
    <3>5. Right(grp[d], live[d], ids[d])'
      <4>1. RightBy(byID, groups[grp[d]], grp[d], live[d], ids[d])
        BY <3>2 DEF ScanRight, Right
      <4>2. t \in Alive(byID) => Range(live'[d]) = Range(live[d]) \cup {r}
        <5>1. t \in Id /\ got[d].due \in Nat
          BY <2>1, <3>2, HeadTail, EntryFields
        <5>2. r \in Record
          BY <5>1 DEF Record
        <5> QED
          BY <3>1, <3>2, <5>2, MoreElements
      <4>3. byID[t].group = grp[d] => r = [id |-> t, due |-> byID[t].due]
        BY <3>4
      <4>4. RightBy(byID, groups[grp[d]], grp[d], live'[d], Tail(ids[d]))
        <5>1. r.id = t
          OBVIOUS
        <5> HIDE DEF r
        <5>2. CASE t \in Alive(byID)
          BY <2>1, <3>2, <4>1, <4>2, <4>3, <5>1, <5>2, RightReads
        <5>3. CASE t \notin Alive(byID)
          BY <2>1, <3>1, <3>2, <4>1, <5>3, RightReads
        <5> QED
          BY <5>2, <5>3
      <4> QED
        BY <2>1, <3>1, <4>4 DEF Right
    <3>6. Strays(grp[d]) = {} => InStep(d)'
      <4> SUFFICES ASSUME Strays(grp[d]) = {} PROVE InStep(d)'
        OBVIOUS
      <4>1. byID[t].group = grp[d] /\ InStep(d)
        BY <2>1, <3>2, NextListed
      <4>2. got[d] = byID[t]
        BY <3>4, <4>1
      <4>3. CASE t \in Alive(byID)
        BY <2>1, <3>1, <4>1, <4>2, <4>3, InStepAppends
      <4>4. CASE t \notin Alive(byID)
        BY <2>1, <3>1, <4>1, <4>4, InStepPasses
      <4> QED
        BY <4>3, <4>4
    <3> QED
      BY <3>1, <3>3, <3>5, <3>6 DEF ScanRight, GotRight
  <2> QED
    BY <2>3, <2>4
<1>7. CASE UNCHANGED groupsVars
  <2> SUFFICES ASSUME NEW d \in Dispatchers, Reading(d)', ver'[d] = version'[grp'[d]]
               PROVE  ScanRight(d)'
    BY DEF Scanning
  <2>1. UNCHANGED <<byID, groups, version, grp, ver, ids, got, live, dpc, lived>>
    BY <1>7 DEF groupsVars, callVars
  <2>2. Alone(d) /\ ScanRight(d)
    BY <2>1 DEF Alone, Scanning, Reading
  <2>3. InStep(d) => InStep(d)'
    BY <2>1, InStepKept
  <2> QED
    BY <2>1, <2>2, <2>3 DEF ScanRight, Right, GotRight, Strays
<1> QED
  BY <1>1, <1>2, <1>3, <1>4, <1>5, <1>6, <1>7 DEF GroupsNext, DispatchStep, RegistryCall

(* Every step keeps the tables listed.                                     *)
LEMMA ListedStep == Types /\ Listed /\ [GroupsNext]_groupsVars => Listed'
<1> SUFFICES ASSUME Types, Listed, [GroupsNext]_groupsVars PROVE Listed'
  OBVIOUS
<1>1. CASE RegistryCall
  BY <1>1, RegistryMoves DEF Moves
<1>2. ASSUME NEW d \in Dispatchers, DispatchStep(d), ~MarkState(d) PROVE Listed'
  BY <1>2, StepsAlone DEF Alone, Listed
<1>3. CASE UNCHANGED groupsVars
  BY <1>3 DEF groupsVars, regVars, Listed
<1> QED
  BY <1>1, <1>2, <1>3 DEF GroupsNext, RegistryCall

(* What a dispatcher is about to cache is right, if it is for the current  *)
(* version.                                                                *)
LEMMA CachesRight ==
  ASSUME Types, Cached, NEW d \in Dispatchers, Reading(d), NEW tasks, Snapshot(d, tasks),
         UNCHANGED <<byID, groups, version>>,
         ver[d] = version[grp[d]] =>
            /\ tasks # Unsorted => Right(grp[d], tasks, <<>>)
            /\ Strays(grp[d]) = {} => tasks = View(grp[d])
  PROVE  Cached'
<1> SUFFICES ASSUME NEW g \in Group, cache'[g].version = version[g]
             PROVE  /\ cache'[g].tasks # Unsorted =>
                          RightBy(byID, groups[g], g, cache'[g].tasks, <<>>)
                    /\ Strays(g)' = {} => cache'[g].tasks = View(g)'
  BY DEF Cached, CacheRight, Right
<1>1. Strays(g)' = Strays(g) /\ View(g)' = View(g)
  BY DEF Strays, View, AliveIds, RecordOf
<1>2. cache' = [cache EXCEPT ![grp[d]] = [version |-> ver[d], tasks |-> tasks]]
  BY DEF Snapshot, SnapshotVersion
<1>3. cache \in [Group -> Cachable] /\ grp[d] \in Group
  BY TypeParts, ReadsGroup DEF CacheTypes
<1>4. CASE g = grp[d]
  BY <1>1, <1>2, <1>3, <1>4 DEF Right
<1>5. CASE g # grp[d]
  BY <1>1, <1>2, <1>3, <1>5 DEF Cached, CacheRight, Right
<1> QED
  BY <1>4, <1>5

(* Every step keeps right what is cached under the current version.        *)
LEMMA CachedStep == Types /\ Listed /\ Scanning /\ Cached /\ [GroupsNext]_groupsVars => Cached'
<1> SUFFICES ASSUME Types, Listed, Scanning, Cached, [GroupsNext]_groupsVars PROVE Cached'
  OBVIOUS
<1> USE DEF regVars
<1>0. /\ groups \in [Group -> Seq(Id)] /\ version \in [Group -> Nat]
      /\ cache \in [Group -> Cachable] /\ \A g \in Group : cache[g].version <= version[g]
      /\ Mutex /\ LocalTypes /\ Steps
  BY TypeParts DEF RegTypes, CacheTypes
<1>1. ASSUME UNCHANGED <<byID, groups, version, cache>>
      PROVE  Cached'
  <2>1. \A g \in Group : Strays(g)' = Strays(g) /\ View(g)' = View(g)
    BY <1>1 DEF Strays, View, AliveIds, RecordOf
  <2> QED
    BY <1>1, <2>1 DEF Cached, CacheRight, Right
<1>2. CASE RegistryCall
  <2> SUFFICES ASSUME NEW g \in Group, cache'[g].version = version'[g]
               PROVE  /\ cache'[g].tasks # Unsorted =>
                            RightBy(byID', groups'[g], g, cache'[g].tasks, <<>>)
                      /\ Strays(g)' = {} => cache'[g].tasks = View(g)'
    BY DEF Cached, CacheRight, Right
  <2>1. cache' = cache /\ (version'[g] = version[g] + 1 \/ Stays(g))
    BY <1>2, RegistryMoves DEF Moves
  <2>2. Stays(g)
    <3>1. cache[g].version \in Int /\ cache[g].version <= version[g] /\ version[g] \in Nat
      BY <1>0 DEF Cachable
    <3> QED
      BY <2>1, <3>1
  <2>3. /\ version'[g] = version[g] /\ groups'[g] = groups[g]
        /\ \A t \in Id : byID'[t].group = g => byID'[t] = byID[t]
    BY <2>2 DEF Stays
  <2>4. CacheRight(g) /\ groups[g] \in Seq(Id)
    BY <1>0, <2>1, <2>3 DEF Cached
  <2>5. cache[g].tasks # Unsorted => RightBy(byID', groups[g], g, cache[g].tasks, <<>>)
    <3> SUFFICES ASSUME cache[g].tasks # Unsorted
                 PROVE  RightBy(byID', groups[g], g, cache[g].tasks, <<>>)
      OBVIOUS
    <3>1. RightBy(byID, groups[g], g, cache[g].tasks, <<>>)
      BY <2>4 DEF CacheRight, Right
    <3> QED
      BY <2>3, <2>4, <3>1, RightStays
  <2>6. Strays(g)' = {} => cache[g].tasks = View(g)'
    BY <2>2, <2>4, GroupStays DEF CacheRight
  <2> QED
    BY <2>1, <2>3, <2>5, <2>6
<1>3. ASSUME NEW d \in Dispatchers, Lookup(d) PROVE Cached'
  <2>1. CASE Current(d)
    BY <1>1, <1>3, <2>1 DEF Lookup
  <2>2. CASE ~Current(d)
    <3>1. /\ cache' = [cache EXCEPT ![grp[d]] = NoEntry]
          /\ UNCHANGED <<byID, groups, version>>
      BY <1>3, <2>2 DEF Lookup
    <3>2. \A g \in Group : Strays(g)' = Strays(g) /\ View(g)' = View(g)
      BY <3>1 DEF Strays, View, AliveIds, RecordOf
    <3>3. \A g \in Group : cache'[g].version = version[g] => cache'[g] = cache[g]
      <4> SUFFICES ASSUME NEW g \in Group, cache'[g].version = version[g], g = grp[d]
                   PROVE  FALSE
        BY <1>0, <3>1
      <4> QED
        BY <1>0, <3>1 DEF NoEntry
    <3> QED
      BY <3>1, <3>2, <3>3 DEF Cached, CacheRight, Right
  <2> QED
    BY <2>1, <2>2
<1>4. ASSUME NEW d \in Dispatchers, CheckAlive(d) PROVE Cached'
  <2>0. dpc[d] = "alive" /\ Reading(d) /\ ids[d] # <<>>
    BY <1>0, <1>4 DEF CheckAlive, Reading, Steps
  <2>1. CASE Head(ids[d]) \in Alive(byID) /\ live[d] # <<>> /\ got[d].due < Last(live[d]).due
    <3>1. Snapshot(d, Unsorted) /\ UNCHANGED <<byID, groups, version>>
      BY <1>4, <2>1 DEF CheckAlive
    <3>2. ASSUME ver[d] = version[grp[d]], Strays(grp[d]) = {}
          PROVE  Unsorted = View(grp[d])
      <4>1. ScanRight(d)
        BY <2>0, <3>2 DEF Scanning
      <4>2. byID[Head(ids[d])].group = grp[d] /\ InStep(d)
        BY <2>0, <3>2, <4>1, NextListed
      <4>3. got[d] = byID[Head(ids[d])]
        BY <2>0, <4>1, <4>2 DEF ScanRight, GotRight
      <4> QED
        BY <2>0, <2>1, <4>2, <4>3, UnsortedFound
    <3> QED
      BY <2>0, <3>1, <3>2, CachesRight
  <2>2. CASE ~(Head(ids[d]) \in Alive(byID) /\ live[d] # <<>> /\ got[d].due < Last(live[d]).due)
    BY <1>1, <1>4, <2>2 DEF CheckAlive
  <2> QED
    BY <2>1, <2>2
<1>5. ASSUME NEW d \in Dispatchers, ScanEnd(d) PROVE Cached'
  <2>1. /\ Snapshot(d, live[d]) /\ UNCHANGED <<byID, groups, version>>
        /\ Reading(d) /\ ids[d] = <<>>
    BY <1>5 DEF ScanEnd, Reading
  <2>2. ASSUME ver[d] = version[grp[d]]
        PROVE  /\ Right(grp[d], live[d], <<>>)
               /\ Strays(grp[d]) = {} => live[d] = View(grp[d])
    <3>1. ScanRight(d)
      BY <2>1, <2>2 DEF Scanning
    <3> QED
      BY <2>1, <3>1, ScanComplete DEF ScanRight
  <2> QED
    BY <2>1, <2>2, CachesRight
<1>6. ASSUME NEW d \in Dispatchers,
             \/ \E g \in Group : ReadVersion(d, g)
             \/ ListGroup(d) \/ Get(d) \/ SendFails(d) \/ HandOff(d) \/ Returns(d)
      PROVE  Cached'
  BY <1>1, <1>6 DEF ReadVersion, ListGroup, Get, SendFails, HandOff, Returns
<1>7. CASE UNCHANGED groupsVars
  BY <1>1, <1>7 DEF groupsVars, callVars
<1> QED
  BY <1>2, <1>3, <1>4, <1>5, <1>6, <1>7 DEF GroupsNext, DispatchStep, RegistryCall

-----------------------------------------------------------------------------
(* What a call sends was alive since it began, or is a stray.              *)

(* The ids of records that are right are alive, or strays.                 *)
LEMMA RightSeen ==
  ASSUME NEW g, NEW records, NEW rest, Right(g, records, rest)
  PROVE  AllIn(records, Alive(byID) \cup Strays(g))
BY DEF Right, RightBy, AllIn, Strays

(* So far a call has seen what it might send: that goes on after a step of *)
(* another dispatcher that caches nothing and reads nothing.               *)
LEMMA SeenStays ==
  ASSUME Types, Seen, NEW d \in Dispatchers, Alone(d),
         \A g \in Group : cache'[g] \in {cache[g], NoEntry},
         Reading(d)' => /\ Reading(d) \/ live'[d] = <<>>
                        /\ grp'[d] = grp[d] /\ ver'[d] = ver[d]
                        /\ \A r \in Range(live'[d]) :
                              r.id \in Alive(byID) \/ r \in Range(live[d]),
         Choosing(d)' => /\ Choosing(d) /\ grp'[d] = grp[d] /\ ver'[d] = ver[d]
                         /\ lived'[d] = lived[d]
  PROVE  Seen'
<1> SUFFICES ASSUME NEW e \in Dispatchers, Choosing(e)'
             PROVE  SeenBy(e)'
  BY DEF Seen
<1>0. LocalTypes /\ Steps
  BY TypeParts
<1>1. /\ UNCHANGED <<byID, groups, version>>
      /\ \A f \in Dispatchers \ {d} :
            /\ dpc'[f] = dpc[f] /\ grp'[f] = grp[f] /\ ver'[f] = ver[f]
            /\ live'[f] = live[f] /\ lived'[f] = lived[f]
  BY DEF Alone
<1>2. Choosing(e) /\ grp'[e] = grp[e] /\ ver'[e] = ver[e] /\ lived'[e] = lived[e]
  BY <1>1 DEF Choosing
<1>3. SeenBy(e) /\ grp[e] \in Group /\ ver[e] \in Nat
  BY <1>0, <1>2 DEF Seen, Steps, LocalTypes
<1>4. \A g \in Group : Strays(g)' = Strays(g)
  BY <1>1 DEF Strays
<1> DEFINE S == lived[e] \cup Strays(grp[e])
<1>5. lived'[e] = lived[e] /\ (lived[e] \cup Strays(grp[e]))' = S
  BY <1>1, <1>2 DEF Strays
<1>6. cache'[grp[e]].version = ver[e] /\ cache'[grp[e]].tasks # Unsorted =>
         AllIn(cache'[grp[e]].tasks, S)
  <2>1. NoEntry.version # ver[e]
    BY <1>3 DEF NoEntry
  <2> QED
    BY <1>3, <2>1 DEF SeenBy
<1>7. ASSUME NEW f \in Dispatchers, Reading(f)', grp'[f] = grp[e], ver'[f] = ver[e]
      PROVE  AllIn(live'[f], S)
  <2>1. CASE f # d
    <3>1. Reading(f) /\ live'[f] = live[f] /\ grp[f] = grp[e] /\ ver[f] = ver[e]
      BY <1>1, <1>7, <2>1 DEF Reading
    <3> QED
      BY <1>3, <3>1 DEF SeenBy
  <2>2. CASE f = d
    <3>1. grp[f] = grp[e] /\ ver[f] = ver[e]
      BY <1>7, <2>2
    <3>2. CASE live'[f] = <<>>
      BY <3>2, NoElements DEF AllIn
    <3>3. CASE live'[f] # <<>>
      <4>1. AllIn(live[f], S)
        BY <1>3, <1>7, <2>2, <3>1, <3>3 DEF SeenBy
      <4>2. \A r \in Range(live'[f]) : r.id \in Alive(byID) \/ r \in Range(live[f])
        BY <1>7, <2>2
      <4> QED
        BY <1>3, <4>1, <4>2 DEF AllIn, SeenBy
    <3> QED
      BY <3>2, <3>3
  <2> QED
    BY <2>1, <2>2
<1>8. Alive(byID)' \subseteq lived[e]
  BY <1>1, <1>3 DEF SeenBy, Alive
<1> HIDE DEF S
<1> QED
  BY <1>2, <1>5, <1>6, <1>7, <1>8 DEF SeenBy

(* A snapshot is cached: the calls that may use it have seen its tasks.    *)
LEMMA SeenCaches ==
  ASSUME Types, Seen, NEW d \in Dispatchers, Alone(d), Reading(d), ~Choosing(d)',
         NEW tasks, tasks = Unsorted \/ tasks = live[d], Snapshot(d, tasks)
  PROVE  Seen'
<1> SUFFICES ASSUME NEW e \in Dispatchers, Choosing(e)'
             PROVE  SeenBy(e)'
  BY DEF Seen
<1>0. LocalTypes /\ Steps /\ cache \in [Group -> Cachable] /\ grp[d] \in Group
  BY TypeParts, ReadsGroup DEF CacheTypes
<1>1. /\ UNCHANGED <<byID, groups, version>>
      /\ \A f \in Dispatchers \ {d} :
            /\ dpc'[f] = dpc[f] /\ grp'[f] = grp[f] /\ ver'[f] = ver[f]
            /\ live'[f] = live[f] /\ lived'[f] = lived[f]
  BY DEF Alone
<1>2. /\ e # d /\ Choosing(e)
      /\ grp'[e] = grp[e] /\ ver'[e] = ver[e] /\ lived'[e] = lived[e]
  BY <1>1 DEF Choosing
<1>3. SeenBy(e) /\ grp[e] \in Group
  BY <1>0, <1>2 DEF Seen, Steps
<1> DEFINE S == lived[e] \cup Strays(grp[e])
<1>5. lived'[e] = lived[e] /\ (lived[e] \cup Strays(grp[e]))' = S
  BY <1>1, <1>2 DEF Strays
<1>6. cache'[grp[e]].version = ver[e] /\ cache'[grp[e]].tasks # Unsorted =>
         AllIn(cache'[grp[e]].tasks, S)
  <2>1. cache' = [cache EXCEPT ![grp[d]] = [version |-> ver[d], tasks |-> tasks]]
    BY DEF Snapshot, SnapshotVersion
  <2>2. CASE grp[e] # grp[d]
    BY <1>0, <1>3, <2>1, <2>2 DEF SeenBy
  <2>3. CASE grp[e] = grp[d]
    <3>1. cache'[grp[e]] = [version |-> ver[d], tasks |-> tasks]
      BY <1>0, <2>1, <2>3
    <3>2. ver[d] = ver[e] => AllIn(live[d], S)
      BY <1>3, <2>3 DEF SeenBy
    <3> QED
      BY <3>1, <3>2
  <2> QED
    BY <2>2, <2>3
<1>7. ASSUME NEW f \in Dispatchers, Reading(f)', grp'[f] = grp[e], ver'[f] = ver[e]
      PROVE  AllIn(live'[f], S)
  <2>1. f # d
    BY <1>7 DEF Reading, Choosing
  <2>2. Reading(f) /\ live'[f] = live[f] /\ grp[f] = grp[e] /\ ver[f] = ver[e]
    BY <1>1, <1>7, <2>1 DEF Reading
  <2> QED
    BY <1>3, <2>2 DEF SeenBy
<1>8. Alive(byID)' \subseteq lived[e]
  BY <1>1, <1>3 DEF SeenBy, Alive
<1> HIDE DEF S
<1> QED
  BY <1>2, <1>5, <1>6, <1>7, <1>8 DEF SeenBy

(* Every step keeps what the calls have seen.                              *)
LEMMA SeenStep ==
  Types /\ Listed /\ Scanning /\ Cached /\ Seen /\ [GroupsNext]_groupsVars => Seen'
<1> SUFFICES ASSUME Types, Listed, Scanning, Cached, Seen, [GroupsNext]_groupsVars
             PROVE  Seen'
  OBVIOUS
<1> USE DEF regVars
<1>0. /\ byID \in [Id -> Entry] /\ groups \in [Group -> Seq(Id)] /\ version \in [Group -> Nat]
      /\ cache \in [Group -> Cachable] /\ lived \in [Dispatchers -> SUBSET Id]
      /\ Mutex /\ LocalTypes /\ Steps
  BY TypeParts DEF RegTypes, CacheTypes
<1>1. CASE RegistryCall
  <2> SUFFICES ASSUME NEW d \in Dispatchers, Choosing(d)'
               PROVE  SeenBy(d)'
    BY DEF Seen
  <2>1. /\ UNCHANGED <<cache, mu, grp, ver, ids, got, live>>
        /\ Choosing(d) /\ \A e \in Dispatchers : Reading(e)' = Reading(e)
        /\ UNCHANGED <<byID, groups, version, lived>> \/ Lives
        /\ StraysStay
    BY <1>1, RegistryMoves DEF Moves
  <2>2. SeenBy(d) /\ grp[d] \in Group
    BY <1>0, <2>1 DEF Seen, Steps
  <2>3. lived[d] \subseteq lived'[d] /\ Alive(byID') \subseteq lived'[d]
    <3>1. CASE Lives
      BY <2>1, <3>1 DEF Lives
    <3>2. CASE UNCHANGED <<byID, groups, version, lived>>
      BY <2>2, <3>2 DEF SeenBy
    <3> QED
      BY <2>1, <3>1, <3>2
  <2> DEFINE S == lived[d] \cup Strays(grp[d])
             later == (lived[d] \cup Strays(grp[d]))'
  <2>4. S \subseteq later
    <3>1. Strays(grp[d]) \subseteq Strays(grp[d])' \cup Alive(byID')
      <4>1. Strays(grp[d])' = {t \in Range(groups'[grp[d]]) : byID'[t].group # grp[d]}
        BY <2>1 DEF Strays
      <4>2. \A g \in Group : Strays(g)' = {t \in Range(groups'[g]) : byID'[t].group # g}
        BY DEF Strays
      <4> QED
        BY <2>1, <2>2, <4>1, <4>2 DEF StraysStay
    <3> QED
      BY <2>3, <3>1
  <2>5. /\ cache[grp[d]].version = ver[d] /\ cache[grp[d]].tasks # Unsorted =>
              AllIn(cache[grp[d]].tasks, later)
        /\ \A e \in Dispatchers : Reading(e) /\ grp[e] = grp[d] /\ ver[e] = ver[d] =>
              AllIn(live[e], later)
    <3> HIDE DEF later
    <3> QED
      BY <2>2, <2>4 DEF SeenBy, AllIn
  <2>6. Alive(byID)' \subseteq lived'[d]
    BY <2>3 DEF Alive
  <2> HIDE DEF S
  <2> QED
    BY <2>1, <2>5, <2>6 DEF SeenBy, AllIn
<1>2. ASSUME NEW d \in Dispatchers, NEW g \in Group, ReadVersion(d, g) PROVE Seen'
  <2> SUFFICES ASSUME NEW e \in Dispatchers, Choosing(e)'
               PROVE  SeenBy(e)'
    BY DEF Seen
  <2>1. /\ UNCHANGED <<byID, groups, version, cache, live>> /\ Alone(d)
        /\ ~Reading(d)'
        /\ grp'[d] = g /\ ver'[d] = version[g] /\ lived'[d] = Alive(byID)
    BY <1>0, <1>2 DEF ReadVersion, Alone, Mutex, LocalTypes, Reading
  <2>2. \A f \in Dispatchers \ {d} :
            /\ dpc'[f] = dpc[f] /\ grp'[f] = grp[f] /\ ver'[f] = ver[f]
            /\ lived'[f] = lived[f]
    BY <2>1 DEF Alone
  <2>3. \A f \in Dispatchers : Reading(f)' =>
            Reading(f) /\ grp'[f] = grp[f] /\ ver'[f] = ver[f]
    BY <2>1, <2>2 DEF Reading
  <2>4. Alive(byID)' = Alive(byID) /\ \A h \in Group : Strays(h)' = Strays(h)
    BY <2>1 DEF Alive, Strays
  <2>5. CASE e = d
    <3>1. ASSUME cache[g].version = version[g], cache[g].tasks # Unsorted
          PROVE  AllIn(cache[g].tasks, Alive(byID) \cup Strays(g))
      BY <3>1, RightSeen DEF Cached, CacheRight
    <3>2. ASSUME NEW f \in Dispatchers, Reading(f), grp[f] = g, ver[f] = version[g]
          PROVE  AllIn(live[f], Alive(byID) \cup Strays(g))
      BY <3>2, RightSeen DEF Scanning, ScanRight
    <3>3. Strays(grp[e])' = Strays(g)
      BY <2>1, <2>5 DEF Strays
    <3> QED
      BY <2>1, <2>3, <2>4, <2>5, <3>1, <3>2, <3>3 DEF SeenBy, AllIn
  <2>6. CASE e # d
    <3>1. /\ Choosing(e) /\ grp'[e] = grp[e] /\ ver'[e] = ver[e] /\ lived'[e] = lived[e]
      BY <2>2, <2>6 DEF Choosing
    <3>2. SeenBy(e) /\ grp[e] \in Group
      BY <1>0, <3>1 DEF Seen, Steps
    <3>3. Strays(grp[e])' = Strays(grp[e])
      BY <2>1, <3>1 DEF Strays
    <3> QED
      BY <2>1, <2>3, <2>4, <3>1, <3>2, <3>3 DEF SeenBy, AllIn
  <2> QED
    BY <2>5, <2>6
<1>3. ASSUME NEW d \in Dispatchers, Lookup(d) PROVE Seen'
  <2>1. Alone(d) /\ ~Reading(d)'
    <3>1. DispatchStep(d) /\ ~MarkState(d)
      BY <1>3 DEF DispatchStep, Lookup, MarkState
    <3>2. ~Reading(d)'
      BY <1>0, <1>3 DEF Lookup, Deliver, Reading, Mutex
    <3> QED
      BY <3>1, <3>2, StepsAlone
  <2>2. \A g \in Group : cache'[g] \in {cache[g], NoEntry}
    BY <1>0, <1>3 DEF Lookup
  <2>3. Choosing(d)' => /\ Choosing(d) /\ grp'[d] = grp[d] /\ ver'[d] = ver[d]
                        /\ lived'[d] = lived[d]
    BY <1>0, <1>3 DEF Lookup, Deliver, Choosing, Mutex
  <2> QED
    BY <2>1, <2>2, <2>3, SeenStays
<1>4. ASSUME NEW d \in Dispatchers, ListGroup(d) \/ Get(d) PROVE Seen'
  <2>1. /\ Alone(d) /\ cache' = cache /\ grp' = grp /\ ver' = ver /\ lived' = lived
        /\ Choosing(d)
        /\ \/ live'[d] = <<>>
           \/ Reading(d) /\ live' = live
    BY <1>0, <1>4 DEF ListGroup, Get, Alone, Mutex, LocalTypes, Choosing, Reading
  <2>2. \A r \in Range(live'[d]) : r.id \in Alive(byID) \/ r \in Range(live[d])
    BY <2>1, NoElements
  <2> QED
    BY <2>1, <2>2, SeenStays
<1>5. ASSUME NEW d \in Dispatchers, CheckAlive(d) PROVE Seen'
  <2>0. /\ dpc[d] = "alive" /\ Reading(d) /\ Choosing(d) /\ ids[d] # <<>>
    BY <1>0, <1>5 DEF CheckAlive, Reading, Choosing, Steps
  <2>1. Alone(d)
    <3>1. DispatchStep(d) /\ ~MarkState(d)
      BY <1>5, <2>0 DEF DispatchStep, MarkState
    <3> QED
      BY <3>1, StepsAlone
  <2>2. CASE Snapshot(d, Unsorted)
    <3>1. ~Choosing(d)'
      BY <1>0, <2>2 DEF Snapshot, Deliver, Choosing, Mutex
    <3> QED
      BY <2>0, <2>1, <2>2, <3>1, SeenCaches
  <2>3. CASE ~Snapshot(d, Unsorted)
    <3> DEFINE t == Head(ids[d])
               r == [id |-> t, due |-> got[d].due]
    <3>1. /\ UNCHANGED <<cache, grp, ver, lived>>
          /\ live'[d] = IF t \notin Alive(byID) THEN live[d] ELSE Append(live[d], r)
      BY <1>0, <1>5, <2>3 DEF CheckAlive, LocalTypes
    <3>2. \A x \in Range(live'[d]) : x.id \in Alive(byID) \/ x \in Range(live[d])
      <4>1. CASE t \notin Alive(byID)
        BY <3>1, <4>1
      <4>2. CASE t \in Alive(byID)
        <5>1. t \in Id /\ got[d].due \in Nat /\ live[d] \in Seq(Record)
          BY <2>0, ReadsGroup, HeadTail, EntryFields
        <5>2. r \in Record /\ r.id = t
          BY <5>1 DEF Record
        <5> HIDE DEF r
        <5>3. Range(live'[d]) = Range(live[d]) \cup {r}
          BY <3>1, <4>2, <5>1, <5>2, MoreElements
        <5> QED
          BY <4>2, <5>2, <5>3
      <4> QED
        BY <4>1, <4>2
    <3> QED
      BY <2>0, <2>1, <3>1, <3>2, SeenStays
  <2> QED
    BY <2>2, <2>3
<1>6. ASSUME NEW d \in Dispatchers, ScanEnd(d) PROVE Seen'
  <2>1. Snapshot(d, live[d]) /\ Reading(d)
    BY <1>6 DEF ScanEnd, Reading
  <2>2. Alone(d)
    <3>1. DispatchStep(d) /\ ~MarkState(d)
      BY <1>6 DEF DispatchStep, ScanEnd, MarkState
    <3> QED
      BY <3>1, StepsAlone
  <2>3. ~Choosing(d)'
    BY <1>0, <2>1 DEF Snapshot, Deliver, Choosing, Mutex
  <2> QED
    BY <2>1, <2>2, <2>3, SeenCaches
<1>7. ASSUME NEW d \in Dispatchers, SendFails(d) \/ HandOff(d) \/ Returns(d) PROVE Seen'
  <2>1. /\ cache' = cache /\ ~Reading(d)' /\ ~Choosing(d)'
    BY <1>0, <1>7 DEF SendFails, HandOff, Returns, Reading, Choosing, Mutex
  <2>2. Alone(d)
    <3>1. DispatchStep(d) /\ ~MarkState(d)
      BY <1>7 DEF DispatchStep, SendFails, HandOff, Returns, MarkState
    <3> QED
      BY <3>1, StepsAlone
  <2> QED
    BY <2>1, <2>2, SeenStays
<1>8. CASE UNCHANGED groupsVars
  BY <1>8 DEF groupsVars, callVars, Seen, SeenBy, Choosing, Reading, Strays, Alive
<1> QED
  BY <1>1, <1>2, <1>3, <1>4, <1>5, <1>6, <1>7, <1>8 DEF GroupsNext, DispatchStep, RegistryCall

-----------------------------------------------------------------------------
(* The theorems.                                                           *)

(* The registry is empty at first, and nothing is cached.                  *)
LEMMA InitInvariant == GroupsInit => IInv
<1> SUFFICES ASSUME GroupsInit PROVE IInv
  OBVIOUS
<1> USE DEF GroupsInit
<1>1. Types
  <2>1. Absent \in Entry /\ <<>> \in Seq(Id) /\ <<>> \in Seq(Record) /\ NoEntry \in Cachable
    BY EmptySeq DEF Absent, Entry, NoEntry, Cachable
  <2>2. RegTypes
    BY <2>1 DEF RegTypes
  <2>3. CacheTypes
    BY <2>1 DEF CacheTypes, NoEntry
  <2>4. Mutex
    BY DEF Mutex, Holds
  <2>5. LocalTypes
    BY <2>1 DEF LocalTypes
  <2>6. Steps
    BY DEF Steps, Choosing
  <2> QED
    BY <2>2, <2>3, <2>4, <2>5, <2>6, TypeParts
<1>2. Listed
  BY DEF Listed
<1>3. Scanning
  BY DEF Scanning, Reading
<1>4. Cached
  BY DEF Cached, NoEntry
<1>5. Seen
  BY DEF Seen, Choosing
<1> QED
  BY <1>1, <1>2, <1>3, <1>4, <1>5 DEF IInv

(* Every step keeps the invariant.                                         *)
LEMMA StepInvariant == IInv /\ [GroupsNext]_groupsVars => IInv'
BY TypesStep, ListedStep, ScanningStep, CachedStep, SeenStep DEF IInv

(* The invariant holds in every behaviour.                                 *)
LEMMA Invariant == GroupsSpec => []IInv
<1> QED
  BY InitInvariant, StepInvariant, PTL DEF GroupsSpec

(* The tables, the cache and every call keep their types; d.mu is held by  *)
(* the one dispatcher that reads a group.                                  *)
THEOREM GroupTyped == GroupsSpec => []GroupsTypeOK
<1>1. IInv => GroupsTypeOK
  BY DEF IInv, Types
<1> QED
  BY <1>1, Invariant, PTL

(* A snapshot cached under the current version of its group is what one    *)
(* read of the whole group would give now, though it was read call by call *)
(* while the groups changed and ids moved between them, or else the group  *)
(* lists strays; and of its own tasks it has each that is alive, as it is, *)
(* and no other: ordered, Version and the writes that raise it.            *)
THEOREM CacheStaysFresh == GroupsSpec => []CacheFresh
<1>1. IInv => CacheFresh
  <2> SUFFICES ASSUME IInv, NEW g \in Group, cache[g].version = version[g]
               PROVE  /\ Strays(g) = {} => cache[g].tasks = View(g)
                      /\ cache[g].tasks # Unsorted =>
                            \A t \in Id : byID[t].group = g =>
                               {r \in Range(cache[g].tasks) : r.id = t} =
                                  IF t \in Alive(byID) THEN {RecordOf(t)} ELSE {}
    BY DEF CacheFresh
  <2>1. CacheRight(g) /\ Listed
    BY DEF IInv, Cached
  <2> SUFFICES ASSUME cache[g].tasks # Unsorted, NEW t \in Id, byID[t].group = g
               PROVE  {r \in Range(cache[g].tasks) : r.id = t} =
                         IF t \in Alive(byID) THEN {RecordOf(t)} ELSE {}
    BY <2>1 DEF CacheRight
  <2> DEFINE records == cache[g].tasks
  <2>2. RightBy(byID, groups[g], g, records, <<>>)
    BY <2>1 DEF CacheRight, Right
  <2> HIDE DEF records
  <2>3. \A r \in Range(records) : r.id = t => t \in Alive(byID) /\ r = RecordOf(t)
    BY <2>2 DEF RightBy, RecordOf
  <2>4. t \in Alive(byID) => RecordOf(t) \in Range(records) /\ RecordOf(t).id = t
    <3> SUFFICES ASSUME t \in Alive(byID)
                 PROVE  RecordOf(t) \in Range(records) /\ RecordOf(t).id = t
      OBVIOUS
    <3>1. byID[t] # Absent
      BY DEF Alive, Absent
    <3>2. t \in Range(groups[g]) \cap Alive(byID)
      BY <2>1, <3>1 DEF Listed
    <3> QED
      BY <2>2, <3>2, NoElements DEF RightBy, RecordOf
  <2>5. {r \in Range(records) : r.id = t} = IF t \in Alive(byID) THEN {RecordOf(t)} ELSE {}
    BY <2>3, <2>4
  <2> QED
    BY <2>5 DEF records
<1> QED
  BY <1>1, Invariant, PTL

(* A call that has chosen its batch chose tasks that were alive at some    *)
(* time since it began, or strays of its group, whatever was deleted or    *)
(* moved to another group while it read: Dispatch.                         *)
THEOREM BatchesAlive == GroupsSpec => BatchAlive
<1> DEFINE Chosen == \A d \in Dispatchers : Choosing(d) /\ dpc'[d] = "send" =>
                        \A r \in Range(batch'[d]) : r.id \in lived[d] \cup Strays(grp[d])
<1>1. IInv /\ [GroupsNext]_groupsVars => Chosen
  <2> SUFFICES ASSUME IInv, [GroupsNext]_groupsVars,
                      NEW d \in Dispatchers, Choosing(d), dpc'[d] = "send"
               PROVE  AllIn(batch'[d], lived[d] \cup Strays(grp[d]))
    BY DEF AllIn
  <2>0. /\ dpc \in [Dispatchers -> {"idle", "lookup", "list", "get", "alive", "send", "state"}]
        /\ batch \in [Dispatchers -> Seq(Record)] /\ SeenBy(d) /\ Types /\ Listed
    BY TypeParts DEF IInv, Seen, Mutex, LocalTypes
  <2>1. ASSUME NEW e \in Dispatchers, NEW tasks, Deliver(e, tasks), dpc' # dpc
        PROVE  d = e /\ tasks # Unsorted /\ batch'[d] = tasks
    <3>1. d = e
      BY <2>0, <2>1 DEF Deliver, Choosing
    <3> QED
      BY <2>0, <2>1, <3>1 DEF Deliver
  <2>a. dpc' # dpc
    BY DEF Choosing
  <2>2. ASSUME NEW e \in Dispatchers, Lookup(e)
        PROVE  AllIn(batch'[d], lived[d] \cup Strays(grp[d]))
    <3>1. CASE Current(e)
      <4>1. Deliver(e, cache[grp[e]].tasks) /\ cache[grp[e]].version = ver[e]
        BY <2>2, <3>1 DEF Lookup, Current
      <4>2. d = e /\ cache[grp[e]].tasks # Unsorted /\ batch'[d] = cache[grp[e]].tasks
        BY <2>1, <2>a, <4>1
      <4> QED
        BY <2>0, <4>1, <4>2 DEF SeenBy
    <3>2. CASE ~Current(e)
      <4>1. dpc' = [dpc EXCEPT ![e] = "list"]
        BY <2>2, <3>2 DEF Lookup
      <4> QED
        BY <2>0, <4>1 DEF Choosing
    <3> QED
      BY <3>1, <3>2
  <2>3. ASSUME NEW e \in Dispatchers, CheckAlive(e)
        PROVE  FALSE
    <3>1. CASE Snapshot(e, Unsorted)
      BY <2>1, <2>a, <3>1 DEF Snapshot
    <3>2. CASE ~Snapshot(e, Unsorted)
      <4>1. dpc' = [dpc EXCEPT ![e] = "get"]
        BY <2>3, <3>2 DEF CheckAlive
      <4> QED
        BY <2>0, <4>1 DEF Choosing
    <3> QED
      BY <3>1, <3>2
  <2>4. ASSUME NEW e \in Dispatchers, ScanEnd(e)
        PROVE  AllIn(batch'[d], lived[d] \cup Strays(grp[d]))
    <3>1. Deliver(e, live[e]) /\ Reading(e)
      BY <2>4 DEF ScanEnd, Snapshot, Reading
    <3>2. d = e /\ batch'[d] = live[e]
      BY <2>1, <2>a, <3>1
    <3> QED
      BY <2>0, <3>1, <3>2 DEF SeenBy
  <2>5. ASSUME NEW e \in Dispatchers,
               \/ \E g \in Group : ReadVersion(e, g)
               \/ ListGroup(e) \/ Get(e) \/ SendFails(e) \/ HandOff(e) \/ Returns(e)
        PROVE  FALSE
    <3>1. \/ dpc' = dpc
          \/ \E x \in {"lookup", "get", "alive", "idle", "state"} : dpc' = [dpc EXCEPT ![e] = x]
      BY <2>5 DEF ReadVersion, ListGroup, Get, SendFails, HandOff, Returns
    <3> QED
      BY <2>0, <3>1 DEF Choosing
  <2>6. ~RegistryCall
    BY <2>0, RegistryMoves
  <2>7. ~UNCHANGED groupsVars
    BY <2>a DEF groupsVars, callVars
  <2> QED
    BY <2>2, <2>3, <2>4, <2>5, <2>6, <2>7 DEF GroupsNext, DispatchStep, RegistryCall
<1>2. [Chosen]_groupsVars =>
         [\A d \in Dispatchers : Choosing(d) /\ dpc'[d] = "send" =>
             \A r \in Range(batch'[d]) : r.id \in lived[d] \cup Strays(grp[d])]_groupsVars
  OBVIOUS
<1> HIDE DEF Chosen
<1> QED
  BY <1>1, <1>2, Invariant, PTL DEF GroupsSpec, BatchAlive

=============================================================================
