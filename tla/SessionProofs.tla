---------------------------- MODULE SessionProofs ----------------------------
(***************************************************************************)
(* What is kept around a session, for every number of turns, events,       *)
(* inputs and messages: the trace of its turns and what pages see of it,   *)
(* its automatic title, and the long-term memory its prompts take from.    *)
(*                                                                         *)
(* TraceInv ties the turns to their goroutines, to the updates these have  *)
(* published and to what the reader of older turns has.  Its core is       *)
(* GoodTurn: the ids of a turn's events grow and none is below its place,  *)
(* so that an id taken for a place never finds another event first.        *)
(*                                                                         *)
(* TitlesInv counts what a title says against the inputs it was built of;  *)
(* MemoryInv says which sets of entries the loops of the memory leave: ids *)
(* of their own, and layers that fit.                                      *)
(***************************************************************************)
EXTENDS TurnTrace, SessionTitles, MemoryLayers,
        WellFoundedInduction, FiniteSetTheorems, SequenceTheorems, TLAPS

\* A set of numbers with a member has a least one.
LEMMA LeastNumber ==
  ASSUME NEW S \in SUBSET Nat, S # {}
  PROVE  \E k \in S : \A m \in S : k <= m
<1> DEFINE R == OpToRel(<, Nat)
<1>1. R = {ss \in Nat \X Nat : ss[1] < ss[2]}
  BY Zenon DEF OpToRel
<1>2. IsWellFoundedOn(R, Nat)
  BY NatLessThanWellFounded, Zenon
<1>3. \A x, y \in Nat : x < y => <<x, y>> \in R
  BY <1>1
<1> HIDE DEF R
<1>4. PICK k \in S : \A m \in S : ~(<<m, k>> \in R)
  BY <1>2, WFMin, Zenon
<1>5. ASSUME NEW m \in S PROVE k <= m
  <2>1. k \in Nat /\ m \in Nat
    OBVIOUS
  <2>2. ~(m < k)
    BY <1>3, <1>4, <2>1
  <2> QED
    BY <2>1, <2>2
<1> QED
  BY <1>5

\* A set of numbers up to n with a member has a largest one.
LEMMA LargestNumber ==
  ASSUME NEW n \in Nat, NEW S \in SUBSET (0 .. n), S # {}
  PROVE  \E k \in S : \A m \in S : m <= k
<1> DEFINE T == {n - i : i \in S}
<1>1. T \in SUBSET Nat /\ T # {}
  <2>1. \A i \in S : n - i \in Nat
    OBVIOUS
  <2> QED
    BY <2>1
<1>2. PICK t \in T : \A m \in T : t <= m
  <2> HIDE DEF T
  <2> QED
    BY <1>1, LeastNumber
<1>3. PICK k \in S : t = n - k
  OBVIOUS
<1>4. ASSUME NEW m \in S PROVE m <= k
  <2>1. n - m \in T
    OBVIOUS
  <2>2. n - k <= n - m
    BY <1>2, <1>3, <2>1
  <2> QED
    BY <2>2
<1> QED
  BY <1>4

-----------------------------------------------------------------------------
(* The events of a turn *)

\* A turn when n events were recorded: the ids of its events grow, none is below
\* its place, and a command codex gave an id to is there once.
GoodTurn(t, n) ==
  /\ t \in [st : EndStates \cup {"running"}, events : Seq(Event), final : 0 .. MaxEvents + 1]
  /\ \A p \in 1 .. Len(t.events) : t.events[p].id >= p /\ t.events[p].id <= n
  /\ \A p, q \in 1 .. Len(t.events) : p < q => t.events[p].id < t.events[q].id
  /\ \A p, q \in 1 .. Len(t.events) :
       /\ t.events[p].type = "command" /\ t.events[q].type = "command"
       /\ t.events[p].item = t.events[q].item /\ t.events[p].item # NoItem
       => p = q

\* Nothing of it is shown as running.
Still(t) == \A p \in 1 .. Len(t.events) : ~Live(t.events[p])

\* What an event has.
LEMMA EventHas ==
  ASSUME TraceAssumption, NEW e \in Event
  PROVE  /\ e.id \in 1 .. MaxEvents /\ e.id \in Nat /\ e.type \in EventType /\ e.item \in ItemId
         /\ e.st \in EndStates \cup {"running"}
BY DEF Event, EventIds, TraceAssumption

\* An event at the end.
LEMMA WithGood ==
  ASSUME TraceAssumption, newest \in Nat, newest < MaxEvents, NEW t, GoodTurn(t, newest),
         NEW type \in EventType, NEW item \in ItemId, NEW st \in EndStates \cup {"running"},
         type = "command" => CommandOf(t, item) = {}
  PROVE  /\ GoodTurn(With(t, type, item, st), newest + 1)
         /\ With(t, type, item, st).st = t.st
         /\ Len(With(t, type, item, st).events) = Len(t.events) + 1
         /\ With(t, type, item, st).events[Len(t.events) + 1].id = newest + 1
         /\ Still(t) /\ st # "running" => Still(With(t, type, item, st))
<1> DEFINE e == [id |-> newest + 1, type |-> type, item |-> item, st |-> st]
           u == With(t, type, item, st)
           n == Len(t.events)
<1>1. e \in Event
  BY DEF Event, EventIds, TraceAssumption
<1>2. /\ t \in [st : EndStates \cup {"running"}, events : Seq(Event), final : 0 .. MaxEvents + 1]
      /\ n \in Nat /\ \A p \in 1 .. n : t.events[p] \in Event
  BY DEF GoodTurn
<1>3. u = [t EXCEPT !.events = Append(t.events, e)]
  BY DEF With, Fresh
<1>4. u.st = t.st /\ u.final = t.final /\ u.events = Append(t.events, e)
  BY <1>2, <1>3
<1>5. u \in [st : EndStates \cup {"running"}, events : Seq(Event), final : 0 .. MaxEvents + 1]
  <2> DEFINE more == Append(t.events, e)
  <2>1. more \in Seq(Event)
    BY <1>1, <1>2
  <2>2. u = [t EXCEPT !.events = more]
    BY <1>3
  <2> HIDE DEF more, u
  <2> QED
    BY <1>2, <2>1, <2>2
<1>6. /\ Len(u.events) = n + 1 /\ u.events[n + 1] = e
      /\ \A p \in 1 .. n : u.events[p] = t.events[p]
  BY <1>1, <1>2, <1>4
<1>7. e.id = newest + 1 /\ e.type = type /\ e.item = item /\ e.st = st
  OBVIOUS
<1> HIDE DEF u, e
<1>8. \A p \in 1 .. n : t.events[p].id \in Nat /\ t.events[p].id >= p /\ t.events[p].id <= newest
  BY <1>2, EventHas DEF GoodTurn
<1>9. n <= newest
  <2>1. CASE n = 0
    BY <2>1
  <2>2. CASE n # 0
    <3>1. n \in 1 .. n
      BY <1>2, <2>2
    <3> HIDE DEF n
    <3>2. t.events[n].id \in Nat /\ t.events[n].id >= n /\ t.events[n].id <= newest
      BY <1>8, <3>1
    <3> QED
      BY <1>2, <3>2
  <2> QED
    BY <2>1, <2>2
<1>10. \A p \in 1 .. n + 1 : p \in 1 .. n \/ p = n + 1
  BY <1>2
<1>11. \A p \in 1 .. n + 1 : u.events[p].id >= p /\ u.events[p].id <= newest + 1
  <2> SUFFICES ASSUME NEW p \in 1 .. n + 1
               PROVE  u.events[p].id >= p /\ u.events[p].id <= newest + 1
    OBVIOUS
  <2>1. CASE p \in 1 .. n
    <3>1. u.events[p].id = t.events[p].id
      BY <1>6, <2>1
    <3> QED
      BY <1>8, <2>1, <3>1
  <2>2. CASE p = n + 1
    <3>1. u.events[p].id = newest + 1
      BY <1>6, <1>7, <2>2
    <3> QED
      BY <1>2, <1>9, <2>2, <3>1
  <2> QED
    BY <1>10, <2>1, <2>2
<1>12. ASSUME NEW p \in 1 .. n + 1, NEW q \in 1 .. n + 1, p < q
       PROVE  u.events[p].id < u.events[q].id
  <2>1. p \in 1 .. n
    BY <1>2, <1>12
  <2>2. CASE q \in 1 .. n
    BY <1>6, <1>12, <2>1, <2>2 DEF GoodTurn
  <2>3. CASE q = n + 1
    <3>1. u.events[p].id = t.events[p].id /\ u.events[q].id = newest + 1
      BY <1>6, <1>7, <2>1, <2>3
    <3>2. t.events[p].id \in Nat /\ t.events[p].id <= newest
      BY <1>8, <2>1
    <3> QED
      BY <3>1, <3>2
  <2> QED
    BY <1>10, <2>2, <2>3
<1>13. ASSUME NEW p \in 1 .. n + 1, NEW q \in 1 .. n + 1,
              u.events[p].type = "command", u.events[q].type = "command",
              u.events[p].item = u.events[q].item, u.events[p].item # NoItem
       PROVE  p = q
  <2>1. ASSUME NEW k \in 1 .. n, t.events[k].type = "command", t.events[k].item = item, item # NoItem,
               type = "command"
        PROVE  FALSE
    <3>1. k \in CommandOf(t, item)
      BY <1>2, <2>1 DEF CommandOf
    <3> QED
      BY <2>1, <3>1
  <2>2. CASE p \in 1 .. n /\ q \in 1 .. n
    BY <1>6, <1>13, <2>2 DEF GoodTurn
  <2>3. CASE p \in 1 .. n /\ q = n + 1
    BY <1>6, <1>7, <1>13, <2>1, <2>3
  <2>4. CASE p = n + 1 /\ q \in 1 .. n
    BY <1>6, <1>7, <1>13, <2>1, <2>4
  <2> QED
    BY <1>10, <2>2, <2>3, <2>4
<1>14. GoodTurn(u, newest + 1)
  BY <1>5, <1>6, <1>11, <1>12, <1>13 DEF GoodTurn
<1>15. ASSUME Still(t), st # "running" PROVE Still(u)
  BY <1>6, <1>7, <1>10, <1>15 DEF Still, Live
<1> QED
  BY <1>4, <1>6, <1>7, <1>14, <1>15 DEF u

\* s is what is left of all without its p-th member.
IsLeft(s, all, p) ==
  /\ s \in Seq(Event) /\ Len(s) = Len(all) - 1
  /\ \A k \in 1 .. Len(s) : s[k] = IF k < p THEN all[k] ELSE all[k + 1]

\* Removing a member leaves the others.
LEMMA RemovedIsLeft ==
  ASSUME NEW all \in Seq(Event), NEW p \in 1 .. Len(all)
  PROVE  IsLeft(RemoveAt(all, p), all, p)
<1> DEFINE a == SubSeq(all, 1, p - 1)
           b == SubSeq(all, p + 1, Len(all))
           n == Len(all)
<1>1. n \in Nat /\ p \in Nat /\ p >= 1 /\ p <= n
  OBVIOUS
<1>2. a \in Seq(Event) /\ Len(a) = p - 1 /\ \A k \in 1 .. p - 1 : a[k] = all[k]
  BY <1>1, SubSeqProperties
<1>3. b \in Seq(Event) /\ Len(b) = n - p /\ \A k \in 1 .. n - p : b[k] = all[p + k]
  BY <1>1, SubSeqProperties
<1>4. RemoveAt(all, p) = a \o b
  BY DEF RemoveAt
<1> HIDE DEF a, b
<1>5. /\ a \o b \in Seq(Event) /\ Len(a \o b) = Len(a) + Len(b)
      /\ \A k \in 1 .. Len(a) + Len(b) : (a \o b)[k] = IF k <= Len(a) THEN a[k] ELSE b[k - Len(a)]
  BY <1>2, <1>3, ConcatProperties, Zenon
<1> HIDE DEF n
<1>6. Len(a) + Len(b) = n - 1
  BY <1>1, <1>2, <1>3
<1>7. ASSUME NEW k \in 1 .. n - 1
      PROVE  (a \o b)[k] = IF k < p THEN all[k] ELSE all[k + 1]
  <2>1. k \in Nat /\ k \in 1 .. Len(a) + Len(b)
    BY <1>1, <1>6
  <2>2. CASE k < p
    <3>1. k <= Len(a) /\ k \in 1 .. p - 1
      BY <1>1, <1>2, <2>1, <2>2
    <3> QED
      BY <1>2, <1>5, <2>1, <2>2, <3>1
  <2>3. CASE k >= p
    <3>1. ~(k <= Len(a)) /\ k - Len(a) = k - (p - 1) /\ k - (p - 1) \in 1 .. n - p /\ p + (k - (p - 1)) = k + 1
      BY <1>1, <1>2, <2>1, <2>3
    <3>2. (a \o b)[k] = b[k - (p - 1)]
      BY <1>5, <2>1, <3>1
    <3>3. b[k - (p - 1)] = all[p + (k - (p - 1))]
      BY <1>3, <3>1
    <3>4. ~(k < p)
      BY <1>1, <2>1, <2>3
    <3> QED
      BY <3>1, <3>2, <3>3, <3>4
  <2> QED
    BY <1>1, <2>1, <2>2, <2>3
<1> QED
  BY <1>4, <1>5, <1>6, <1>7 DEF IsLeft, n

\* The answer leaves the events.
LEMMA PromotedGood ==
  ASSUME TraceAssumption, NEW n \in Nat, NEW t, GoodTurn(t, n)
  PROVE  GoodTurn(Promoted(t), n) /\ Promoted(t).st = t.st /\ (Still(t) => Still(Promoted(t)))
<1>1. /\ t \in [st : EndStates \cup {"running"}, events : Seq(Event), final : 0 .. MaxEvents + 1]
      /\ Len(t.events) \in Nat /\ \A p \in 1 .. Len(t.events) : t.events[p] \in Event
  BY DEF GoodTurn
<1>2. CASE Answers(t) = {}
  BY <1>2 DEF Promoted
<1>3. CASE Answers(t) # {}
  <2> DEFINE p == CHOOSE p \in Answers(t) : \A q \in Answers(t) : q <= p
             all == t.events
             s == RemoveAt(all, p)
             u == Promoted(t)
  <2>1. p \in 1 .. Len(all)
    <3>1. Answers(t) \in SUBSET (0 .. Len(all))
      BY <1>1 DEF Answers
    <3>2. \E k \in Answers(t) : \A q \in Answers(t) : q <= k
      BY <1>1, <1>3, <3>1, LargestNumber
    <3>3. p \in Answers(t)
      BY <3>2
    <3> QED
      BY <1>1, <3>3 DEF Answers
  <2>2. u = [t EXCEPT !.final = all[p].id, !.events = s]
    BY <1>3 DEF Promoted
  <2> HIDE DEF u, p
  <2>3. IsLeft(s, all, p)
    BY <1>1, <2>1, RemovedIsLeft
  <2> HIDE DEF s
  <2>4. all[p].id \in 0 .. MaxEvents + 1
    <3>1. all[p].id \in 1 .. MaxEvents
      BY <1>1, <2>1, EventHas
    <3> QED
      BY <3>1 DEF TraceAssumption
  <2>5. /\ u \in [st : EndStates \cup {"running"}, events : Seq(Event), final : 0 .. MaxEvents + 1]
        /\ u.events = s /\ u.st = t.st
    <3>1. s \in Seq(Event)
      BY <2>3 DEF IsLeft
    <3> DEFINE i == all[p].id
    <3> HIDE DEF i
    <3> QED
      BY <1>1, <2>2, <2>4, <3>1 DEF i
  <2>6. /\ Len(s) = Len(all) - 1 /\ Len(s) \in Nat
        /\ \A k \in 1 .. Len(s) : s[k] = IF k < p THEN all[k] ELSE all[k + 1]
    BY <2>3 DEF IsLeft
  <2> DEFINE from(k) == IF k < p THEN k ELSE k + 1
  <2>7. \A k \in 1 .. Len(s) : s[k] = all[from(k)] /\ from(k) \in 1 .. Len(all) /\ k <= from(k)
    BY <1>1, <2>1, <2>6
  <2>8. \A k, l \in 1 .. Len(s) : k < l => from(k) < from(l)
    BY <1>1, <2>1, <2>6
  <2>9. \A k, l \in 1 .. Len(s) : from(k) = from(l) => k = l
    BY <1>1, <2>1, <2>6
  <2> HIDE DEF from, all
  <2>10. \A k \in 1 .. Len(all) : all[k].id >= k /\ all[k].id <= n /\ all[k].id \in Nat
    BY <1>1, EventHas DEF GoodTurn, all
  <2>11. \A k \in 1 .. Len(s) : s[k].id >= k /\ s[k].id <= n
    <3> SUFFICES ASSUME NEW k \in 1 .. Len(s) PROVE s[k].id >= k /\ s[k].id <= n
      OBVIOUS
    <3>1. s[k] = all[from(k)] /\ from(k) \in 1 .. Len(all) /\ k <= from(k)
      BY <2>7
    <3>2. all[from(k)].id >= from(k) /\ all[from(k)].id <= n /\ all[from(k)].id \in Nat
      BY <2>10, <3>1
    <3>3. from(k) \in Nat /\ k \in Nat
      BY <1>1, <2>6, <3>1
    <3> QED
      BY <3>1, <3>2, <3>3
  <2>12. \A k, l \in 1 .. Len(s) : k < l => s[k].id < s[l].id
    <3> SUFFICES ASSUME NEW k \in 1 .. Len(s), NEW l \in 1 .. Len(s), k < l PROVE s[k].id < s[l].id
      OBVIOUS
    <3>1. s[k] = all[from(k)] /\ from(k) \in 1 .. Len(all) /\ s[l] = all[from(l)] /\ from(l) \in 1 .. Len(all)
      BY <2>7
    <3>2. from(k) < from(l)
      BY <2>8
    <3>3. all[from(k)].id < all[from(l)].id
      BY <3>1, <3>2 DEF GoodTurn, all
    <3> QED
      BY <3>1, <3>3
  <2>13. \A k, l \in 1 .. Len(s) :
           /\ s[k].type = "command" /\ s[l].type = "command"
           /\ s[k].item = s[l].item /\ s[k].item # NoItem
           => k = l
    <3> SUFFICES ASSUME NEW k \in 1 .. Len(s), NEW l \in 1 .. Len(s), s[k].type = "command",
                        s[l].type = "command", s[k].item = s[l].item, s[k].item # NoItem
                 PROVE  from(k) = from(l)
      BY <2>9
    <3>1. s[k] = all[from(k)] /\ from(k) \in 1 .. Len(all) /\ s[l] = all[from(l)] /\ from(l) \in 1 .. Len(all)
      BY <2>7
    <3> QED
      BY <3>1 DEF GoodTurn, all
  <2>14. GoodTurn(u, n)
    BY <2>5, <2>11, <2>12, <2>13 DEF GoodTurn
  <2>15. ASSUME Still(t) PROVE Still(u)
    BY <2>5, <2>7, <2>15 DEF Still, all
  <2> QED
    BY <2>5, <2>14, <2>15 DEF u
<1> QED
  BY <1>2, <1>3

\* What is running is closed.
LEMMA ClosedGood ==
  ASSUME TraceAssumption, NEW n \in Nat, NEW t, GoodTurn(t, n)
  PROVE  GoodTurn(Closed(t), n) /\ Closed(t).st = t.st /\ Still(Closed(t))
<1>1. /\ t \in [st : EndStates \cup {"running"}, events : Seq(Event), final : 0 .. MaxEvents + 1]
      /\ Len(t.events) \in Nat /\ DOMAIN t.events = 1 .. Len(t.events)
      /\ \A p \in 1 .. Len(t.events) : t.events[p] \in Event
  BY DEF GoodTurn
<1> DEFINE all == t.events
           s == [p \in 1 .. Len(all) |-> IF Live(all[p]) THEN [all[p] EXCEPT !.st = "interrupted"] ELSE all[p]]
           u == Closed(t)
<1>2. u = [t EXCEPT !.events = s]
  BY <1>1 DEF Closed
<1> HIDE DEF u
<1>3. \A p \in 1 .. Len(all) :
        /\ s[p] \in Event /\ ~Live(s[p])
        /\ s[p].id = all[p].id /\ s[p].type = all[p].type /\ s[p].item = all[p].item
  <2> SUFFICES ASSUME NEW p \in 1 .. Len(all)
               PROVE  /\ s[p] \in Event /\ ~Live(s[p])
                      /\ s[p].id = all[p].id /\ s[p].type = all[p].type /\ s[p].item = all[p].item
    OBVIOUS
  <2>1. all[p] \in Event /\ s[p] = IF Live(all[p]) THEN [all[p] EXCEPT !.st = "interrupted"] ELSE all[p]
    BY <1>1
  <2> HIDE DEF all, s
  <2> QED
    BY <2>1 DEF Event, EndStates, Live
<1>4. s \in Seq(Event) /\ Len(s) = Len(all)
  <2>1. s \in [1 .. Len(all) -> Event]
    BY <1>3
  <2> HIDE DEF s
  <2> QED
    BY <1>1, <2>1
<1> HIDE DEF s, all
<1>5. /\ u \in [st : EndStates \cup {"running"}, events : Seq(Event), final : 0 .. MaxEvents + 1]
      /\ u.events = s /\ u.st = t.st
  BY <1>1, <1>2, <1>4
<1>6. GoodTurn(u, n)
  <2>1. \A p \in 1 .. Len(s) : s[p].id >= p /\ s[p].id <= n
    BY <1>3, <1>4 DEF GoodTurn, all
  <2>2. \A p, q \in 1 .. Len(s) : p < q => s[p].id < s[q].id
    BY <1>3, <1>4 DEF GoodTurn, all
  <2>3. \A p, q \in 1 .. Len(s) :
          /\ s[p].type = "command" /\ s[q].type = "command"
          /\ s[p].item = s[q].item /\ s[p].item # NoItem
          => p = q
    BY <1>3, <1>4 DEF GoodTurn, all
  <2> QED
    BY <1>5, <2>1, <2>2, <2>3 DEF GoodTurn
<1> QED
  BY <1>3, <1>4, <1>5, <1>6 DEF Still, u

\* More events elsewhere do not matter.
LEMMA MoreGood ==
  ASSUME TraceAssumption, NEW n \in Nat, NEW m \in Nat, n <= m, NEW t, GoodTurn(t, n) PROVE GoodTurn(t, m)
<1>1. \A p \in 1 .. Len(t.events) : t.events[p].id \in Nat
  BY EventHas DEF GoodTurn
<1> QED
  BY <1>1 DEF GoodTurn

\* Another status, and no other change.
LEMMA EndedGood ==
  ASSUME NEW n, NEW t, GoodTurn(t, n), NEW st \in EndStates
  PROVE  /\ GoodTurn([t EXCEPT !.st = st], n) /\ [t EXCEPT !.st = st].st = st
         /\ Still(t) => Still([t EXCEPT !.st = st])
<1> DEFINE u == [t EXCEPT !.st = st]
<1>1. t \in [st : EndStates \cup {"running"}, events : Seq(Event), final : 0 .. MaxEvents + 1]
  BY DEF GoodTurn
<1>2. /\ u \in [st : EndStates \cup {"running"}, events : Seq(Event), final : 0 .. MaxEvents + 1]
      /\ u.st = st /\ u.events = t.events
  BY <1>1
<1> HIDE DEF u
<1>3. GoodTurn(u, n)
  BY <1>2 DEF GoodTurn
<1> QED
  BY <1>2, <1>3 DEF Still, u

\* The ends of a turn.
LEMMA EndsGood ==
  ASSUME TraceAssumption, newest \in Nat, newest < MaxEvents, NEW t, GoodTurn(t, newest)
  PROVE  /\ GoodTurn(Completed(t), newest + 1) /\ Completed(t).st = "completed"
         /\ GoodTurn(FailedTurn(t), newest + 1) /\ FailedTurn(t).st = "failed"
         /\ GoodTurn(FailedAgain(t), newest + 1) /\ FailedAgain(t).st = "failed"
         /\ GoodTurn(WithoutRollout(t), newest + 1) /\ WithoutRollout(t).st = "failed"
         /\ GoodTurn(Interrupted(t), newest + 1) /\ Interrupted(t).st = "interrupted"
         /\ Still(Interrupted(t))
<1>1. newest + 1 \in Nat /\ newest <= newest + 1 /\ newest + 1 \in 0 .. MaxEvents + 1
  BY DEF TraceAssumption
<1>2. /\ {"failure", "interruption"} \subseteq EventType \ {"command"}
      /\ NoItem \in ItemId /\ "failed" \in EndStates \cup {"running"}
  BY DEF EventType, EndStates, TraceAssumption
<1>3. GoodTurn(Completed(t), newest + 1) /\ Completed(t).st = "completed"
  <2> DEFINE u == [t EXCEPT !.st = "completed"]
  <2>1. GoodTurn(u, newest) /\ u.st = "completed"
    BY EndedGood DEF EndStates
  <2> HIDE DEF u
  <2>2. GoodTurn(Promoted(u), newest) /\ Promoted(u).st = u.st
    BY <2>1, PromotedGood
  <2>3. GoodTurn(Promoted(u), newest + 1)
    BY <1>1, <2>2, MoreGood
  <2> QED
    BY <2>1, <2>2, <2>3 DEF Completed, u
<1>4. GoodTurn(FailedTurn(t), newest + 1) /\ FailedTurn(t).st = "failed"
  <2> DEFINE u == [t EXCEPT !.st = "failed"]
             v == With(u, "failure", NoItem, "failed")
  <2>1. GoodTurn(u, newest) /\ u.st = "failed"
    BY EndedGood DEF EndStates
  <2> HIDE DEF u
  <2>2. GoodTurn(v, newest + 1) /\ v.st = u.st
    BY <1>2, <2>1, WithGood
  <2> HIDE DEF v
  <2>3. GoodTurn(Promoted(v), newest + 1) /\ Promoted(v).st = v.st
    BY <1>1, <2>2, PromotedGood
  <2> QED
    BY <2>1, <2>2, <2>3 DEF FailedTurn, u, v
<1>5. GoodTurn(WithoutRollout(t), newest + 1) /\ WithoutRollout(t).st = "failed"
  <2> DEFINE u == [t EXCEPT !.st = "failed"]
             v == Promoted(u)
             w == With(v, "failure", NoItem, "failed")
             x == WithoutRollout(t)
  <2>1. GoodTurn(u, newest) /\ u.st = "failed"
    BY EndedGood DEF EndStates
  <2> HIDE DEF u
  <2>2. GoodTurn(v, newest) /\ v.st = u.st
    BY <2>1, PromotedGood
  <2> HIDE DEF v
  <2>3. GoodTurn(w, newest + 1) /\ w.st = v.st
    BY <1>2, <2>2, WithGood
  <2>4. x = [w EXCEPT !.final = newest + 1]
    BY DEF WithoutRollout, Fresh, u, v
  <2> HIDE DEF w, x
  <2>5. /\ x \in [st : EndStates \cup {"running"}, events : Seq(Event), final : 0 .. MaxEvents + 1]
        /\ x.st = w.st /\ x.events = w.events
    <3>1. w \in [st : EndStates \cup {"running"}, events : Seq(Event), final : 0 .. MaxEvents + 1]
      BY <2>3 DEF GoodTurn
    <3> QED
      BY <1>1, <2>4, <3>1
  <2>6. GoodTurn(x, newest + 1)
    BY <2>3, <2>5 DEF GoodTurn
  <2> QED
    BY <2>1, <2>2, <2>3, <2>5, <2>6 DEF x
<1>6. /\ GoodTurn(Interrupted(t), newest + 1) /\ Interrupted(t).st = "interrupted"
      /\ Still(Interrupted(t))
  <2> DEFINE u == [t EXCEPT !.st = "interrupted"]
             v == Closed(u)
             w == With(v, "interruption", NoItem, "failed")
             x == IF Recorded(t, "interruption") THEN v ELSE w
  <2>1. GoodTurn(u, newest) /\ u.st = "interrupted"
    BY EndedGood DEF EndStates
  <2> HIDE DEF u
  <2>2. GoodTurn(v, newest) /\ v.st = u.st /\ Still(v)
    BY <2>1, ClosedGood
  <2> HIDE DEF v
  <2>3. GoodTurn(w, newest + 1) /\ w.st = v.st /\ Still(w)
    BY <1>2, <2>2, WithGood
  <2>4. GoodTurn(v, newest + 1)
    BY <1>1, <2>2, MoreGood
  <2>5. Interrupted(t) = Promoted(x)
    BY DEF Interrupted, u, v
  <2> HIDE DEF w
  <2>6. GoodTurn(x, newest + 1) /\ x.st = "interrupted" /\ Still(x)
    BY <2>1, <2>2, <2>3, <2>4
  <2> HIDE DEF x
  <2> QED
    BY <1>1, <2>5, <2>6, PromotedGood
<1>7. GoodTurn(FailedAgain(t), newest + 1) /\ FailedAgain(t).st = "failed"
  <2> DEFINE u == [t EXCEPT !.st = "failed"]
  <2>1. GoodTurn(u, newest) /\ u.st = "failed"
    BY EndedGood DEF EndStates
  <2> HIDE DEF u
  <2>2. GoodTurn(Promoted(u), newest) /\ Promoted(u).st = u.st
    BY <2>1, PromotedGood
  <2>3. GoodTurn(Promoted(u), newest + 1)
    BY <1>1, <2>2, MoreGood
  <2> QED
    BY <2>1, <2>2, <2>3 DEF FailedAgain, u
<1> QED
  BY <1>3, <1>4, <1>5, <1>6, <1>7

\* A turn that runs again.
LEMMA AgainGood ==
  ASSUME TraceAssumption, NEW n, NEW t, GoodTurn(t, n)
  PROVE  LET u == [t EXCEPT !.st = "running", !.final = 0] IN GoodTurn(u, n) /\ u.st = "running"
<1> DEFINE u == [t EXCEPT !.st = "running", !.final = 0]
<1>1. /\ t \in [st : EndStates \cup {"running"}, events : Seq(Event), final : 0 .. MaxEvents + 1]
      /\ 0 \in 0 .. MaxEvents + 1
  BY DEF GoodTurn, TraceAssumption
<1>2. /\ u \in [st : EndStates \cup {"running"}, events : Seq(Event), final : 0 .. MaxEvents + 1]
      /\ u.st = "running" /\ u.events = t.events
  BY <1>1
<1> HIDE DEF u
<1>3. GoodTurn(u, n)
  BY <1>2 DEF GoodTurn
<1> QED
  BY <1>2, <1>3 DEF u

\* The status of an event changes, and nothing else.
Marked(t, p, st) == [t EXCEPT !.events[p].st = st]

\* A change of the status of an event.
LEMMA ChangedGood ==
  ASSUME TraceAssumption, NEW n, NEW t, GoodTurn(t, n), NEW p \in 1 .. Len(t.events),
         NEW st \in EndStates \cup {"running"}
  PROVE  GoodTurn(Marked(t, p, st), n) /\ Marked(t, p, st).st = t.st
<1> DEFINE all == t.events
           e == [all[p] EXCEPT !.st = st]
           s == [all EXCEPT ![p] = e]
           u == Marked(t, p, st)
<1>1. /\ t \in [st : EndStates \cup {"running"}, events : Seq(Event), final : 0 .. MaxEvents + 1]
      /\ Len(all) \in Nat /\ all \in Seq(Event)
      /\ \A k \in 1 .. Len(all) : all[k] \in Event
  BY DEF GoodTurn
<1>2. u = [t EXCEPT !.events = s]
  BY DEF Marked
<1>3. e \in Event /\ e.id = all[p].id /\ e.type = all[p].type /\ e.item = all[p].item
  <2>1. all[p] \in Event
    BY <1>1
  <2> HIDE DEF all
  <2> QED
    BY <2>1 DEF Event
<1> HIDE DEF u, e, all
<1>4. /\ s \in Seq(Event) /\ Len(s) = Len(all)
      /\ \A k \in 1 .. Len(all) : s[k] = IF k = p THEN e ELSE all[k]
  BY <1>1, <1>3 DEF all
<1> HIDE DEF s
<1>5. \A k \in 1 .. Len(all) : s[k].id = all[k].id /\ s[k].type = all[k].type /\ s[k].item = all[k].item
  BY <1>3, <1>4
<1>6. /\ u \in [st : EndStates \cup {"running"}, events : Seq(Event), final : 0 .. MaxEvents + 1]
      /\ u.events = s /\ u.st = t.st
  BY <1>1, <1>2, <1>4
<1>7. \A k \in 1 .. Len(s) : s[k].id >= k /\ s[k].id <= n
  BY <1>4, <1>5 DEF GoodTurn, all
<1>8. \A k, l \in 1 .. Len(s) : k < l => s[k].id < s[l].id
  BY <1>4, <1>5 DEF GoodTurn, all
<1>9. \A k, l \in 1 .. Len(s) :
        /\ s[k].type = "command" /\ s[l].type = "command"
        /\ s[k].item = s[l].item /\ s[k].item # NoItem
        => k = l
  BY <1>4, <1>5 DEF GoodTurn, all
<1>10. GoodTurn(u, n)
  BY <1>6, <1>7, <1>8, <1>9 DEF GoodTurn
<1> QED
  BY <1>6, <1>10 DEF u

TurnSet == [st : EndStates \cup {"running"}, events : Seq(Event), final : 0 .. MaxEvents + 1]
NoticeType == {"none", "started", "appended", "updated"} \cup EndStates
ViewSet == [id : 0 .. MaxEvents,
            kind : {"commands", "important_text", "reasoning", "plan", "system", "none"},
            st : EndStates \cup {"running", "none"}]
Notice == [pc : {"idle", "due", "held"}, type : NoticeType, id : 0 .. MaxEvents, view : ViewSet]
TurnUpdate == [turn : Turns, run : 1 .. MaxRuns, type : NoticeType, view : ViewSet]

\* The turns of the session.
TurnsGood ==
  /\ newest \in 0 .. MaxEvents
  /\ turns \in Seq(TurnSet) /\ Len(turns) <= MaxTurns
  /\ \A i \in 1 .. Len(turns) : GoodTurn(turns[i], newest)

\* Who drives them.
DriverPlace == {"none", "announce", "clone", "unprepared", "on", "over"}
AtWork(r)   == driver[r] \notin {"none", "over"}
NoneAtWork(i) == \A a \in 1 .. MaxRuns : ~AtWork(<<i, a>>)
DriversGood ==
  /\ active \in 0 .. Len(turns)
  /\ busy => status = "busy" /\ active # 0
  /\ driver \in [Run -> DriverPlace]
  /\ notice \in [Run -> Notice]
  /\ \A r \in Run : r[1] > Len(turns) => driver[r] = "none"
  /\ \A i \in 1 .. Len(turns) : driver[<<i, 1>>] # "none"
  /\ \A i \in 1 .. Len(turns) : turns[i].st = "interrupted" /\ NoneAtWork(i) => Still(turns[i])

\* The run at work is the one the session is busy with.
ApartGood == /\ ~swept => \A r \in Run : AtWork(r) => busy /\ active = r[1]
             /\ OneAtATime

\* What the updates have told of a run, and what its goroutine is about to tell.
Tells(n, r)  == feed[n].turn = r[1] /\ feed[n].run = r[2]
TurnTold(r)  == \E n \in 1 .. Len(feed) : Tells(n, r)
TurnEnded(r) == \E n \in 1 .. Len(feed) : Tells(n, r) /\ feed[n].type \in EndStates
TellsInOrder(r) ==
  /\ driver[r] = "none" => notice[r].pc = "idle" /\ ~TurnTold(r)
  /\ driver[r] = "announce" =>
       notice[r].pc # "idle" /\ notice[r].type = "started" /\ notice[r].id = 0 /\ ~TurnTold(r)
  /\ driver[r] \in {"clone", "unprepared"} => notice[r].pc = "idle" /\ TurnTold(r) /\ ~TurnEnded(r)
  /\ driver[r] = "on" =>
       TurnTold(r) /\ ~TurnEnded(r) /\ (notice[r].pc # "idle" => notice[r].type \in {"appended", "updated"})
  /\ driver[r] = "over" =>
       TurnTold(r) /\ (notice[r].pc # "idle" => notice[r].type \in EndStates /\ ~TurnEnded(r))
FeedGood ==
  /\ feed \in Seq(TurnUpdate)
  /\ \A r \in Run : TellsInOrder(r)
  /\ page.cursor \in 0 .. Len(feed)

\* The reader has the turns from one on, up to one.
ReaderGood ==
  IF reader.seen = <<>> THEN reader.before = 0 /\ reader.more = TRUE
  ELSE /\ reader.seen \in Seq(Nat) /\ reader.before \in 1 .. Len(turns)
       /\ reader.before + Len(reader.seen) - 1 <= Len(turns)
       /\ \A n \in 1 .. Len(reader.seen) : reader.seen[n] = reader.before + n - 1
       /\ reader.more <=> reader.before > 1

TraceInv == TurnsGood /\ DriversGood /\ ApartGood /\ FeedGood /\ ReaderGood /\ StoryInOrder

-----------------------------------------------------------------------------
(* What follows from it *)

\* The turns, and what is known of their number.
LEMMA TurnsAre ==
  ASSUME TraceAssumption, TurnsGood
  PROVE  /\ Len(turns) \in Nat /\ DOMAIN turns = 1 .. Len(turns) /\ MaxTurns \in Nat /\ MaxEvents \in Nat
         /\ newest \in Nat /\ newest <= MaxEvents
         /\ \A i \in 1 .. Len(turns) : i \in Turns /\ turns[i] \in TurnSet
BY DEF TurnsGood, Turns, TraceAssumption

\* A run is one of a turn, and known by the turn and its number.
LEMMA RunIs ==
  ASSUME TraceAssumption
  PROVE  /\ \A r \in Run : r[1] \in Turns /\ r[2] \in 1 .. MaxRuns /\ r = <<r[1], r[2]>>
         /\ \A i \in Turns : <<i, 1>> \in Run /\ \A a \in 1 .. MaxRuns : <<i, a>> \in Run
         /\ \A q, r \in Run : q[1] = r[1] /\ q[2] = r[2] => q = r
<1>1. 1 \in 1 .. MaxRuns
  BY DEF TraceAssumption
<1> HIDE DEF Turns
<1> QED
  BY <1>1 DEF Run

\* The place of an event that is found.
LEMMA PlaceIs ==
  ASSUME NEW t, t.events \in Seq(Event), NEW id, Found(t, id)
  PROVE  /\ PlaceOf(t, id) \in 1 .. Len(t.events)
         /\ t.events[PlaceOf(t, id)].id = id \/ PlaceOf(t, id) = id
         /\ \A q \in 1 .. Len(t.events) : t.events[q].id = id \/ q = id => PlaceOf(t, id) <= q
<1> DEFINE S == {p \in 1 .. Len(t.events) : t.events[p].id = id \/ p = id}
           P(p) == /\ t.events[p].id = id \/ p = id
                   /\ \A q \in 1 .. p - 1 : t.events[q].id # id /\ q # id
<1>1. DOMAIN t.events = 1 .. Len(t.events) /\ Len(t.events) \in Nat
  OBVIOUS
<1>2. S \in SUBSET Nat /\ S # {}
  BY <1>1 DEF Found
<1>3. PICK k \in S : \A m \in S : k <= m
  <2> HIDE DEF S
  <2> QED
    BY <1>2, LeastNumber
<1>4. P(k) /\ k \in DOMAIN t.events
  <2>1. \A q \in 1 .. k - 1 : t.events[q].id # id /\ q # id
    <3> SUFFICES ASSUME NEW q \in 1 .. k - 1, q \in S PROVE FALSE
      BY <1>1
    <3> QED
      BY <1>1, <1>3
  <2> QED
    BY <1>1, <2>1
<1>5. PlaceOf(t, id) \in DOMAIN t.events /\ P(PlaceOf(t, id))
  <2>1. PlaceOf(t, id) = CHOOSE p \in DOMAIN t.events : P(p)
    BY DEF PlaceOf
  <2> HIDE DEF P
  <2> QED
    BY <1>4, <2>1
<1>6. ASSUME NEW q \in 1 .. Len(t.events), t.events[q].id = id \/ q = id PROVE PlaceOf(t, id) <= q
  BY <1>1, <1>5, <1>6
<1> QED
  BY <1>1, <1>5, <1>6

\* The types.
LEMMA TraceTypes == ASSUME TraceAssumption, TraceInv PROVE TraceTypeOK
<1>1. \A i \in DOMAIN turns : turns[i] \in [st : EndStates \cup {"running"}, events : Seq(Event), final : 0 .. MaxEvents + 1]
  BY TurnsAre DEF TraceInv, TurnSet
<1>2. \A i \in DOMAIN turns : driver[<<i, 1>>] # "none"
  BY TurnsAre DEF TraceInv, DriversGood
<1>3. page.cursor <= Len(feed)
  BY DEF TraceInv, FeedGood
<1> QED
  BY <1>1, <1>2, <1>3 DEF TraceTypeOK, TraceInv, TurnsGood, DriversGood, DriverPlace

\* An id finds its own event.
LEMMA DetailIs == ASSUME TraceAssumption, TraceInv PROVE DetailIsTheOneAsked
<1> SUFFICES ASSUME NEW i \in DOMAIN turns, NEW p \in DOMAIN turns[i].events
             PROVE  PlaceOf(turns[i], turns[i].events[p].id) = p
  BY DEF DetailIsTheOneAsked
<1> DEFINE t == turns[i]
           id == t.events[p].id
           q == PlaceOf(t, id)
<1>1. GoodTurn(t, newest) /\ t.events \in Seq(Event)
  <2>1. i \in 1 .. Len(turns)
    BY TurnsAre DEF TraceInv
  <2> QED
    BY <2>1 DEF TraceInv, TurnsGood, GoodTurn
<1> HIDE DEF t
<1>2. DOMAIN t.events = 1 .. Len(t.events) /\ Len(t.events) \in Nat /\ p \in 1 .. Len(t.events)
  BY <1>1 DEF t
<1>3. \A k \in 1 .. Len(t.events) : t.events[k].id \in Nat
  BY <1>1, EventHas
<1>4. Found(t, id)
  BY <1>2 DEF Found
<1>5. q \in 1 .. Len(t.events) /\ q <= p /\ (t.events[q].id = id \/ q = id)
  <2>1. q \in 1 .. Len(t.events) /\ q <= p
    BY <1>1, <1>2, <1>4, PlaceIs
  <2>2. t.events[q].id = id \/ q = id
    BY <1>1, <1>4, PlaceIs
  <2> QED
    BY <2>1, <2>2
<1> HIDE DEF q
<1>6. CASE t.events[q].id = id
  <2>1. ~(q < p)
    BY <1>1, <1>2, <1>3, <1>5, <1>6 DEF GoodTurn
  <2> QED
    BY <1>2, <1>5, <2>1 DEF q, t
<1>7. CASE q = id
  <2>1. id >= p
    BY <1>1, <1>2 DEF GoodTurn
  <2> QED
    BY <1>2, <1>3, <1>5, <1>7, <2>1 DEF q, t
<1> QED
  BY <1>5, <1>6, <1>7

\* A command is one event.
LEMMA CommandsAre == ASSUME TraceAssumption, TraceInv PROVE OneEventPerCommand
<1> SUFFICES ASSUME NEW i \in DOMAIN turns, NEW item \in ItemId \ {NoItem}
             PROVE  Cardinality({p \in DOMAIN turns[i].events :
                      turns[i].events[p].type = "command" /\ turns[i].events[p].item = item}) <= 1
  BY DEF OneEventPerCommand
<1> DEFINE S == {p \in DOMAIN turns[i].events :
                   turns[i].events[p].type = "command" /\ turns[i].events[p].item = item}
<1>1. \A p, q \in S : p = q
  <2>1. i \in 1 .. Len(turns)
    BY TurnsAre DEF TraceInv
  <2>2. GoodTurn(turns[i], newest)
    BY <2>1 DEF TraceInv, TurnsGood
  <2>3. DOMAIN turns[i].events = 1 .. Len(turns[i].events)
    BY <2>2 DEF GoodTurn
  <2> QED
    BY <2>2, <2>3 DEF GoodTurn
<1> HIDE DEF S
<1>2. CASE S = {}
  BY <1>2, FS_EmptySet DEF S
<1>3. CASE S # {}
  <2>1. PICK p \in S : TRUE
    BY <1>3
  <2>2. S = {p}
    BY <1>1, <2>1
  <2>3. Cardinality(S) = 1
    BY <2>2, FS_Singleton
  <2> QED
    BY <2>3 DEF S
<1> QED
  BY <1>2, <1>3

\* An interrupted turn is quiet.
LEMMA QuietAre == ASSUME TraceAssumption, TraceInv PROVE InterruptedTurnsAreQuiet
<1> SUFFICES ASSUME NEW i \in DOMAIN turns, turns[i].st = "interrupted",
                    \A a \in 1 .. MaxRuns : driver[<<i, a>>] \in {"none", "over"},
                    NEW p \in DOMAIN turns[i].events
             PROVE  ~Live(turns[i].events[p])
  BY DEF InterruptedTurnsAreQuiet
<1>1. i \in 1 .. Len(turns) /\ turns[i] \in TurnSet
  BY TurnsAre DEF TraceInv
<1>2. Still(turns[i])
  BY <1>1 DEF TraceInv, DriversGood, NoneAtWork, AtWork
<1>3. p \in 1 .. Len(turns[i].events)
  BY <1>1 DEF TurnSet
<1> QED
  BY <1>2, <1>3 DEF Still

\* The reader has whole pages.
LEMMA PagesAre == ASSUME TraceAssumption, TraceInv PROVE PagesAreWhole
<1> DEFINE s == reader.seen
           b == reader.before
           n == Len(s)
<1> SUFFICES ASSUME s # <<>>
             PROVE  /\ s = [k \in 1 .. s[n] - s[1] + 1 |-> s[1] + k - 1]
                    /\ reader.more <=> s[1] > 1
  BY DEF PagesAreWhole
<1>1. /\ s \in Seq(Nat) /\ b \in 1 .. Len(turns) /\ \A k \in 1 .. n : s[k] = b + k - 1
      /\ reader.more <=> b > 1
  BY DEF TraceInv, ReaderGood
<1>2. Len(turns) \in Nat
  BY TurnsAre DEF TraceInv
<1> HIDE DEF s, b
<1>3. n \in Nat /\ n >= 1
  BY <1>1
<1>4. s[1] = b /\ s[n] = b + n - 1 /\ s[n] - s[1] + 1 = n
  <2>1. b \in Nat /\ 1 \in 1 .. n /\ n \in 1 .. n
    BY <1>1, <1>2, <1>3
  <2>2. s[1] = b + 1 - 1 /\ s[n] = b + n - 1
    BY <1>1, <2>1
  <2> QED
    BY <1>3, <2>1, <2>2
<1>5. s = [k \in 1 .. n |-> s[k]]
  BY <1>1
<1> HIDE DEF n
<1>6. s = [k \in 1 .. n |-> b + k - 1]
  BY <1>1, <1>5
<1> QED
  BY <1>1, <1>4, <1>6

\* All of it.
LEMMA TraceIsSound == ASSUME TraceAssumption, TraceInv PROVE TraceIsTrue /\ StoryInOrder
BY DetailIs, CommandsAre, QuietAre, PagesAre DEF TraceIsTrue, TraceInv

-----------------------------------------------------------------------------
(* The steps *)

\* It holds at the start.
LEMMA TraceStarts == ASSUME TraceAssumption, TraceInit PROVE TraceInv
<1>1. MaxTurns \in Nat /\ MaxEvents \in Nat
  BY DEF TraceAssumption
<1>2. Quiet \in Notice
  BY <1>1 DEF Quiet, NoView, Notice, NoticeType, ViewSet
<1>3. TurnsGood
  BY <1>1 DEF TraceInit, TurnsGood
<1>4. \A r \in Run : driver[r] = "none" /\ ~AtWork(r) /\ notice[r].pc = "idle"
  BY DEF TraceInit, AtWork, Quiet
<1>5. DriversGood
  <2>1. notice \in [Run -> Notice]
    <3> HIDE DEF Quiet
    <3> QED
      BY <1>2 DEF TraceInit
  <2>2. driver \in [Run -> DriverPlace]
    BY DEF TraceInit, DriverPlace
  <2> QED
    BY <1>4, <2>1, <2>2 DEF DriversGood, TraceInit
<1>6. ApartGood
  BY <1>4 DEF ApartGood, OneAtATime, AtWork
<1>7. FeedGood
  <2>1. ASSUME NEW r \in Run PROVE TellsInOrder(r)
    BY <1>4 DEF TellsInOrder, TurnTold, TraceInit
  <2> QED
    BY <2>1 DEF TraceInit, FeedGood
<1>8. ReaderGood
  BY DEF TraceInit, ReaderGood, NotRead
<1>9. StoryInOrder
  BY <1>6 DEF TraceInit, StoryInOrder, ApartGood
<1> QED
  BY <1>3, <1>5, <1>6, <1>7, <1>8, <1>9 DEF TraceInv

\* A turn that changes.
LEMMA BecomesKeeps ==
  ASSUME TraceAssumption, TurnsGood, newest < MaxEvents, NEW i \in 1 .. Len(turns), NEW t,
         GoodTurn(t, newest + 1), Becomes(i, t)
  PROVE  /\ TurnsGood' /\ Len(turns') = Len(turns) /\ turns'[i] = t
         /\ \A j \in 1 .. Len(turns) : j # i => turns'[j] = turns[j]
<1>1. /\ Len(turns) \in Nat /\ MaxEvents \in Nat /\ newest \in Nat /\ newest <= MaxEvents
      /\ turns \in Seq(TurnSet)
  BY TurnsAre DEF TurnsGood
<1>2. t \in TurnSet
  BY DEF GoodTurn, TurnSet
<1>3. /\ turns' \in Seq(TurnSet) /\ Len(turns') = Len(turns) /\ turns'[i] = t
      /\ \A j \in 1 .. Len(turns) : j # i => turns'[j] = turns[j]
  <2>1. turns' = [turns EXCEPT ![i] = t]
    BY DEF Becomes
  <2> HIDE DEF TurnSet
  <2> QED
    BY <1>1, <1>2, <2>1
<1>4. /\ newest' \in 0 .. MaxEvents /\ newest' \in Nat /\ newest <= newest'
  BY <1>1 DEF Becomes
<1>5. GoodTurn(t, newest')
  <2>1. CASE \E p \in DOMAIN t.events : t.events[p].id > newest
    <3>1. newest' = newest + 1
      BY <2>1 DEF Becomes
    <3> QED
      BY <3>1
  <2>2. CASE ~\E p \in DOMAIN t.events : t.events[p].id > newest
    <3>1. newest' = newest
      BY <2>2 DEF Becomes
    <3>2. ASSUME NEW p \in 1 .. Len(t.events) PROVE t.events[p].id >= p /\ t.events[p].id <= newest
      <4>1. t.events[p].id \in Nat /\ p \in DOMAIN t.events
        BY EventHas DEF GoodTurn
      <4>2. t.events[p].id >= p
        BY DEF GoodTurn
      <4> QED
        BY <1>1, <2>2, <4>1, <4>2
    <3> QED
      BY <3>1, <3>2 DEF GoodTurn
  <2> QED
    BY <2>1, <2>2
<1>6. ASSUME NEW j \in 1 .. Len(turns) PROVE GoodTurn(turns'[j], newest')
  <2>1. CASE j = i
    BY <1>3, <1>5, <2>1
  <2>2. CASE j # i
    <3>1. turns'[j] = turns[j] /\ GoodTurn(turns[j], newest)
      BY <1>3, <2>2 DEF TurnsGood
    <3> QED
      BY <1>1, <1>4, <3>1, MoreGood
  <2> QED
    BY <2>1, <2>2
<1> QED
  BY <1>3, <1>4, <1>6 DEF TurnsGood

\* What does not touch the reader leaves it good while turns are only added.
LEMMA ReaderKept ==
  ASSUME ReaderGood, Len(turns) \in Nat, Len(turns') \in Nat, Len(turns) <= Len(turns'), reader' = reader
  PROVE  ReaderGood'
<1>1. reader.seen \in Seq(Nat) => Len(reader.seen) \in Nat
  OBVIOUS
<1> QED
  BY <1>1 DEF ReaderGood

\* Nothing was told.
LEMMA StoryKept == ASSUME StoryInOrder, ApartGood', feed' = feed PROVE StoryInOrder'
BY DEF StoryInOrder, ApartGood

\* No run comes to work.
LEMMA ApartKept ==
  ASSUME ApartGood, swept' = swept \/ swept', busy' = busy \/ swept', active' = active,
         \A r \in Run : AtWork(r)' => AtWork(r)
  PROVE  ApartGood'
BY DEF ApartGood, OneAtATime, AtWork

\* A run comes to work when none is.
LEMMA ApartBegun ==
  ASSUME ApartGood, ~busy, NEW r \in Run, swept' = swept, busy', active' = r[1],
         \A q \in Run : q # r => driver'[q] = driver[q]
  PROVE  ApartGood'
<1>1. ASSUME ~swept, NEW q \in Run, q # r PROVE ~AtWork(q)'
  BY <1>1 DEF ApartGood, AtWork
<1> QED
  BY <1>1 DEF ApartGood, OneAtATime, AtWork

\* A goroutine tells what happened in its turn.
LEMMA TellsKept ==
  ASSUME TraceAssumption, TraceInv, NEW r \in Run, feed' = feed, page' = page,
         \A q \in Run : q # r => driver'[q] = driver[q] /\ notice'[q] = notice[q],
         TellsInOrder(r)'
  PROVE  FeedGood'
<1>1. ASSUME NEW q \in Run, q # r PROVE TellsInOrder(q)'
  <2>1. TellsInOrder(q) /\ driver'[q] = driver[q] /\ notice'[q] = notice[q]
    BY <1>1 DEF TraceInv, FeedGood
  <2> QED
    BY <2>1 DEF TellsInOrder, TurnTold, TurnEnded, Tells
<1>2. \A q \in Run : TellsInOrder(q)'
  BY <1>1
<1> QED
  BY <1>2 DEF TraceInv, FeedGood

\* A run that began is one of a turn.
LEMMA BegunIs ==
  ASSUME TraceAssumption, TraceInv, NEW r \in Run, driver[r] # "none"
  PROVE  /\ r[1] \in 1 .. Len(turns) /\ r[1] \in Turns /\ GoodTurn(turns[r[1]], newest)
         /\ TellsInOrder(r) /\ notice[r] \in Notice /\ driver[r] \in DriverPlace
<1>1. Len(turns) \in Nat /\ r[1] \in Turns /\ r[1] \in Nat /\ r[1] >= 1
  <2>1. Len(turns) \in Nat /\ r[1] \in Turns
    BY TurnsAre, RunIs DEF TraceInv
  <2> QED
    BY <2>1 DEF Turns, TraceAssumption
<1>2. ~(r[1] > Len(turns))
  BY DEF TraceInv, DriversGood
<1>3. r[1] \in 1 .. Len(turns)
  BY <1>1, <1>2
<1> QED
  BY <1>1, <1>3 DEF TraceInv, TurnsGood, FeedGood, DriversGood

\* A turn whose run is at work has a run at work.
LEMMA WorkHas ==
  ASSUME TraceAssumption, NEW r \in Run, AtWork(r) PROVE ~NoneAtWork(r[1])
BY RunIs, Zenon DEF NoneAtWork

\* What is due.
LEMMA DueIs ==
  ASSUME TraceAssumption, NEW type \in NoticeType, NEW id \in 0 .. MaxEvents
  PROVE  /\ Due(type, id) \in Notice /\ Due(type, id).pc = "due" /\ Due(type, id).type = type
         /\ Due(type, id).id = id
<1>1. MaxEvents \in Nat
  BY DEF TraceAssumption
<1>2. NoView \in ViewSet
  BY <1>1 DEF NoView, ViewSet
<1>3. Quiet \in [pc : {"idle"}, type : {"none"}, id : {0}, view : {NoView}]
  <2> HIDE DEF NoView
  <2> QED
    BY DEF Quiet
<1> DEFINE q == Quiet
<1>4. Due(type, id) = [q EXCEPT !.pc = "due", !.type = type, !.id = id]
  BY DEF Due
<1> HIDE DEF NoView, ViewSet, NoticeType, q
<1>5. q \in [pc : {"idle"}, type : {"none"}, id : {0}, view : ViewSet]
  BY <1>2, <1>3 DEF q
<1> QED
  BY <1>4, <1>5 DEF Notice

\* A turn that changes while its run is at work.
LEMMA ReportKeeps ==
  ASSUME TraceAssumption, TraceInv, NEW r \in Run, Reporting(r), NEW t, GoodTurn(t, newest + 1),
         Becomes(r[1], t), t.st = turns[r[1]].st,
         NEW type \in {"appended", "updated"}, NEW id \in 0 .. MaxEvents,
         notice' = notice \/ Publishes(r, type, id),
         UNCHANGED <<driver, active, busy, status, repo, halted, swept, feed, page, reader>>
  PROVE  TraceInv'
<1> DEFINE i == r[1]
<1>1. /\ i \in 1 .. Len(turns) /\ driver[r] = "on" /\ newest < MaxEvents /\ TellsInOrder(r)
      /\ GoodTurn(turns[i], newest)
  BY BegunIs DEF Reporting, Working, Room
<1>2. /\ TurnsGood' /\ Len(turns') = Len(turns) /\ turns'[i] = t
      /\ \A j \in 1 .. Len(turns) : j # i => turns'[j] = turns[j]
  BY <1>1, BecomesKeeps DEF TraceInv
<1>3. Len(turns) \in Nat
  BY TurnsAre DEF TraceInv
<1> DEFINE d == Due(type, id)
<1>4. d \in Notice /\ d.pc = "due" /\ d.type = type
  <2>1. type \in NoticeType
    BY DEF NoticeType
  <2> QED
    BY <2>1, DueIs
<1>5. notice' = notice \/ notice' = [notice EXCEPT ![r] = d]
  BY DEF Publishes
<1> HIDE DEF d
<1>6. /\ notice' \in [Run -> Notice]
      /\ \A q \in Run : q # r => notice'[q] = notice[q]
      /\ notice'[r] = notice[r] \/ notice'[r] = d
  BY <1>4, <1>5 DEF TraceInv, DriversGood
<1>7. DriversGood'
  <2>1. ~NoneAtWork(i)
    BY <1>1, WorkHas DEF AtWork
  <2>2. \A j \in 1 .. Len(turns) : turns'[j].st = "interrupted" /\ NoneAtWork(j) => Still(turns'[j])
    BY <1>2, <2>1 DEF TraceInv, DriversGood
  <2> QED
    BY <1>2, <1>6, <2>2 DEF TraceInv, DriversGood, NoneAtWork, AtWork
<1>8. FeedGood'
  <2>1. TellsInOrder(r)'
    <3>1. notice'[r] = notice[r] \/ notice'[r].type \in {"appended", "updated"}
      BY <1>4, <1>6
    <3> QED
      BY <1>1, <3>1 DEF TellsInOrder, TurnTold, TurnEnded, Tells
  <2> QED
    BY <1>6, <2>1, TellsKept
<1>9. ApartGood'
  BY ApartKept DEF TraceInv, AtWork
<1>10. ReaderGood' /\ StoryInOrder'
  BY <1>2, <1>3, <1>9, ReaderKept, StoryKept DEF TraceInv
<1> QED
  BY <1>2, <1>7, <1>8, <1>9, <1>10 DEF TraceInv

\* The first of the commands that are known by an id.
LEMMA FirstOf ==
  ASSUME TraceAssumption, NEW n, NEW t, GoodTurn(t, n), NEW item, CommandOf(t, item) # {}
  PROVE  LET p == CHOOSE p \in CommandOf(t, item) : \A q \in CommandOf(t, item) : p <= q
         IN  p \in 1 .. Len(t.events) /\ t.events[p].id \in 1 .. MaxEvents
<1> DEFINE S == CommandOf(t, item)
           p == CHOOSE p \in S : \A q \in S : p <= q
<1>1. DOMAIN t.events = 1 .. Len(t.events) /\ Len(t.events) \in Nat
  BY DEF GoodTurn
<1>2. S \in SUBSET Nat /\ S \in SUBSET (1 .. Len(t.events))
  BY <1>1 DEF CommandOf
<1> HIDE DEF S
<1>3. \E k \in S : \A q \in S : k <= q
  <2>1. S # {}
    BY DEF S
  <2> QED
    BY <1>2, <2>1, LeastNumber
<1>4. p \in S
  BY <1>3
<1>5. p \in 1 .. Len(t.events)
  BY <1>2, <1>4
<1>6. t.events[p] \in Event
  BY <1>1, <1>5 DEF GoodTurn
<1>7. t.events[p].id \in 1 .. MaxEvents
  BY <1>6, EventHas
<1> HIDE DEF p
<1> QED
  BY <1>5, <1>7 DEF p, S

\* codex reports a command, with a status.
LEMMA CommandKeeps ==
  ASSUME TraceAssumption, TraceInv, NEW r \in Run, Reporting(r), NEW item \in ItemId,
         NEW st \in EndStates \cup {"running"},
         LET i == r[1]
             t == turns[i]
             known == CommandOf(t, item)
         IN  IF known = {}
             THEN /\ Becomes(i, With(t, "command", item, st))
                  /\ Publishes(r, "appended", Fresh(t))
             ELSE LET p == CHOOSE p \in known : \A q \in known : p <= q
                  IN  /\ Becomes(i, [t EXCEPT !.events[p].st = st])
                      /\ Publishes(r, "updated", t.events[p].id),
         UNCHANGED <<driver, active, busy, status, repo, halted, swept, feed, page, reader>>
  PROVE  TraceInv'
<1> DEFINE i == r[1]
<1>1. i \in 1 .. Len(turns) /\ GoodTurn(turns[i], newest) /\ newest < MaxEvents
  BY BegunIs DEF Reporting, Working, Room
<1>2. newest \in Nat /\ newest <= newest + 1 /\ newest + 1 \in Nat /\ newest + 1 \in 0 .. MaxEvents
  BY <1>1, TurnsAre DEF TraceInv
<1>3. CASE CommandOf(turns[i], item) = {}
  <2> DEFINE u == With(turns[i], "command", item, st)
             id == Fresh(turns[i])
  <2>1. GoodTurn(u, newest + 1) /\ u.st = turns[i].st
    <3>1. "command" \in EventType
      BY DEF EventType
    <3> QED
      BY <1>1, <1>2, <1>3, <3>1, WithGood
  <2>2. Becomes(i, u) /\ Publishes(r, "appended", id)
    BY <1>3
  <2>3. id \in 0 .. MaxEvents
    BY <1>2 DEF Fresh
  <2> HIDE DEF u, id
  <2> QED
    BY <2>1, <2>2, <2>3, ReportKeeps
<1>4. CASE CommandOf(turns[i], item) # {}
  <2> DEFINE p == CHOOSE p \in CommandOf(turns[i], item) : \A q \in CommandOf(turns[i], item) : p <= q
             u == Marked(turns[i], p, st)
             id == turns[i].events[p].id
  <2>1. p \in 1 .. Len(turns[i].events) /\ id \in 1 .. MaxEvents
    BY <1>1, <1>4, FirstOf
  <2>2. Becomes(i, u) /\ Publishes(r, "updated", id)
    BY <1>4 DEF Marked
  <2> HIDE DEF p
  <2>3. GoodTurn(u, newest) /\ u.st = turns[i].st
    BY <1>1, <2>1, ChangedGood
  <2> HIDE DEF u
  <2>4. GoodTurn(u, newest + 1)
    BY <1>2, <2>3, MoreGood
  <2> HIDE DEF id
  <2>5. id \in 0 .. MaxEvents
    BY <2>1
  <2> QED
    BY <2>2, <2>3, <2>4, <2>5, ReportKeeps
<1> QED
  BY <1>3, <1>4

\* codex begins a command.
LEMMA StartedKeeps ==
  ASSUME TraceAssumption, TraceInv, NEW r \in Run, CommandStarted(r) PROVE TraceInv'
<1> USE DEF EndStates
<1> QED
  BY CommandKeeps DEF CommandStarted

\* codex ends a command.
LEMMA CommandDoneKeeps ==
  ASSUME TraceAssumption, TraceInv, NEW r \in Run, CommandCompleted(r) PROVE TraceInv'
<1>1. {"completed", "failed", "running"} \in SUBSET (EndStates \cup {"running"})
  BY DEF EndStates
<1> QED
  BY <1>1, CommandKeeps DEF CommandCompleted

\* codex completes a text.
LEMMA TextKeeps ==
  ASSUME TraceAssumption, TraceInv, NEW r \in Run, TextCompleted(r) PROVE TraceInv'
<1> DEFINE i == r[1]
<1>1. i \in 1 .. Len(turns) /\ GoodTurn(turns[i], newest) /\ newest < MaxEvents /\ Reporting(r)
  BY BegunIs DEF TextCompleted, Reporting, Working, Room
<1>2. newest \in Nat /\ newest + 1 \in 0 .. MaxEvents
  BY <1>1, TurnsAre DEF TraceInv
<1>3. PICK type \in Said, final \in BOOLEAN :
        /\ Becomes(i, With(turns[i], type, NoItem, "completed"))
        /\ IF final THEN UNCHANGED notice ELSE Publishes(r, "appended", Fresh(turns[i]))
  BY DEF TextCompleted
<1> DEFINE u == With(turns[i], type, NoItem, "completed")
           id == Fresh(turns[i])
<1>4. GoodTurn(u, newest + 1) /\ u.st = turns[i].st
  <2>1. /\ type \in EventType /\ type # "command" /\ NoItem \in ItemId
        /\ "completed" \in EndStates \cup {"running"}
    BY DEF TraceAssumption, EventType, EndStates
  <2> QED
    BY <1>1, <1>2, <2>1, WithGood
<1>5. Becomes(i, u) /\ (notice' = notice \/ Publishes(r, "appended", id)) /\ id \in 0 .. MaxEvents
  BY <1>2, <1>3 DEF Fresh
<1>6. UNCHANGED <<driver, active, busy, status, repo, halted, swept, feed, page, reader>>
  BY DEF TextCompleted
<1> HIDE DEF u, id
<1> QED
  BY <1>1, <1>4, <1>5, <1>6, ReportKeeps

\* A run is announced.
LEMMA AnnouncedIs ==
  ASSUME TraceAssumption, TraceInv, NEW r \in Run, driver[r] = "none", Announced(r)
  PROVE  /\ driver' \in [Run -> DriverPlace] /\ notice' \in [Run -> Notice]
         /\ driver'[r] = "announce"
         /\ \A q \in Run : q # r => driver'[q] = driver[q] /\ notice'[q] = notice[q]
         /\ feed' = feed => TellsInOrder(r)'
<1> DEFINE d == Due("started", 0)
<1>1. d \in Notice /\ d.pc = "due" /\ d.type = "started" /\ d.id = 0
  <2>1. "started" \in NoticeType /\ 0 \in 0 .. MaxEvents
    BY DEF NoticeType, TraceAssumption
  <2> QED
    BY <2>1, DueIs
<1>2. driver' = [driver EXCEPT ![r] = "announce"] /\ notice' = [notice EXCEPT ![r] = d]
  BY DEF Announced
<1> HIDE DEF d
<1>3. driver \in [Run -> DriverPlace] /\ notice \in [Run -> Notice] /\ "announce" \in DriverPlace
  BY DEF TraceInv, DriversGood, DriverPlace
<1>4. /\ driver' \in [Run -> DriverPlace] /\ notice' \in [Run -> Notice]
      /\ driver'[r] = "announce" /\ notice'[r] = d
      /\ \A q \in Run : q # r => driver'[q] = driver[q] /\ notice'[q] = notice[q]
  BY <1>1, <1>2, <1>3
<1>5. ASSUME feed' = feed PROVE TellsInOrder(r)'
  <2>1. ~TurnTold(r)
    BY DEF TraceInv, FeedGood, TellsInOrder
  <2>2. ~TurnTold(r)'
    BY <1>5, <2>1 DEF TurnTold, Tells
  <2> QED
    BY <1>1, <1>4, <2>2 DEF TellsInOrder
<1> QED
  BY <1>4, <1>5

\* A turn starts.
LEMMA StartKeeps == ASSUME TraceAssumption, TraceInv, StartTurn PROVE TraceInv'
<1>0. Len(turns) \in Nat
  BY TurnsAre DEF TraceInv
<1> PICK i \in Nat : i = Len(turns) + 1
  BY <1>0
<1> DEFINE t == [st |-> "running", events |-> <<>>, final |-> 0]
           r == <<i, 1>>
<1>1. /\ Len(turns) \in Nat /\ MaxTurns \in Nat /\ MaxEvents \in Nat /\ newest \in Nat
      /\ i \in Turns /\ turns \in Seq(TurnSet) /\ i \in 1 .. i /\ i \in Nat
  BY TurnsAre DEF TraceInv, TurnsGood, StartTurn, Turns
<1>2. GoodTurn(t, newest) /\ t \in TurnSet /\ t.st = "running"
  <2>1. <<>> \in Seq(Event) /\ Len(<<>>) = 0 /\ 0 \in 0 .. MaxEvents + 1
    BY <1>1
  <2>2. t \in TurnSet /\ t.events = <<>> /\ t.st = "running"
    BY <2>1 DEF TurnSet
  <2> HIDE DEF t
  <2> QED
    BY <2>1, <2>2 DEF GoodTurn, TurnSet
<1>3. /\ turns' = Append(turns, t) /\ active' = i /\ busy' = TRUE /\ status' = "busy" /\ Len(turns) < MaxTurns
      /\ ~busy /\ Announced(r)
      /\ UNCHANGED <<newest, halted, swept, feed, page, reader>>
  BY DEF StartTurn
<1>4. r \in Run /\ r[1] = i /\ r[2] = 1
  BY <1>1, RunIs
<1> HIDE DEF t, r
<1>5. /\ turns' \in Seq(TurnSet) /\ Len(turns') = i /\ turns'[i] = t
      /\ \A j \in 1 .. Len(turns) : turns'[j] = turns[j]
  <2> HIDE DEF TurnSet
  <2> QED
    BY <1>1, <1>2, <1>3
<1>6. \A j \in 1 .. i : j \in 1 .. Len(turns) \/ j = i
  BY <1>1
<1>7. TurnsGood'
  <2>1. \A j \in 1 .. i : GoodTurn(turns'[j], newest)
    BY <1>2, <1>5, <1>6 DEF TraceInv, TurnsGood
  <2> QED
    BY <1>1, <1>3, <1>5, <2>1 DEF TraceInv, TurnsGood
<1>8. driver[r] = "none"
  BY <1>1, <1>4 DEF TraceInv, DriversGood
<1>9. /\ driver' \in [Run -> DriverPlace] /\ notice' \in [Run -> Notice]
      /\ driver'[r] = "announce" /\ TellsInOrder(r)'
      /\ \A q \in Run : q # r => driver'[q] = driver[q] /\ notice'[q] = notice[q]
  BY <1>3, <1>4, <1>8, AnnouncedIs
<1>10. DriversGood'
  <2>1. active' \in 0 .. i /\ active' # 0
    BY <1>1, <1>3
  <2>2. ASSUME NEW q \in Run, q[1] > i PROVE driver'[q] = "none"
    <3>1. q # r /\ q[1] > Len(turns)
      <4>1. q[1] \in Turns
        BY RunIs
      <4> QED
        BY <1>1, <1>4, <2>2, <4>1 DEF Turns
    <3> QED
      BY <1>9, <3>1 DEF TraceInv, DriversGood
  <2>3. ASSUME NEW j \in 1 .. i PROVE driver'[<<j, 1>>] # "none"
    <3>1. <<j, 1>> \in Run
      <4>1. j \in Turns
        BY <1>1 DEF Turns
      <4> QED
        BY <4>1, RunIs
    <3>2. CASE j = i
      BY <1>9, <3>2 DEF r
    <3>3. CASE j # i
      <4>1. j \in 1 .. Len(turns) /\ <<j, 1>> # r
        BY <1>6, <3>3 DEF r
      <4> QED
        BY <1>9, <3>1, <4>1 DEF TraceInv, DriversGood
    <3> QED
      BY <3>2, <3>3
  <2>4. ASSUME NEW j \in 1 .. i, turns'[j].st = "interrupted", NoneAtWork(j)' PROVE Still(turns'[j])
    <3>1. j # i
      BY <1>2, <1>5, <2>4
    <3>2. j \in 1 .. Len(turns) /\ j \in Turns /\ turns'[j] = turns[j]
      BY <1>5, <1>6, <3>1, TurnsAre DEF TraceInv
    <3>3. \A a \in 1 .. MaxRuns : <<j, a>> \in Run /\ <<j, a>> # r
      BY <3>1, <3>2, RunIs DEF r
    <3>4. NoneAtWork(j)
      BY <1>9, <2>4, <3>3 DEF NoneAtWork, AtWork
    <3> QED
      BY <2>4, <3>2, <3>4 DEF TraceInv, DriversGood
  <2> QED
    BY <1>3, <1>5, <1>9, <2>1, <2>2, <2>3, <2>4 DEF DriversGood
<1>11. FeedGood'
  BY <1>3, <1>4, <1>9, TellsKept
<1>12. ApartGood'
  BY <1>3, <1>4, <1>9, ApartBegun DEF TraceInv
<1>13. ReaderGood' /\ StoryInOrder'
  BY <1>1, <1>3, <1>5, <1>12, ReaderKept, StoryKept DEF TraceInv
<1> QED
  BY <1>7, <1>10, <1>11, <1>12, <1>13 DEF TraceInv

\* A turn runs again.
LEMMA RetryKeeps ==
  ASSUME TraceAssumption, TraceInv, NEW i \in Turns, RetryRepository(i) PROVE TraceInv'
<1>1. i \in 1 .. Len(turns) /\ Len(turns) \in Nat
  BY TurnsAre DEF TraceInv, RetryRepository
<1>2. PICK a \in 2 .. MaxRuns : driver[<<i, a>>] = "none" /\ Announced(<<i, a>>)
  BY DEF RetryRepository
<1> DEFINE r == <<i, a>>
           t == [turns[i] EXCEPT !.st = "running", !.final = 0]
<1>3. r \in Run /\ r[1] = i
  <2>1. a \in 1 .. MaxRuns
    BY DEF TraceAssumption
  <2> QED
    BY <2>1, RunIs
<1>4. /\ turns' = [turns EXCEPT ![i] = t] /\ active' = i /\ busy' = TRUE /\ status' = "busy" /\ ~busy
      /\ UNCHANGED <<newest, halted, swept, feed, page, reader>>
  BY DEF RetryRepository
<1>5. GoodTurn(t, newest) /\ t.st = "running" /\ t \in TurnSet
  <2>1. GoodTurn(turns[i], newest)
    BY <1>1 DEF TraceInv, TurnsGood
  <2>2. GoodTurn(t, newest) /\ t.st = "running"
    BY <2>1, AgainGood
  <2> HIDE DEF t
  <2> QED
    BY <2>2 DEF GoodTurn, TurnSet
<1>6. /\ driver' \in [Run -> DriverPlace] /\ notice' \in [Run -> Notice]
      /\ driver'[r] = "announce" /\ TellsInOrder(r)'
      /\ \A q \in Run : q # r => driver'[q] = driver[q] /\ notice'[q] = notice[q]
  BY <1>2, <1>3, <1>4, AnnouncedIs
<1> HIDE DEF t, r
<1>7. /\ turns' \in Seq(TurnSet) /\ Len(turns') = Len(turns) /\ turns'[i] = t
      /\ \A j \in 1 .. Len(turns) : j # i => turns'[j] = turns[j]
  <2>1. turns \in Seq(TurnSet)
    BY DEF TraceInv, TurnsGood
  <2> HIDE DEF TurnSet
  <2> QED
    BY <1>1, <1>4, <1>5, <2>1
<1>8. TurnsGood'
  <2>1. ASSUME NEW j \in 1 .. Len(turns) PROVE GoodTurn(turns'[j], newest)
    <3>1. CASE j = i
      BY <1>5, <1>7, <3>1
    <3>2. CASE j # i
      BY <1>7, <3>2 DEF TraceInv, TurnsGood
    <3> QED
      BY <3>1, <3>2
  <2> QED
    BY <1>4, <1>7, <2>1 DEF TraceInv, TurnsGood
<1>9. DriversGood'
  <2>1. active' \in 0 .. Len(turns) /\ active' # 0
    BY <1>1, <1>4
  <2>2. ASSUME NEW q \in Run, q[1] > Len(turns) PROVE driver'[q] = "none"
    <3>1. q # r
      BY <1>1, <1>3, <2>2
    <3> QED
      BY <1>6, <2>2, <3>1 DEF TraceInv, DriversGood
  <2>3. ASSUME NEW j \in 1 .. Len(turns) PROVE driver'[<<j, 1>>] # "none"
    <3>1. <<j, 1>> \in Run
      BY RunIs, TurnsAre DEF TraceInv
    <3>2. CASE <<j, 1>> = r
      BY <1>6, <3>2
    <3>3. CASE <<j, 1>> # r
      BY <1>6, <3>1, <3>3 DEF TraceInv, DriversGood
    <3> QED
      BY <3>2, <3>3
  <2>4. ASSUME NEW j \in 1 .. Len(turns), turns'[j].st = "interrupted", NoneAtWork(j)' PROVE Still(turns'[j])
    <3>1. j # i
      BY <1>5, <1>7, <2>4
    <3>2. j \in Turns /\ turns'[j] = turns[j]
      BY <1>7, <3>1, TurnsAre DEF TraceInv
    <3>3. \A b \in 1 .. MaxRuns : <<j, b>> \in Run /\ <<j, b>> # r
      BY <3>1, <3>2, RunIs DEF r
    <3>4. NoneAtWork(j)
      BY <1>6, <2>4, <3>3 DEF NoneAtWork, AtWork
    <3> QED
      BY <2>4, <3>2, <3>4 DEF TraceInv, DriversGood
  <2> QED
    BY <1>4, <1>6, <1>7, <2>1, <2>2, <2>3, <2>4 DEF DriversGood
<1>10. FeedGood'
  BY <1>3, <1>4, <1>6, TellsKept
<1>11. ApartGood'
  BY <1>3, <1>4, <1>6, ApartBegun DEF TraceInv
<1>12. ReaderGood' /\ StoryInOrder'
  BY <1>1, <1>4, <1>7, <1>11, ReaderKept, StoryKept DEF TraceInv
<1> QED
  BY <1>8, <1>9, <1>10, <1>11, <1>12 DEF TraceInv

\* The goroutine of a run goes on.
LEMMA GoesOn ==
  ASSUME TraceAssumption, TraceInv, NEW r \in Run, NEW to \in DriverPlace,
         driver[r] # "none", to # "none", AtWork(r) <=> to # "over",
         driver' = [driver EXCEPT ![r] = to],
         notice' \in [Run -> Notice], UNCHANGED <<turns, newest, active, busy, status, swept>>
  PROVE  DriversGood' /\ ApartGood' /\ driver'[r] = to /\ \A q \in Run : q # r => driver'[q] = driver[q]
<1>1. /\ driver' \in [Run -> DriverPlace] /\ driver'[r] = to
      /\ \A q \in Run : q # r => driver'[q] = driver[q]
  BY DEF TraceInv, DriversGood
<1>2. \A q \in Run : (AtWork(q)' <=> AtWork(q)) /\ (driver'[q] = "none" <=> driver[q] = "none")
  BY <1>1 DEF AtWork
<1>3. DriversGood'
  <2>1. \A i \in 1 .. Len(turns) : \A a \in 1 .. MaxRuns : <<i, a>> \in Run
    BY TurnsAre, RunIs DEF TraceInv
  <2>2. \A i \in 1 .. Len(turns) : (NoneAtWork(i)' <=> NoneAtWork(i)) /\ driver'[<<i, 1>>] # "none"
    <3>1. \A i \in 1 .. Len(turns) : <<i, 1>> \in Run /\ driver[<<i, 1>>] # "none"
      BY TurnsAre, RunIs DEF TraceInv, DriversGood
    <3> QED
      BY <1>2, <2>1, <3>1 DEF NoneAtWork
  <2> QED
    BY <1>1, <1>2, <2>2 DEF TraceInv, DriversGood
<1>4. ApartGood'
  BY <1>2, ApartKept DEF TraceInv
<1> QED
  BY <1>1, <1>3, <1>4

\* The repository of a run is ready, or not to be had.
LEMMA EndPreparationKeeps ==
  ASSUME TraceAssumption, TraceInv, NEW r \in Run, EndPreparation(r) PROVE TraceInv'
<1>1. PICK to \in {"on", "unprepared"} : driver' = [driver EXCEPT ![r] = to]
  BY DEF EndPreparation
<1>2. /\ driver[r] = "clone"
      /\ UNCHANGED <<turns, newest, active, busy, status, halted, swept, notice, feed, page, reader>>
  BY DEF EndPreparation
<1>3. to \in DriverPlace /\ to # "none" /\ (AtWork(r) <=> to # "over") /\ notice' \in [Run -> Notice]
  BY <1>2 DEF DriverPlace, AtWork, TraceInv, DriversGood
<1>4. DriversGood' /\ ApartGood' /\ driver'[r] = to /\ \A q \in Run : q # r => driver'[q] = driver[q]
  BY <1>1, <1>2, <1>3, GoesOn
<1>5. FeedGood'
  <2>1. TellsInOrder(r)
    BY DEF TraceInv, FeedGood
  <2>2. TellsInOrder(r)'
    BY <1>2, <1>4, <2>1 DEF TellsInOrder, TurnTold, TurnEnded, Tells
  <2> QED
    BY <1>2, <1>4, <2>2, TellsKept
<1>6. TurnsGood' /\ ReaderGood' /\ StoryInOrder'
  BY <1>2, <1>4, StoryKept DEF TraceInv, TurnsGood, ReaderGood
<1> QED
  BY <1>4, <1>5, <1>6 DEF TraceInv

\* The end of a turn.
LEMMA FinishKeeps ==
  ASSUME TraceAssumption, TraceInv, NEW r \in Run, FinishTurn(r) PROVE TraceInv'
<1> DEFINE i == r[1]
<1>1. /\ i \in 1 .. Len(turns) /\ GoodTurn(turns[i], newest) /\ newest < MaxEvents
      /\ driver[r] \in {"on", "unprepared"} /\ TellsInOrder(r)
  <2>1. driver[r] \in {"on", "unprepared"} /\ newest < MaxEvents
    BY DEF FinishTurn, Room, Working
  <2> QED
    BY <2>1, BegunIs
<1>2. newest \in Nat /\ Len(turns) \in Nat /\ MaxEvents \in Nat
  BY TurnsAre DEF TraceInv
<1>3. PICK how, t :
        /\ how \in {"ok", "failed", "interrupted", "norollout"} /\ t \in Finished(i, how)
        /\ Becomes(i, t)
        /\ Publishes(r, t.st, 0)
        /\ status' = IF Superseded(i) THEN status
                     ELSE CASE how = "ok" -> "ready"
                            [] how = "interrupted" -> "interrupted"
                            [] OTHER -> "failed"
  BY DEF FinishTurn
<1>4. GoodTurn(t, newest + 1) /\ t.st \in EndStates /\ (t.st = "interrupted" => Still(t))
  <2>1. /\ GoodTurn(Completed(turns[i]), newest + 1) /\ Completed(turns[i]).st = "completed"
        /\ GoodTurn(FailedTurn(turns[i]), newest + 1) /\ FailedTurn(turns[i]).st = "failed"
        /\ GoodTurn(FailedAgain(turns[i]), newest + 1) /\ FailedAgain(turns[i]).st = "failed"
        /\ GoodTurn(WithoutRollout(turns[i]), newest + 1) /\ WithoutRollout(turns[i]).st = "failed"
        /\ GoodTurn(Interrupted(turns[i]), newest + 1) /\ Interrupted(turns[i]).st = "interrupted"
        /\ Still(Interrupted(turns[i]))
    BY <1>1, <1>2, EndsGood
  <2>2. {"completed", "failed", "interrupted"} \subseteq EndStates
    BY DEF EndStates
  <2>3. t \in {Completed(turns[i]), FailedTurn(turns[i]), FailedAgain(turns[i]),
               WithoutRollout(turns[i]), Interrupted(turns[i])}
    <3>1. CASE how = "ok"
      BY <1>3, <3>1 DEF Finished
    <3>2. CASE how = "interrupted"
      BY <1>3, <3>2 DEF Finished
    <3>3. CASE how = "failed" \/ (how = "norollout" /\ Superseded(i))
      BY <1>3, <3>3 DEF Finished
    <3>4. CASE how = "norollout" /\ ~Superseded(i)
      BY <1>3, <3>4 DEF Finished
    <3> QED
      BY <1>3, <3>1, <3>2, <3>3, <3>4
  <2> QED
    BY <2>1, <2>2, <2>3
<1>5. /\ TurnsGood' /\ Len(turns') = Len(turns) /\ turns'[i] = t
      /\ \A j \in 1 .. Len(turns) : j # i => turns'[j] = turns[j]
  BY <1>1, <1>3, <1>4, BecomesKeeps DEF TraceInv
<1> DEFINE d == Due(t.st, 0)
<1>6. d \in Notice /\ d.pc = "due" /\ d.type \in EndStates
  <2>1. t.st \in NoticeType /\ t.st \in EndStates /\ 0 \in 0 .. MaxEvents
    BY <1>2, <1>4 DEF NoticeType
  <2> QED
    BY <2>1, DueIs
<1>7. notice' = [notice EXCEPT ![r] = d] /\ driver' = [driver EXCEPT ![r] = "over"]
  BY <1>3 DEF FinishTurn, Publishes
<1> HIDE DEF d
<1>8. /\ driver' \in [Run -> DriverPlace] /\ notice' \in [Run -> Notice]
      /\ driver'[r] = "over" /\ notice'[r] = d
      /\ \A q \in Run : q # r => driver'[q] = driver[q] /\ notice'[q] = notice[q]
  BY <1>6, <1>7 DEF TraceInv, DriversGood, DriverPlace
<1>9. feed' = feed /\ page' = page /\ reader' = reader /\ swept' = swept /\ Freed(i)
  BY DEF FinishTurn
<1>10. DriversGood'
  <2>1. active' \in 0 .. Len(turns)
    BY <1>2, <1>9 DEF Freed, TraceInv, DriversGood
  <2>2. busy' => status' = "busy" /\ active' # 0
    <3> SUFFICES ASSUME busy' PROVE status' = "busy" /\ active' # 0
      OBVIOUS
    <3>1. active # i /\ busy' = busy /\ active' = active
      BY <1>9 DEF Freed
    <3>2. active # 0 /\ status = "busy"
      BY <3>1 DEF TraceInv, DriversGood
    <3>3. Superseded(i)
      BY <3>1, <3>2 DEF Superseded
    <3>4. status' = status
      BY <1>3, <3>3
    <3> QED
      BY <3>1, <3>2, <3>4
  <2>3. \A q \in Run : driver'[q] = "none" <=> driver[q] = "none"
    BY <1>1, <1>8
  <2>4. \A j \in 1 .. Len(turns) : driver'[<<j, 1>>] # "none"
    <3>1. \A j \in 1 .. Len(turns) : <<j, 1>> \in Run /\ driver[<<j, 1>>] # "none"
      BY TurnsAre, RunIs DEF TraceInv, DriversGood
    <3> QED
      BY <2>3, <3>1
  <2>5. ASSUME NEW j \in 1 .. Len(turns), turns'[j].st = "interrupted", NoneAtWork(j)' PROVE Still(turns'[j])
    <3>1. CASE j = i
      BY <1>4, <1>5, <2>5, <3>1
    <3>2. CASE j # i
      <4>1. turns'[j] = turns[j]
        BY <1>5, <3>2
      <4>2. \A a \in 1 .. MaxRuns : <<j, a>> \in Run /\ <<j, a>> # r
        BY <3>2, RunIs, TurnsAre DEF TraceInv
      <4>3. NoneAtWork(j)
        BY <1>8, <2>5, <4>2 DEF NoneAtWork, AtWork
      <4> QED
        BY <2>5, <4>1, <4>3 DEF TraceInv, DriversGood
    <3> QED
      BY <3>1, <3>2
  <2>6. \A q \in Run : q[1] > Len(turns) => driver'[q] = "none"
    BY <2>3 DEF TraceInv, DriversGood
  <2> QED
    BY <1>5, <1>8, <2>1, <2>2, <2>4, <2>5, <2>6 DEF DriversGood
<1>11. FeedGood'
  <2>1. TellsInOrder(r)'
    <3>1. TurnTold(r) /\ ~TurnEnded(r)
      BY <1>1 DEF TellsInOrder
    <3>2. TurnTold(r)' /\ ~TurnEnded(r)'
      BY <1>9, <3>1 DEF TurnTold, TurnEnded, Tells
    <3> QED
      BY <1>6, <1>8, <3>2 DEF TellsInOrder
  <2> QED
    BY <1>8, <1>9, <2>1, TellsKept
<1>12. ApartGood'
  <2>1. ASSUME ~swept, NEW q \in Run PROVE ~AtWork(q)'
    <3>1. CASE q = r
      BY <1>8, <3>1 DEF AtWork
    <3>2. CASE q # r
      BY <1>1, <1>8, <2>1, <3>2 DEF TraceInv, ApartGood, OneAtATime, AtWork
    <3> QED
      BY <3>1, <3>2
  <2> QED
    BY <1>9, <2>1 DEF ApartGood, OneAtATime, AtWork
<1>13. ReaderGood' /\ StoryInOrder'
  BY <1>2, <1>5, <1>9, <1>12, ReaderKept, StoryKept DEF TraceInv
<1> QED
  BY <1>5, <1>10, <1>11, <1>12, <1>13 DEF TraceInv

\* The program is told to stop.
LEMMA CancelKeeps == ASSUME TraceAssumption, TraceInv, Cancel PROVE TraceInv'
<1>1. UNCHANGED <<turns, newest, driver, active, busy, status, swept, notice, feed, page, reader>>
  BY DEF Cancel
<1>2. TurnsGood' /\ DriversGood' /\ ReaderGood'
  BY <1>1 DEF TraceInv, TurnsGood, DriversGood, NoneAtWork, AtWork, ReaderGood
<1>3. ApartGood' /\ StoryInOrder'
  BY <1>1, StoryKept DEF TraceInv, ApartGood, OneAtATime, AtWork
<1>4. FeedGood'
  BY <1>1 DEF TraceInv, FeedGood, TellsInOrder, TurnTold, TurnEnded, Tells
<1> QED
  BY <1>2, <1>3, <1>4 DEF TraceInv

\* The shutdown interrupts the turn of a busy session.
LEMMA SweepKeeps == ASSUME TraceAssumption, TraceInv, SweepTurn PROVE TraceInv'
<1>1. /\ busy' = FALSE /\ swept' = TRUE
      /\ UNCHANGED <<driver, active, notice, feed, page, reader>>
  BY DEF SweepTurn
<1>2. Len(turns) \in Nat /\ newest \in Nat
  BY TurnsAre DEF TraceInv
<1>3. /\ TurnsGood' /\ Len(turns') = Len(turns)
      /\ \A j \in 1 .. Len(turns) : turns'[j] = turns[j] \/ Still(turns'[j])
  <2>1. CASE status = "busy" /\ active # 0
    <3> DEFINE t == Interrupted(turns[active])
    <3>1. active \in 1 .. Len(turns)
      BY <1>2, <2>1 DEF TraceInv, DriversGood
    <3>2. newest < MaxEvents /\ Becomes(active, t)
      BY <2>1 DEF SweepTurn, Room
    <3>3. GoodTurn(turns[active], newest)
      BY <3>1 DEF TraceInv, TurnsGood
    <3>4. GoodTurn(t, newest + 1) /\ Still(t)
      BY <1>2, <3>2, <3>3, EndsGood
    <3> HIDE DEF t
    <3>5. /\ TurnsGood' /\ Len(turns') = Len(turns) /\ turns'[active] = t
          /\ \A j \in 1 .. Len(turns) : j # active => turns'[j] = turns[j]
      BY <3>1, <3>2, <3>4, BecomesKeeps DEF TraceInv
    <3>6. ASSUME NEW j \in 1 .. Len(turns) PROVE turns'[j] = turns[j] \/ Still(turns'[j])
      BY <3>4, <3>5
    <3> QED
      BY <3>5, <3>6
  <2>2. CASE ~(status = "busy" /\ active # 0)
    <3>1. UNCHANGED <<turns, newest>>
      BY <2>2 DEF SweepTurn
    <3> QED
      BY <3>1 DEF TraceInv, TurnsGood
  <2> QED
    BY <2>1, <2>2
<1>4. DriversGood'
  <2>1. ASSUME NEW j \in 1 .. Len(turns), turns'[j].st = "interrupted", NoneAtWork(j)
        PROVE  Still(turns'[j])
    BY <1>3, <2>1 DEF TraceInv, DriversGood
  <2> QED
    BY <1>1, <1>3, <2>1 DEF TraceInv, DriversGood, NoneAtWork, AtWork
<1>5. FeedGood'
  BY <1>1 DEF TraceInv, FeedGood, TellsInOrder, TurnTold, TurnEnded, Tells
<1>6. ApartGood'
  BY <1>1 DEF ApartGood, OneAtATime
<1>7. ReaderGood' /\ StoryInOrder'
  BY <1>1, <1>2, <1>3, <1>6, ReaderKept, StoryKept DEF TraceInv
<1> QED
  BY <1>3, <1>4, <1>5, <1>6, <1>7 DEF TraceInv

\* What a page is shown of an event.
LEMMA ViewIs ==
  ASSUME TraceAssumption, NEW e \in Event PROVE View(e) \in ViewSet
<1>1. e.id \in 0 .. MaxEvents /\ e.type \in EventType /\ e.st \in EndStates \cup {"running", "none"}
  BY EventHas DEF TraceAssumption
<1>2. ApiKind[e.type] \in {"commands", "important_text", "reasoning", "plan", "system", "none"}
  BY <1>1 DEF ApiKind, EventType
<1> DEFINE k == ApiKind[e.type]
<1> HIDE DEF k
<1> QED
  BY <1>1, <1>2 DEF View, ViewSet, k

\* The payload is read.
LEMMA ReadPayloadKeeps ==
  ASSUME TraceAssumption, TraceInv, NEW r \in Run, ReadPayload(r) PROVE TraceInv'
<1> DEFINE i == r[1]
           n == notice[r]
           v == View(Looked(turns[i], n.id))
           d == IF n.id = 0 THEN [n EXCEPT !.pc = "held"]
                ELSE IF Found(turns[i], n.id) THEN [n EXCEPT !.pc = "held", !.view = v]
                     ELSE Quiet
<1>1. /\ n.pc = "due" /\ notice' = [notice EXCEPT ![r] = d]
      /\ UNCHANGED <<turns, newest, driver, active, busy, status, repo, halted, swept, feed, page, reader>>
  BY DEF ReadPayload
<1>2. i \in 1 .. Len(turns) /\ driver[r] # "none" /\ TellsInOrder(r) /\ n \in Notice /\ GoodTurn(turns[i], newest)
  <2>1. driver[r] # "none"
    BY <1>1 DEF TraceInv, FeedGood, TellsInOrder
  <2> QED
    BY <2>1, BegunIs
<1>3. Found(turns[i], n.id) => v \in ViewSet
  <2> SUFFICES ASSUME Found(turns[i], n.id) PROVE v \in ViewSet
    OBVIOUS
  <2>1. turns[i].events \in Seq(Event)
    BY <1>2 DEF GoodTurn
  <2> HIDE DEF n
  <2>2. PlaceOf(turns[i], n.id) \in 1 .. Len(turns[i].events)
    BY <2>1, PlaceIs
  <2>3. Looked(turns[i], n.id) \in Event
    BY <2>1, <2>2 DEF Looked
  <2> QED
    BY <2>3, ViewIs
<1>4. /\ d \in Notice
      /\ (d.pc = "idle" /\ n.id # 0) \/ (d.pc = "held" /\ d.type = n.type /\ d.id = n.id)
  <2>1. CASE n.id = 0
    <3> HIDE DEF n, v, ViewSet, NoticeType
    <3>1. d = [n EXCEPT !.pc = "held"]
      BY <2>1
    <3> QED
      BY <1>2, <3>1 DEF Notice
  <2>2. CASE n.id # 0 /\ Found(turns[i], n.id)
    <3> HIDE DEF n, v, ViewSet, NoticeType
    <3>1. d = [n EXCEPT !.pc = "held", !.view = v]
      BY <2>2
    <3> QED
      BY <1>2, <1>3, <2>2, <3>1 DEF Notice
  <2>3. CASE n.id # 0 /\ ~Found(turns[i], n.id)
    <3>1. d = Quiet
      BY <2>3
    <3>2. NoView \in ViewSet /\ 0 \in 0 .. MaxEvents
      BY DEF NoView, ViewSet, TraceAssumption
    <3>3. Quiet \in Notice /\ Quiet.pc = "idle"
      <4> HIDE DEF NoView, ViewSet
      <4> QED
        BY <3>2 DEF Quiet, Notice, NoticeType
    <3> QED
      BY <2>3, <3>1, <3>3
  <2> QED
    BY <2>1, <2>2, <2>3
<1> HIDE DEF d, v
<1>5. /\ notice' \in [Run -> Notice] /\ notice'[r] = d
      /\ \A q \in Run : q # r => notice'[q] = notice[q]
  BY <1>1, <1>4 DEF TraceInv, DriversGood
<1>6. TurnsGood' /\ DriversGood' /\ ReaderGood'
  BY <1>1, <1>5 DEF TraceInv, TurnsGood, DriversGood, NoneAtWork, AtWork, ReaderGood
<1>7. ApartGood' /\ StoryInOrder'
  <2>1. ApartGood'
    BY <1>1, ApartKept DEF TraceInv, AtWork
  <2> QED
    BY <1>1, <2>1, StoryKept DEF TraceInv
<1>8. FeedGood'
  <2>1. TellsInOrder(r)'
    <3>1. driver' = driver /\ feed' = feed /\ notice[r].pc # "idle"
      BY <1>1
    <3>2. CASE d.pc = "idle" /\ n.id # 0
      BY <1>2, <1>5, <3>1, <3>2 DEF TellsInOrder, TurnTold, TurnEnded, Tells
    <3>3. CASE d.pc = "held" /\ d.type = n.type /\ d.id = n.id
      BY <1>2, <1>5, <3>1, <3>3 DEF TellsInOrder, TurnTold, TurnEnded, Tells
    <3> QED
      BY <1>4, <3>2, <3>3
  <2> QED
    BY <1>1, <1>5, <2>1, TellsKept
<1> QED
  BY <1>6, <1>7, <1>8 DEF TraceInv

\* The update joins those of the owner.
LEMMA AppendKeeps ==
  ASSUME TraceAssumption, TraceInv, NEW r \in Run, AppendUpdate(r) PROVE TraceInv'
<1> DEFINE u == [turn |-> r[1], run |-> r[2], type |-> notice[r].type, view |-> notice[r].view]
           to == IF driver[r] = "announce" THEN Begun ELSE driver[r]
           k == Len(feed) + 1
<1>1. /\ notice[r].pc = "held" /\ feed' = Append(feed, u) /\ notice' = [notice EXCEPT ![r] = Quiet]
      /\ driver' = [driver EXCEPT ![r] = to]
      /\ UNCHANGED <<turns, newest, active, busy, status, repo, halted, swept, page, reader>>
  BY DEF AppendUpdate
<1>2. driver[r] # "none" /\ TellsInOrder(r) /\ notice[r] \in Notice /\ driver[r] \in DriverPlace
  <2>1. driver[r] # "none"
    BY <1>1 DEF TraceInv, FeedGood, TellsInOrder
  <2> QED
    BY <2>1, BegunIs
<1>3. feed \in Seq(TurnUpdate) /\ Len(feed) \in Nat
  BY DEF TraceInv, FeedGood
<1>4. u \in TurnUpdate /\ u.turn = r[1] /\ u.run = r[2] /\ u.type = notice[r].type
  <2>1. r[1] \in Turns /\ r[2] \in 1 .. MaxRuns
    BY RunIs
  <2> HIDE DEF ViewSet, NoticeType, Turns
  <2> QED
    BY <1>2, <2>1 DEF Notice, TurnUpdate
<1>5. Quiet \in Notice /\ Quiet.pc = "idle"
  <2>1. NoView \in ViewSet /\ 0 \in 0 .. MaxEvents
    BY DEF NoView, ViewSet, TraceAssumption
  <2> HIDE DEF NoView, ViewSet
  <2> QED
    BY <2>1 DEF Quiet, Notice, NoticeType
<1>6. driver[r] \in {"announce", "on", "over"}
  BY <1>1, <1>2 DEF DriverPlace, TellsInOrder
<1>7. to \in {"on", "clone", "over"} /\ (driver[r] = "over" <=> to = "over")
  BY <1>6 DEF Begun
<1> HIDE DEF u, to
<1>8. /\ feed' \in Seq(TurnUpdate) /\ Len(feed') = k /\ feed'[k] = u
      /\ \A m \in 1 .. Len(feed) : feed'[m] = feed[m]
  <2> HIDE DEF TurnUpdate
  <2> QED
    BY <1>1, <1>3, <1>4
<1>9. \A m \in 1 .. k : m \in 1 .. Len(feed) \/ m = k
  BY <1>3
<1>10. k \in 1 .. k /\ k \in Nat /\ \A m \in 1 .. Len(feed) : m \in 1 .. k /\ m # k
  BY <1>3
<1>11. /\ notice' \in [Run -> Notice] /\ notice'[r] = Quiet
       /\ \A q \in Run : q # r => notice'[q] = notice[q]
  BY <1>1, <1>5 DEF TraceInv, DriversGood
<1>12. DriversGood' /\ ApartGood' /\ driver'[r] = to /\ \A q \in Run : q # r => driver'[q] = driver[q]
  <2>1. to \in DriverPlace /\ to # "none" /\ (AtWork(r) <=> to # "over")
    BY <1>2, <1>7 DEF DriverPlace, AtWork
  <2> QED
    BY <1>1, <1>2, <1>11, <2>1, GoesOn
<1>13. TurnsGood' /\ ReaderGood'
  BY <1>1 DEF TraceInv, TurnsGood, ReaderGood
<1> HIDE DEF k
<1>14. FeedGood'
  <2>1. ASSUME NEW q \in Run, q # r PROVE TellsInOrder(q)'
    <3>1. TellsInOrder(q) /\ notice'[q] = notice[q] /\ driver'[q] = driver[q]
      BY <1>11, <1>12, <2>1 DEF TraceInv, FeedGood
    <3>2. ~(u.turn = q[1] /\ u.run = q[2])
      BY <1>4, <2>1, RunIs
    <3>3. TurnTold(q)' <=> TurnTold(q)
      BY <1>8, <1>9, <1>10, <3>2 DEF TurnTold, Tells
    <3>4. TurnEnded(q)' <=> TurnEnded(q)
      BY <1>8, <1>9, <1>10, <3>2 DEF TurnEnded, Tells
    <3> QED
      BY <3>1, <3>3, <3>4 DEF TellsInOrder
  <2>2. TellsInOrder(r)'
    <3>1. TurnTold(r)'
      BY <1>4, <1>8, <1>10 DEF TurnTold, Tells
    <3>2. to \in {"on", "clone"} => ~TurnEnded(r)'
      <4> SUFFICES ASSUME to \in {"on", "clone"}, TurnEnded(r)' PROVE FALSE
        OBVIOUS
      <4>1. PICK m \in 1 .. k : feed'[m].turn = r[1] /\ feed'[m].run = r[2] /\ feed'[m].type \in EndStates
        BY <1>8 DEF TurnEnded, Tells
      <4>2. driver[r] \in {"announce", "on"}
        BY <1>6, <1>7
      <4>3. u.type \notin EndStates
        BY <1>1, <1>2, <1>4, <4>2 DEF TellsInOrder, EndStates
      <4>4. m \in 1 .. Len(feed) /\ Tells(m, r) /\ feed[m].type \in EndStates
        BY <1>8, <1>9, <4>1, <4>3 DEF Tells
      <4>5. TurnTold(r) /\ TurnEnded(r)
        BY <4>4 DEF TurnTold, TurnEnded
      <4> QED
        BY <1>2, <4>2, <4>5 DEF TellsInOrder
    <3> QED
      BY <1>5, <1>7, <1>11, <1>12, <3>1, <3>2 DEF TellsInOrder
  <2>3. page.cursor \in 0 .. k
    BY <1>3 DEF TraceInv, FeedGood, k
  <2> QED
    BY <1>1, <1>8, <2>1, <2>2, <2>3 DEF FeedGood
<1>15. StoryInOrder'
  <2> SUFFICES ASSUME NEW n \in DOMAIN feed'
               PROVE  LET before == {m \in 1 .. n - 1 : feed'[m].turn = feed'[n].turn /\ feed'[m].run = feed'[n].run}
                      IN  /\ feed'[n].type = "started" <=> before = {}
                          /\ \A m \in before : feed'[m].type \notin EndStates
    BY <1>12 DEF StoryInOrder, ApartGood
  <2> DEFINE before == {m \in 1 .. n - 1 : feed'[m].turn = feed'[n].turn /\ feed'[m].run = feed'[n].run}
             then == {m \in 1 .. n - 1 : feed[m].turn = feed[n].turn /\ feed[m].run = feed[n].run}
  <2>1. n \in 1 .. k /\ \A m \in 1 .. n - 1 : m \in 1 .. Len(feed)
    BY <1>3, <1>8 DEF k
  <2>2. CASE n \in 1 .. Len(feed)
    <3>1. feed'[n] = feed[n] /\ before = then
      BY <1>8, <2>1, <2>2
    <3>2. /\ feed[n].type = "started" <=> then = {}
          /\ \A m \in then : feed[m].type \notin EndStates
      <4>1. n \in DOMAIN feed
        BY <1>3, <2>2
      <4> QED
        BY <4>1, Zenon DEF TraceInv, StoryInOrder
    <3>3. \A m \in then : m \in 1 .. Len(feed)
      BY <2>1
    <3> HIDE DEF before, then
    <3>4. \A m \in before : feed'[m].type \notin EndStates
      BY <1>8, <3>1, <3>2, <3>3
    <3> QED
      BY <3>1, <3>2, <3>4 DEF before
  <2>3. CASE n = k
    <3>1. feed'[n] = u
      BY <1>8, <2>3
    <3>2. \A m \in 1 .. n - 1 : m \in 1 .. Len(feed) /\ feed'[m] = feed[m]
      BY <1>8, <2>1
    <3>3. n - 1 = Len(feed)
      BY <1>3, <2>3 DEF k
    <3>4. before = {m \in 1 .. Len(feed) : Tells(m, r)}
      BY <1>4, <3>1, <3>2, <3>3 DEF Tells
    <3>5. (before # {} <=> TurnTold(r)) /\ (TurnEnded(r) <=> \E m \in before : feed[m].type \in EndStates)
      BY <3>4 DEF TurnTold, TurnEnded
    <3>6. \A m \in before : feed'[m] = feed[m]
      BY <3>2
    <3> HIDE DEF before
    <3>7. \/ driver[r] = "announce" /\ u.type = "started" /\ ~TurnTold(r)
          \/ driver[r] \in {"on", "over"} /\ u.type # "started" /\ TurnTold(r) /\ ~TurnEnded(r)
      BY <1>1, <1>2, <1>4, <1>6 DEF TellsInOrder, EndStates
    <3>8. TurnEnded(r) => TurnTold(r)
      BY DEF TurnEnded, TurnTold
    <3>9. ~TurnEnded(r)
      BY <3>7, <3>8
    <3>10. \A m \in before : feed'[m].type \notin EndStates
      BY <3>5, <3>6, <3>9
    <3>11. feed'[n].type = "started" <=> before = {}
      BY <3>1, <3>5, <3>7
    <3> QED
      BY <3>10, <3>11 DEF before
  <2> QED
    BY <1>9, <2>1, <2>2, <2>3
<1> QED
  BY <1>12, <1>13, <1>14, <1>15 DEF TraceInv

\* What only the page changes.
LEMMA PageKeeps ==
  ASSUME TraceAssumption, TraceInv, page'.cursor \in 0 .. Len(feed),
         UNCHANGED <<turns, newest, driver, active, busy, status, repo, halted, swept, notice, feed, reader>>
  PROVE  TraceInv'
<1>1. TurnsGood' /\ DriversGood' /\ ReaderGood' /\ ApartGood'
  BY DEF TraceInv, TurnsGood, DriversGood, NoneAtWork, AtWork, ReaderGood, ApartGood, OneAtATime
<1>2. FeedGood'
  BY DEF TraceInv, FeedGood, TellsInOrder, TurnTold, TurnEnded, Tells
<1>3. StoryInOrder'
  BY <1>1, StoryKept DEF TraceInv
<1> QED
  BY <1>1, <1>2, <1>3 DEF TraceInv

\* The page polls.
LEMMA PollKeeps == ASSUME TraceAssumption, TraceInv, Poll PROVE TraceInv'
<1>1. Len(feed) \in 0 .. Len(feed)
  BY DEF TraceInv, FeedGood
<1>2. page'.cursor = Len(feed)
  BY DEF Poll
<1>3. UNCHANGED <<turns, newest, driver, active, busy, status, repo, halted, swept, notice, feed, reader>>
  BY DEF Poll
<1> QED
  BY <1>1, <1>2, <1>3, PageKeeps

\* The page opens an event.
LEMMA DetailKeeps == ASSUME TraceAssumption, TraceInv, OpenDetail PROVE TraceInv'
<1>1. page'.cursor = page.cursor
  BY DEF OpenDetail
<1>2. page.cursor \in 0 .. Len(feed)
  BY DEF TraceInv, FeedGood
<1>3. UNCHANGED <<turns, newest, driver, active, busy, status, repo, halted, swept, notice, feed, reader>>
  BY DEF OpenDetail
<1> QED
  BY <1>1, <1>2, <1>3, PageKeeps

\* A page begins at a turn from the first it may have on.
LEMMA BeginsIn ==
  ASSUME NEW first \in Nat, NEW end \in Nat, first <= end
  PROVE  Begins(first, end) \in first .. end
<1> DEFINE size[s \in 1 .. end + 1] == IF s > end THEN 0 ELSE DetailSize(turns[s]) + size[s + 1]
           fits == {s \in first .. end : s = end \/ size[s] <= PageBytes}
<1>1. Begins(first, end) = CHOOSE s \in fits : \A u \in fits : s <= u
  BY DEF Begins
<1> HIDE DEF size
<1>2. fits \in SUBSET Nat /\ end \in fits /\ fits \in SUBSET (first .. end)
  OBVIOUS
<1> HIDE DEF fits
<1>3. \E s \in fits : \A u \in fits : s <= u
  <2>1. fits # {}
    BY <1>2
  <2> QED
    BY <1>2, <2>1, LeastNumber
<1>4. Begins(first, end) \in fits
  BY <1>1, <1>3
<1> QED
  BY <1>2, <1>4

\* A page of older turns.
LEMMA ReadPageKeeps == ASSUME TraceAssumption, TraceInv, ReadPage PROVE TraceInv'
<1> DEFINE p == PageBefore(reader.before)
           new == [n \in 1 .. p.end - p.start + 1 |-> p.start + n - 1]
           s == reader.seen
<1>1. /\ reader.more /\ turns # <<>>
      /\ reader' = [before |-> p.start, more |-> p.start > 1, seen |-> new \o s]
      /\ UNCHANGED <<turns, newest, driver, active, busy, status, repo, halted, swept, notice, feed, page>>
  BY DEF ReadPage
<1>2. Len(turns) \in Nat /\ Len(turns) >= 1 /\ PageTurns \in Nat /\ PageTurns >= 1
  <2>1. turns \in Seq(TurnSet)
    BY DEF TraceInv, TurnsGood
  <2> HIDE DEF TurnSet
  <2> QED
    BY <1>1, <2>1 DEF TraceAssumption
<1>3. /\ s \in Seq(Nat) /\ Len(s) \in Nat
      /\ \A n \in 1 .. Len(s) : s[n] = EndBefore(reader.before) + n
      /\ EndBefore(reader.before) \in 1 .. Len(turns) /\ EndBefore(reader.before) + Len(s) <= Len(turns)
  <2>1. CASE s = <<>>
    <3>1. EndBefore(reader.before) = Len(turns) /\ Len(s) = 0
      BY <2>1 DEF TraceInv, ReaderGood, EndBefore
    <3> QED
      BY <1>2, <2>1, <3>1
  <2>2. CASE s # <<>>
    <3>1. /\ s \in Seq(Nat) /\ reader.before \in 1 .. Len(turns)
          /\ reader.before + Len(s) - 1 <= Len(turns)
          /\ \A n \in 1 .. Len(s) : s[n] = reader.before + n - 1
          /\ reader.before > 1
      BY <1>1, <2>2 DEF TraceInv, ReaderGood
    <3> DEFINE b == reader.before
    <3>2. EndBefore(reader.before) = b - 1
      BY <1>2, <3>1 DEF EndBefore
    <3> HIDE DEF s, b
    <3>3. Len(s) \in Nat /\ b \in Nat
      BY <1>2, <3>1 DEF b
    <3>4. \A n \in 1 .. Len(s) : s[n] = (b - 1) + n
      BY <3>1, <3>3 DEF b
    <3> QED
      BY <1>2, <3>1, <3>2, <3>3, <3>4 DEF b
  <2> QED
    BY <2>1, <2>2
<1> DEFINE end == EndBefore(reader.before)
           start == p.start
           m == end - start + 1
<1>4. p.end = end /\ start \in 1 .. end
  <2> DEFINE first == IF end > PageTurns THEN end - PageTurns + 1 ELSE 1
  <2>1. p = [start |-> Begins(first, end), end |-> end]
    BY DEF PageBefore
  <2>2. end \in Nat /\ end >= 1 /\ first \in Nat /\ first >= 1 /\ first <= end
    BY <1>2, <1>3
  <2> HIDE DEF first, end, p
  <2>3. Begins(first, end) \in first .. end
    BY <2>2, BeginsIn
  <2> QED
    BY <2>1, <2>2, <2>3
<1> HIDE DEF p
<1>5. new = [n \in 1 .. m |-> start + n - 1]
  BY <1>4
<1> HIDE DEF new, start, s, end
<1>6. end \in Nat /\ start \in Nat /\ m \in Nat /\ m >= 1 /\ start + m = end + 1
  <2>1. end \in 1 .. Len(turns)
    BY <1>3 DEF end
  <2> QED
    BY <1>2, <1>4, <2>1
<1> HIDE DEF m
<1>7. new \in Seq(Nat) /\ Len(new) = m /\ \A n \in 1 .. m : new[n] = start + n - 1
  <2>1. \A n \in 1 .. m : start + n - 1 \in Nat
    BY <1>6
  <2>2. new \in [1 .. m -> Nat] /\ \A n \in 1 .. m : new[n] = start + n - 1
    BY <1>5, <2>1
  <2>3. new \in Seq(Nat) /\ Len(new) = m
    BY <1>6, <2>2
  <2> QED
    BY <2>2, <2>3
<1>80. new \in Seq(Nat) /\ s \in Seq(Nat)
  BY <1>3, <1>7
<1>8. /\ new \o s \in Seq(Nat) /\ Len(new \o s) = Len(new) + Len(s)
      /\ \A n \in 1 .. Len(new) + Len(s) : (new \o s)[n] = IF n <= Len(new) THEN new[n] ELSE s[n - Len(new)]
  BY <1>80, ConcatProperties, Zenon
<1> DEFINE all == new \o s
<1> HIDE DEF all
<1>9. all \in Seq(Nat) /\ Len(all) = m + Len(s) /\ all # <<>>
  <2>1. all \in Seq(Nat) /\ Len(all) = m + Len(s)
    BY <1>7, <1>8 DEF all
  <2>2. Len(all) # 0
    BY <1>3, <1>6, <2>1
  <2> QED
    BY <2>1, <2>2
<1>10. ASSUME NEW n \in 1 .. m + Len(s) PROVE all[n] = start + n - 1
  <2>0. n \in 1 .. Len(new) + Len(s) /\ Len(new) = m
    BY <1>7
  <2>1. n \in Nat /\ n >= 1 /\ n <= m + Len(s) /\ all[n] = IF n <= m THEN new[n] ELSE s[n - m]
    <3>1. n \in Nat /\ n >= 1 /\ n <= m + Len(s)
      BY <1>3, <1>6
    <3>2. all[n] = IF n <= Len(new) THEN new[n] ELSE s[n - Len(new)]
      BY <1>8, <2>0, Zenon DEF all
    <3> QED
      BY <2>0, <3>1, <3>2
  <2>2. CASE n <= m
    <3>1. n \in 1 .. m
      BY <1>6, <2>1, <2>2
    <3> QED
      BY <1>7, <2>1, <2>2, <3>1
  <2>3. CASE ~(n <= m)
    <3>1. n - m \in 1 .. Len(s)
      BY <1>3, <1>6, <2>1, <2>3
    <3>2. s[n - m] = end + (n - m)
      BY <1>3, <3>1 DEF end
    <3>3. end + (n - m) = start + n - 1
      BY <1>6, <2>1
    <3> QED
      BY <2>1, <2>3, <3>2, <3>3
  <2> QED
    BY <2>2, <2>3
<1>11. ReaderGood'
  <2>1. reader'.seen = all /\ reader'.before = start /\ reader'.more = (start > 1)
    BY <1>1 DEF all, start, s
  <2>2. start \in 1 .. Len(turns) /\ start + Len(all) - 1 <= Len(turns)
    BY <1>2, <1>3, <1>4, <1>6, <1>9 DEF end
  <2> QED
    BY <1>1, <1>9, <1>10, <2>1, <2>2 DEF ReaderGood
<1>12. TurnsGood' /\ DriversGood' /\ ApartGood' /\ StoryInOrder'
  <2>1. TurnsGood' /\ DriversGood' /\ ApartGood'
    BY <1>1 DEF TraceInv, TurnsGood, DriversGood, NoneAtWork, AtWork, ApartGood, OneAtATime
  <2> QED
    BY <1>1, <2>1, StoryKept DEF TraceInv
<1>13. FeedGood'
  BY <1>1 DEF TraceInv, FeedGood, TellsInOrder, TurnTold, TurnEnded, Tells
<1> QED
  BY <1>11, <1>12, <1>13 DEF TraceInv

\* Every step keeps it.
LEMMA TraceStep == ASSUME TraceAssumption, TraceInv, [TraceNext]_traceVars PROVE TraceInv'
<1>1. CASE StartTurn
  BY <1>1, StartKeeps
<1>2. CASE Cancel
  BY <1>2, CancelKeeps
<1>3. CASE SweepTurn
  BY <1>3, SweepKeeps
<1>4. CASE Poll
  BY <1>4, PollKeeps
<1>5. CASE OpenDetail
  BY <1>5, DetailKeeps
<1>6. CASE ReadPage
  BY <1>6, ReadPageKeeps
<1>7. ASSUME NEW r \in Run, CommandStarted(r) PROVE TraceInv'
  BY <1>7, StartedKeeps
<1>8. ASSUME NEW r \in Run, CommandCompleted(r) PROVE TraceInv'
  BY <1>8, CommandDoneKeeps
<1>9. ASSUME NEW r \in Run, TextCompleted(r) PROVE TraceInv'
  BY <1>9, TextKeeps
<1>10. ASSUME NEW r \in Run, FinishTurn(r) PROVE TraceInv'
  BY <1>10, FinishKeeps
<1>11. ASSUME NEW r \in Run, ReadPayload(r) PROVE TraceInv'
  BY <1>11, ReadPayloadKeeps
<1>12. ASSUME NEW r \in Run, AppendUpdate(r) PROVE TraceInv'
  BY <1>12, AppendKeeps
<1>13. ASSUME NEW i \in Turns, RetryRepository(i) PROVE TraceInv'
  BY <1>13, RetryKeeps
<1>14. ASSUME NEW r \in Run, EndPreparation(r) PROVE TraceInv'
  BY <1>14, EndPreparationKeeps
<1>15. CASE UNCHANGED traceVars
  <2>1. page.cursor \in 0 .. Len(feed)
    BY DEF TraceInv, FeedGood
  <2>2. page' = page /\ UNCHANGED <<turns, newest, driver, active, busy, status, repo, halted, swept, notice, feed, reader>>
    BY <1>15 DEF traceVars
  <2> QED
    BY <2>1, <2>2, PageKeeps
<1> QED
  BY <1>1, <1>2, <1>3, <1>4, <1>5, <1>6, <1>7, <1>8, <1>9, <1>10, <1>11, <1>12, <1>13,
     <1>14, <1>15 DEF TraceNext

\* The invariant of the trace.
LEMMA TraceInvariant == ASSUME TraceAssumption PROVE TraceSpec => []TraceInv
<1>1. TraceInit => TraceInv
  BY TraceStarts
<1>2. TraceInv /\ [TraceNext]_traceVars => TraceInv'
  BY TraceStep
<1> QED
  BY <1>1, <1>2, PTL DEF TraceSpec

-----------------------------------------------------------------------------
(* Theorems *)

\* The trace of a turn is true to what codex did and the page asks for: an id finds
\* its own event, a command is one event, an interrupted turn is quiet, and a reader
\* of older turns gets each of them once and in order (pageChatRuntimeTurns,
\* runtimeEventByID, markInterruptedLocked).
THEOREM TraceIsTrueAlways == ASSUME TraceAssumption PROVE TraceSpec => []TraceIsTrue
<1>1. TraceInv => TraceIsTrue
  BY TraceIsSound
<1> QED
  BY <1>1, TraceInvariant, PTL

\* The updates of an owner tell the story of every run of a turn in order, although
\* the goroutines publish outside the session lock: started comes first, and nothing
\* after the end.  Until a shutdown visits the session one run is at work in it, for
\* inputs and retried repositories alike (SubmitInput, RetryRepository, finishTurn).
THEOREM StoryInOrderAlways == ASSUME TraceAssumption PROVE TraceSpec => []StoryInOrder
<1>1. TraceInv => StoryInOrder
  BY TraceIsSound
<1> QED
  BY <1>1, TraceInvariant, PTL

-----------------------------------------------------------------------------
(* Titles *)

\* A score is a number.
LEMMA ScoreIs == ASSUME NEW text PROVE Score(text) \in Nat
<1>1. \A c, n : n \in Nat => When(c, n) \in Nat
  BY DEF When
<1>2. \A n \in Int : AtLeastZero(n) \in Nat
  BY DEF AtLeastZero
<1> DEFINE length == Length(text)
           n == 1 + When(length >= 6, 1) + When(length >= 10, 1)
                  + When("action" \in Words(text), 2) + When("technical" \in Words(text), 2)
                  + When("sign" \in Words(text), 1)
                  - When(Bootstrap(text), 4) - When(FollowUp(text), 3) - When(length <= 4, 2)
<1>3. n \in Int
  <2> HIDE DEF length
  <2>1. /\ When(length >= 6, 1) \in Nat /\ When(length >= 10, 1) \in Nat
        /\ When("action" \in Words(text), 2) \in Nat /\ When("technical" \in Words(text), 2) \in Nat
        /\ When("sign" \in Words(text), 1) \in Nat
        /\ When(Bootstrap(text), 4) \in Nat /\ When(FollowUp(text), 3) \in Nat /\ When(length <= 4, 2) \in Nat
    BY <1>1
  <2> QED
    BY <2>1
<1>4. Score(text) = IF text = <<>> THEN 0 ELSE AtLeastZero(n)
  BY DEF Score
<1> HIDE DEF n
<1> QED
  BY <1>2, <1>3, <1>4

\* So is that of a title that is built.
LEMMA BuiltScoreIs == ASSUME NEW text PROVE BuiltTitle(text).score \in Nat
<1> DEFINE said == WithoutBootstrap(text)
           points == Score(said)
<1>1. points \in Nat
  BY ScoreIs
<1>2. BuiltTitle(text).score = IF points = 0 THEN 0 ELSE points
  <2> HIDE DEF said, points
  <2>1. BuiltTitle(text) = IF points = 0 THEN [title |-> Truncated(text), score |-> 0, auto |-> TRUE]
                           ELSE [title |-> Truncated(said), score |-> points, auto |-> points < Stable]
    BY DEF BuiltTitle, said, points
  <2> QED
    BY <2>1
<1> QED
  BY <1>1, <1>2

\* "New" is three letters long.
LEMMA LengthOfNew == Length(NewTitle) = 3
<1> DEFINE c == [words |-> {}, len |-> 3, rest |-> <<>>]
           upTo[n \in 0 .. Len(NewTitle)] == IF n = 0 THEN 0 ELSE upTo[n - 1] + NewTitle[n].len
           sums == [n \in 0 .. 1 |-> IF n = 0 THEN 0 ELSE 3]
<1>1. NewTitle = <<c>> /\ c.len = 3
  BY DEF NewTitle
<1>2. Len(NewTitle) = 1 /\ NewTitle[1] = c
  <2> HIDE DEF c
  <2> QED
    BY <1>1
<1>3. sums = [n \in 0 .. Len(NewTitle) |-> IF n = 0 THEN 0 ELSE sums[n - 1] + NewTitle[n].len]
  <2>1. ASSUME NEW n \in 0 .. 1 PROVE sums[n] = IF n = 0 THEN 0 ELSE sums[n - 1] + NewTitle[n].len
    <3>1. n = 0 \/ n = 1
      OBVIOUS
    <3>2. sums[0] = 0 /\ sums[1] = 3 /\ 1 - 1 = 0
      OBVIOUS
    <3>3. NewTitle[1].len = 3
      BY <1>1, <1>2
    <3> HIDE DEF sums
    <3>4. CASE n = 0
      BY <3>2, <3>4
    <3>5. CASE n = 1
      BY <3>2, <3>3, <3>5
    <3> QED
      BY <3>1, <3>4, <3>5
  <2>2. sums = [n \in 0 .. 1 |-> sums[n]]
    OBVIOUS
  <2> HIDE DEF sums
  <2> QED
    BY <1>2, <2>1, <2>2
<1>4. upTo = CHOOSE f : f = [n \in 0 .. Len(NewTitle) |-> IF n = 0 THEN 0 ELSE f[n - 1] + NewTitle[n].len]
  OBVIOUS
<1>5. upTo = [n \in 0 .. Len(NewTitle) |-> IF n = 0 THEN 0 ELSE upTo[n - 1] + NewTitle[n].len]
  <2> HIDE DEF sums, upTo
  <2> QED
    BY <1>3, <1>4
<1>6. Length(NewTitle) = upTo[Len(NewTitle)]
  BY DEF Length
<1> HIDE DEF upTo, c
<1>7. upTo = [n \in 0 .. 1 |-> IF n = 0 THEN 0 ELSE upTo[n - 1] + NewTitle[n].len]
  BY <1>2, <1>5
<1>8. upTo[0] = 0
  BY <1>7
<1>9. upTo[1] = upTo[1 - 1] + NewTitle[1].len
  BY <1>7
<1> QED
  BY <1>1, <1>2, <1>6, <1>8, <1>9

\* Nothing has no length.
LEMMA LengthOfNone == Length(<<>>) = 0
<1> DEFINE none == <<>>
           upTo[n \in 0 .. Len(none)] == IF n = 0 THEN 0 ELSE upTo[n - 1] + none[n].len
           sums == [n \in 0 .. 0 |-> 0]
<1>1. Len(none) = 0
  OBVIOUS
<1>2. sums = [n \in 0 .. Len(none) |-> IF n = 0 THEN 0 ELSE sums[n - 1] + none[n].len]
  <2>1. \A n \in 0 .. 0 : n = 0
    OBVIOUS
  <2> QED
    BY <1>1, <2>1
<1>3. upTo = CHOOSE f : f = [n \in 0 .. Len(none) |-> IF n = 0 THEN 0 ELSE f[n - 1] + none[n].len]
  OBVIOUS
<1>4. upTo = [n \in 0 .. Len(none) |-> IF n = 0 THEN 0 ELSE upTo[n - 1] + none[n].len]
  <2> HIDE DEF sums, upTo, none
  <2> QED
    BY <1>2, <1>3
<1>5. Length(<<>>) = upTo[Len(none)]
  BY DEF Length
<1> HIDE DEF upTo, none
<1> QED
  BY <1>1, <1>4, <1>5

\* What follows the bootstrap is text.
LEMMA SaidIs == ASSUME NEW text \in Seq(Clauses) PROVE WithoutBootstrap(text) \in Seq(Clauses)
<1>1. CASE text = <<>>
  BY <1>1 DEF WithoutBootstrap
<1>2. CASE text # <<>>
  <2>1. Head(text) \in Clauses /\ Tail(text) \in Seq(Clauses)
    <3> HIDE DEF Clauses
    <3> QED
      BY <1>2
  <2>2. Head(text).rest \in Seq(Clauses)
    <3>1. Head(text).rest \in Seq(SubClauses)
      BY <2>1 DEF Clauses
    <3>2. <<>> \in Seq(SubClauses)
      OBVIOUS
    <3>3. SubClauses \subseteq Clauses
      <4> DEFINE T == Seq(SubClauses)
      <4>1. {<<>>} \subseteq T
        BY <3>2
      <4> HIDE DEF T
      <4>2. [words : SUBSET Word, len : Nat, rest : {<<>>}] \subseteq [words : SUBSET Word, len : Nat, rest : T]
        BY <4>1
      <4> QED
        BY <4>2 DEF SubClauses, Clauses, T
    <3> HIDE DEF SubClauses, Clauses
    <3> QED
      BY <3>1, <3>3
  <2>3. Head(text).rest \o Tail(text) \in Seq(Clauses)
    <3> HIDE DEF Clauses
    <3> QED
      BY <2>1, <2>2
  <2> QED
    BY <1>2, <2>1, <2>2, <2>3 DEF WithoutBootstrap
<1> QED
  BY <1>1, <1>2

\* What is cut ends with dots.
LEMMA CutEndsWithDots ==
  ASSUME TitlesAssumption, NEW text \in Seq(Clauses), ~(Length(text) <= TitleLength)
  PROVE  Truncated(text) # NewTitle
<1> DEFINE fits == {n \in 0 .. Len(text) : Length(SubSeq(text, 1, n)) <= TitleLength - 3}
           k == Max(fits)
           head == SubSeq(text, 1, k)
<1>1. Truncated(text) = Append(head, Dots)
  BY DEF Truncated
<1>2. 0 \in fits
  <2>1. SubSeq(text, 1, 0) = <<>>
    OBVIOUS
  <2>2. Length(SubSeq(text, 1, 0)) <= TitleLength - 3
    <3>1. Length(SubSeq(text, 1, 0)) = 0
      BY <2>1, LengthOfNone
    <3>2. TitleLength \in Nat /\ TitleLength >= 3
      BY DEF TitlesAssumption
    <3> QED
      BY <3>1, <3>2
  <2> QED
    BY <2>2
<1>3. fits \in SUBSET (0 .. Len(text)) /\ Len(text) \in Nat
  OBVIOUS
<1> HIDE DEF fits
<1>4. k \in 0 .. Len(text)
  <2>1. \E m \in fits : \A n \in fits : n <= m
    BY <1>2, <1>3, LargestNumber
  <2>2. \A m, n \in fits : n <= m <=> m >= n
    BY <1>3
  <2>3. k \in fits
    BY <2>1, <2>2 DEF Max
  <2> QED
    BY <1>3, <2>3
<1>5. head \in Seq(Clauses)
  <2> HIDE DEF k, Clauses
  <2> QED
    BY <1>3, <1>4, SubSeqProperties
<1> HIDE DEF head
<1>6. Append(head, Dots)[Len(head) + 1] = Dots /\ Len(Append(head, Dots)) = Len(head) + 1
  <2> DEFINE d == Dots
  <2>1. head \in Seq(Clauses \cup {d}) /\ d \in Clauses \cup {d}
    <3> HIDE DEF Clauses, d
    <3> QED
      BY <1>5
  <2> HIDE DEF d, Clauses
  <2>2. Append(head, d)[Len(head) + 1] = d /\ Len(Append(head, d)) = Len(head) + 1
    BY <2>1
  <2> QED
    BY <2>2 DEF d
<1>7. Len(NewTitle) = 1 /\ NewTitle[1].words = {}
  BY DEF NewTitle
<1>8. Dots.words = {"sign"}
  BY DEF Dots
<1> SUFFICES ASSUME Append(head, Dots) = NewTitle PROVE FALSE
  BY <1>1
<1>9. NewTitle[1] = Dots
  BY <1>6, <1>7
<1> QED
  BY <1>7, <1>8, <1>9

\* "New" says nothing.
LEMMA NewScores == Score(NewTitle) = 0
<1>1. Words(NewTitle) = {}
  <2>1. \A n \in DOMAIN NewTitle : NewTitle[n].words = {}
    BY DEF NewTitle
  <2> QED
    BY <2>1 DEF Words
<1>2. ~("action" \in Words(NewTitle)) /\ ~("technical" \in Words(NewTitle)) /\ ~("sign" \in Words(NewTitle))
      /\ ~Bootstrap(NewTitle) /\ ~FollowUp(NewTitle)
  BY <1>1 DEF Bootstrap, FollowUp
<1>3. NewTitle # <<>>
  BY DEF NewTitle
<1> DEFINE length == Length(NewTitle)
<1>4. length = 3
  BY LengthOfNew
<1>5. Score(NewTitle) = AtLeastZero(1 + When(length >= 6, 1) + When(length >= 10, 1)
             + When("action" \in Words(NewTitle), 2) + When("technical" \in Words(NewTitle), 2)
             + When("sign" \in Words(NewTitle), 1)
             - When(Bootstrap(NewTitle), 4) - When(FollowUp(NewTitle), 3) - When(length <= 4, 2))
  BY <1>3 DEF Score
<1> HIDE DEF length
<1>6. ~(length >= 6) /\ ~(length >= 10) /\ length <= 4
  BY <1>4
<1>7. /\ When(length >= 6, 1) = 0 /\ When(length >= 10, 1) = 0
      /\ When("action" \in Words(NewTitle), 2) = 0 /\ When("technical" \in Words(NewTitle), 2) = 0
      /\ When("sign" \in Words(NewTitle), 1) = 0
      /\ When(Bootstrap(NewTitle), 4) = 0 /\ When(FollowUp(NewTitle), 3) = 0 /\ When(length <= 4, 2) = 2
  BY <1>2, <1>6 DEF When
<1>8. Score(NewTitle) = AtLeastZero(1 + 0 + 0 + 0 + 0 + 0 - 0 - 0 - 2)
  BY <1>5, <1>7
<1> QED
  BY <1>8 DEF AtLeastZero

\* Nor does what is called "New".
LEMMA NewIsNothing ==
  ASSUME TitlesAssumption, NEW text \in Prompts, BuiltTitle(text).title = NewTitle
  PROVE  BuiltTitle(text).score = 0
<1> DEFINE said == WithoutBootstrap(text)
           points == Score(said)
<1>1. BuiltTitle(text) = IF points = 0 THEN [title |-> Truncated(text), score |-> 0, auto |-> TRUE]
                         ELSE [title |-> Truncated(said), score |-> points, auto |-> points < Stable]
  BY DEF BuiltTitle
<1>2. said \in Seq(Clauses)
  BY SaidIs DEF TitlesAssumption
<1> HIDE DEF said, points
<1>3. CASE points = 0
  BY <1>1, <1>3
<1>4. CASE points # 0
  <2>1. Truncated(said) = NewTitle /\ BuiltTitle(text).score = points
    BY <1>1, <1>4
  <2>2. Length(said) <= TitleLength
    BY <1>2, <2>1, CutEndsWithDots
  <2>3. said = NewTitle
    BY <2>1, <2>2 DEF Truncated
  <2> QED
    BY <2>1, <2>3, NewScores DEF points
<1> QED
  BY <1>3, <1>4

\* No input gives the chat its id for a title.
NoneIsTheId == \A n \in 1 .. Len(prompts) : BuiltTitle(prompts[n]).title # IdText

\* What the title says of the inputs: as much as each of them did, so nothing if it is
\* still "New"; and there are none if it is the id.
SaysTheMost ==
  /\ \A n \in 1 .. Len(prompts) :
       BuiltTitle(prompts[n]).score <= score \/ Supplemental(BuiltTitle(prompts[n]).title)
  /\ title = NewTitle => \A n \in 1 .. Len(prompts) :
       BuiltTitle(prompts[n]).score = 0 \/ Supplemental(BuiltTitle(prompts[n]).title)
  /\ title = IdText => title = NewTitle \/ prompts = <<>>

\* Whoever gave the name holds it.
Named == /\ origin = "user" => manual
         /\ origin = "tool" => external
         /\ origin = "input" /\ titleRestarts = 0 => ~manual /\ ~external

TitlesInv ==
  /\ prompts \in Seq(Prompts) /\ score \in Nat /\ titleRestarts \in Nat
  /\ Named
  /\ titleRestarts = 0 /\ ~manual /\ ~external /\ NoneIsTheId => SaysTheMost

\* It holds at the start.
LEMMA TitlesStart == ASSUME TitlesAssumption, TitlesInit PROVE TitlesInv
<1>1. prompts = <<>> /\ titleRestarts = 0 /\ Len(prompts) = 0
  BY DEF TitlesInit
<1>2. \A text : InferredAuto(text).score \in Nat
  <2> SUFFICES ASSUME NEW text PROVE InferredAuto(text).score \in Nat
    OBVIOUS
  <2> DEFINE points == Score(WithoutBootstrap(text))
  <2>1. points \in Nat
    BY ScoreIs
  <2>2. InferredAuto(text) =
          IF text = <<>> \/ Default(text) THEN [auto |-> TRUE, score |-> 0]
          ELSE [score |-> points,
                auto |-> points < Stable /\ (WithoutBootstrap(text) # text \/ Bootstrap(text) \/ FollowUp(text))]
    BY DEF InferredAuto
  <2> HIDE DEF points
  <2> QED
    BY <2>1, <2>2
<1>3. score \in Nat
  <2>1. CASE Nameless
    BY <2>1 DEF Nameless
  <2>2. CASE score = 0 \/ score = InferredAuto(title).score
    BY <1>2, <2>2
  <2>3. ASSUME NEW r \in OldRecords,
               score = IF r.auto = {} THEN InferredAuto(r.title).score ELSE r.score
        PROVE  score \in Nat
    BY <1>2, <2>3 DEF TitlesAssumption
  <2> QED
    BY <2>1, <2>2, <2>3 DEF TitlesInit
<1>4. Named
  BY DEF TitlesInit, Nameless, Named
<1>5. SaysTheMost
  BY <1>1 DEF SaysTheMost
<1> QED
  BY <1>1, <1>3, <1>4, <1>5 DEF TitlesInv

\* An input keeps a name, and a title that follows it says the most.
LEMMA InputKeeps ==
  ASSUME TitlesAssumption, TitlesInv, NEW text \in Prompts, TitledInput(text)
  PROVE  TitlesInv' /\ (GivenName => title' = title)
<1> DEFINE built == BuiltTitle(text)
           n == Len(prompts)
<1>1. /\ IsNow(Followed(text)) /\ prompts' = Append(prompts, text)
      /\ origin' = IF title' = title THEN origin ELSE "input"
      /\ manual' = manual /\ external' = external /\ titleRestarts' = titleRestarts
  BY DEF TitledInput
<1>2. built.score \in Nat /\ (built.title = NewTitle => built.score = 0)
  BY BuiltScoreIs, NewIsNothing
<1>3. \/ ~GivenName /\ TakesOver(built) /\ title' = built.title /\ score' = built.score
      \/ ~(~GivenName /\ TakesOver(built)) /\ title' = title /\ score' = score
  BY <1>1 DEF Followed, IsNow, Untouched
<1> HIDE DEF built
<1>4. /\ prompts \in Seq(Prompts) /\ n \in Nat /\ score \in Nat /\ titleRestarts \in Nat
      /\ prompts' \in Seq(Prompts) /\ Len(prompts') = n + 1 /\ prompts'[n + 1] = text
      /\ \A k \in 1 .. n : prompts'[k] = prompts[k]
  BY <1>1 DEF TitlesInv
<1>5. \A k \in 1 .. n + 1 : k \in 1 .. n \/ k = n + 1
  BY <1>4
<1>6. n + 1 \in 1 .. n + 1 /\ \A k \in 1 .. n : k \in 1 .. n + 1
  BY <1>4
<1> HIDE DEF n
<1>7. Named'
  <2>1. GivenName <=> manual \/ external
    BY DEF GivenName
  <2> QED
    BY <1>1, <1>3, <2>1 DEF TitlesInv, Named
<1>8. ASSUME titleRestarts' = 0, ~manual', ~external', NoneIsTheId'
      PROVE  SaysTheMost'
  <2>1. ~GivenName
    BY <1>1, <1>8 DEF GivenName
  <2>2. \A k \in 1 .. n : BuiltTitle(prompts[k]).title # IdText
    BY <1>4, <1>6, <1>8 DEF NoneIsTheId
  <2>3. built.title # IdText
    BY <1>4, <1>6, <1>8 DEF NoneIsTheId, built
  <2>4. SaysTheMost
    BY <1>1, <1>8, <2>2 DEF TitlesInv, NoneIsTheId, n
  <2> DEFINE Was(k) == BuiltTitle(prompts[k]).score
             Extra(k) == Supplemental(BuiltTitle(prompts[k]).title)
  <2>5. /\ \A k \in 1 .. n : Was(k) <= score \/ Extra(k)
        /\ title = NewTitle => \A k \in 1 .. n : Was(k) = 0 \/ Extra(k)
        /\ title = IdText => title = NewTitle \/ n = 0
        /\ \A k \in 1 .. n : Was(k) \in Nat
    <3>1. prompts = <<>> => n = 0
      BY DEF n
    <3> QED
      BY <2>4, <3>1, BuiltScoreIs DEF SaysTheMost, n
  <2>6. \A k \in 1 .. n : /\ BuiltTitle(prompts'[k]).score = Was(k)
                          /\ Supplemental(BuiltTitle(prompts'[k]).title) <=> Extra(k)
    BY <1>4
  <2> HIDE DEF Was, Extra
  <2>7. CASE ~GivenName /\ TakesOver(built) /\ title' = built.title /\ score' = built.score
    <3>1. \/ Default(title) /\ built.title # title
          \/ built.score >= score
      BY <1>2, <1>4, <2>7 DEF TakesOver
    <3>2. ASSUME NEW k \in 1 .. n PROVE Was(k) <= built.score \/ Extra(k)
      <4>1. CASE Default(title) /\ built.title # title
        <5>1. Was(k) = 0 \/ Extra(k)
          BY <2>5, <4>1 DEF Default
        <5>2. built.score \in Nat
          BY <1>2, <1>4
        <5> QED
          BY <5>1, <5>2
      <4>2. CASE built.score >= score
        <5>1. Was(k) <= score \/ Extra(k)
          BY <2>5
        <5>2. built.score \in Nat /\ score \in Nat /\ Was(k) \in Nat
          BY <1>2, <1>4, <2>5
        <5> QED
          BY <4>2, <5>1, <5>2
      <4> QED
        BY <3>1, <4>1, <4>2
    <3>3. ASSUME built.title = NewTitle, NEW k \in 1 .. n PROVE Was(k) = 0 \/ Extra(k)
      BY <1>2, <2>5, <3>2, <3>3
    <3>4. /\ BuiltTitle(prompts'[n + 1]).score = built.score
          /\ built.score <= score'
      BY <1>2, <1>4, <2>7 DEF built
    <3>5. \A k \in 1 .. n + 1 : \/ BuiltTitle(prompts'[k]).score <= score'
                                \/ Supplemental(BuiltTitle(prompts'[k]).title)
      BY <1>5, <2>6, <2>7, <3>2, <3>4
    <3>6. title' = NewTitle => \A k \in 1 .. n + 1 : \/ BuiltTitle(prompts'[k]).score = 0
                                                    \/ Supplemental(BuiltTitle(prompts'[k]).title)
      BY <1>2, <1>5, <2>6, <2>7, <3>3, <3>4
    <3> QED
      BY <1>4, <2>3, <2>7, <3>5, <3>6 DEF SaysTheMost
  <2>8. CASE ~(~GivenName /\ TakesOver(built)) /\ title' = title /\ score' = score
    <3>1. /\ ~(Default(title) /\ built.title # title)
          /\ built.score <= score \/ Supplemental(built.title)
      BY <1>2, <1>4, <2>1, <2>8 DEF TakesOver
    <3>2. title = NewTitle => built.score = 0
      BY <1>2, <3>1 DEF Default
    <3>3. title = IdText => FALSE
      BY <2>3, <3>1 DEF Default
    <3>4. /\ BuiltTitle(prompts'[n + 1]).score = built.score
          /\ Supplemental(BuiltTitle(prompts'[n + 1]).title) <=> Supplemental(built.title)
      BY <1>4 DEF built
    <3>5. \A k \in 1 .. n + 1 : \/ BuiltTitle(prompts'[k]).score <= score'
                                \/ Supplemental(BuiltTitle(prompts'[k]).title)
      BY <1>5, <2>5, <2>6, <2>8, <3>1, <3>4
    <3>6. title' = NewTitle => \A k \in 1 .. n + 1 : \/ BuiltTitle(prompts'[k]).score = 0
                                                    \/ Supplemental(BuiltTitle(prompts'[k]).title)
      BY <1>5, <2>5, <2>6, <2>8, <3>2, <3>4
    <3> QED
      BY <1>4, <2>8, <3>3, <3>5, <3>6 DEF SaysTheMost
  <2> QED
    BY <1>3, <2>7, <2>8
<1>9. score' \in Nat
  BY <1>2, <1>3, <1>4
<1> QED
  BY <1>1, <1>3, <1>4, <1>7, <1>8, <1>9 DEF TitlesInv

\* Every step keeps the invariant, and the names.
LEMMA TitlesStep ==
  ASSUME TitlesAssumption, TitlesInv, [TitlesNext]_titleVars
  PROVE  TitlesInv' /\ [(origin \in {"user", "tool"} /\ title' # title) => (origin' = "tool")]_titleVars
<1>1. ASSUME NEW text \in Prompts, TitledInput(text)
      PROVE  TitlesInv' /\ ((origin \in {"user", "tool"} /\ title' # title) => (origin' = "tool"))
  <2>1. origin \in {"user", "tool"} => GivenName
    BY DEF TitlesInv, Named, GivenName
  <2> QED
    BY <1>1, <2>1, InputKeeps
<1>2. ASSUME NEW text \in Prompts, Name(text)
      PROVE  TitlesInv' /\ origin' = "tool"
  BY <1>2 DEF Name, TitlesInv, Named
<1>3. CASE EndTurn
  BY <1>3 DEF EndTurn, TitlesInv, Named, NoneIsTheId, SaysTheMost
<1>4. CASE Restart
  <2>1. /\ titleRestarts' = titleRestarts + 1 /\ external' = external /\ prompts' = prompts
        /\ titleRestarts \in Nat
    BY <1>4 DEF Restart, TitlesInv
  <2>2. titleRestarts' \in Nat /\ titleRestarts' # 0
    BY <2>1
  <2>3. CASE Repairable /\ IsNow(Repaired) /\ manual' = FALSE /\ origin' = "input"
    <3>1. score' \in Nat
      BY <2>3, BuiltScoreIs DEF IsNow, Repaired
    <3>2. ~(origin \in {"user", "tool"})
      BY <2>3 DEF TitlesInv, Named, Repairable, GivenName
    <3> QED
      BY <2>1, <2>2, <2>3, <3>1, <3>2 DEF TitlesInv, Named
  <2>4. CASE UNCHANGED <<title, auto, score, manual, origin>>
    BY <2>1, <2>2, <2>4 DEF TitlesInv, Named
  <2> QED
    BY <1>4, <2>3, <2>4 DEF Restart
<1>5. CASE UNCHANGED titleVars
  BY <1>5 DEF titleVars, TitlesInv, Named, NoneIsTheId, SaysTheMost
<1> QED
  BY <1>1, <1>2, <1>3, <1>4, <1>5 DEF TitlesNext

\* The title of a chat is a name it was given, which no input and no restart takes
\* away, or says as much of its inputs as any of them did (nextAutoSessionTitle,
\* applyExternalThreadTitleLocked, restorePersistedSession).
THEOREM TitlesAreKeptAlways == ASSUME TitlesAssumption PROVE TitlesSpec => TitlesAreKept
<1>1. TitlesInit => TitlesInv
  BY TitlesStart
<1>2. TitlesInv /\ [TitlesNext]_titleVars => TitlesInv'
  BY TitlesStep
<1>3. TitlesInv /\ [TitlesNext]_titleVars =>
        [(origin \in {"user", "tool"} /\ title' # title) => (origin' = "tool")]_titleVars
  BY TitlesStep
<1>4. TitlesInv => TitleSaysTheMost
  <2> SUFFICES ASSUME TitlesInv, origin = "input", titleRestarts = 0,
                      \A n \in DOMAIN prompts : BuiltTitle(prompts[n]).title # IdText
               PROVE  \A n \in DOMAIN prompts : LET built == BuiltTitle(prompts[n])
                                                IN  built.score <= score \/ Supplemental(built.title)
    BY DEF TitleSaysTheMost
  <2>1. DOMAIN prompts = 1 .. Len(prompts)
    BY DEF TitlesInv
  <2>2. SaysTheMost
    BY <2>1 DEF TitlesInv, Named, NoneIsTheId
  <2> QED
    BY <2>1, <2>2 DEF SaysTheMost
<1>5. TitlesSpec => NamesAreKept
  BY <1>1, <1>2, <1>3, PTL DEF TitlesSpec, NamesAreKept
<1>6. TitlesSpec => []TitleSaysTheMost
  BY <1>1, <1>2, <1>4, PTL DEF TitlesSpec
<1> QED
  BY <1>5, <1>6, PTL DEF TitlesAreKept

-----------------------------------------------------------------------------
(* Memory: orders and sums *)

\* R orders S strictly; and of any two one is first.
StrictOn(S, R) == /\ \A e \in S : <<e, e>> \notin R
                  /\ \A e, f, g \in S : <<e, f>> \in R /\ <<f, g>> \in R => <<e, g>> \in R
TotalOn(S, R)  == \A e, f \in S : e # f => <<e, f>> \in R \/ <<f, e>> \in R

\* A finite set with a member has one with nothing before it in a strict order R.
LEMMA FirstOfOrder ==
  ASSUME NEW S, IsFiniteSet(S), S # {}, NEW R, StrictOn(S, R)
  PROVE  \E e \in S : \A f \in S : <<f, e>> \notin R
<1> DEFINE Before(e) == {f \in S : <<f, e>> \in R}
           Sizes == {n \in Nat : \E e \in S : Cardinality(Before(e)) = n}
<1>1. \A e \in S : IsFiniteSet(Before(e)) /\ Cardinality(Before(e)) \in Nat
  BY FS_Subset, FS_CardinalityType
<1>2. \A e \in S : \A f \in Before(e) : f \in S /\ Before(f) \subseteq Before(e) /\ f \in Before(e) /\ f \notin Before(f)
  BY DEF StrictOn
<1>3. (\A e \in S : Before(e) # {}) \/ \E e \in S : \A f \in S : <<f, e>> \notin R
  OBVIOUS
<1> HIDE DEF Before
<1>4. Sizes # {} /\ Sizes \in SUBSET Nat
  BY <1>1
<1>5. PICK n \in Sizes : \A m \in Sizes : n <= m
  <2> HIDE DEF Sizes
  <2> QED
    BY <1>4, LeastNumber
<1>6. PICK e \in S : Cardinality(Before(e)) = n
  OBVIOUS
<1>7. ASSUME NEW f \in Before(e) PROVE FALSE
  <2>1. f \in S /\ Before(f) \subseteq Before(e) /\ f \in Before(e) /\ f \notin Before(f)
    BY <1>2
  <2>2. Cardinality(Before(f)) <= Cardinality(Before(e)) /\ Cardinality(Before(f)) # Cardinality(Before(e))
    BY <1>1, <2>1, FS_Subset
  <2>3. Cardinality(Before(f)) \in Nat /\ Cardinality(Before(e)) \in Nat
    BY <1>1, <2>1
  <2>4. Cardinality(Before(f)) \in Sizes
    BY <2>1, <2>3
  <2> QED
    BY <1>5, <1>6, <2>2, <2>3, <2>4
<1> QED
  BY <1>3, <1>7

\* The numbers up to n are n.
LEMMA UpToIs == ASSUME NEW n \in Nat PROVE IsFiniteSet(1 .. n) /\ Cardinality(1 .. n) = n
<1>1. 1 \in Int /\ n \in Int
  OBVIOUS
<1>2. IsFiniteSet(1 .. n) /\ Cardinality(1 .. n) = IF 1 > n THEN 0 ELSE n - 1 + 1
  BY <1>1, FS_Interval
<1> QED
  BY <1>2

\* The tokens of entries, and the ids of the entries.
LEMMA TokensAre ==
  ASSUME MemoryAssumption, NEW es \in SUBSET Entry, IsFiniteSet(es)
  PROVE  IsFiniteSet(Tokens(es)) /\ Spent(es) \in Nat
<1> DEFINE Of(e) == {e.id} \X (1 .. Cost[e.val])
           fn == [e \in es |-> Of(e)]
           T == {fn[e] : e \in es}
<1>1. T = {Of(e) : e \in es}
  <2> HIDE DEF Of
  <2> QED
    OBVIOUS
<1>2. IsFiniteSet(T)
  <2>1. fn \in Surjection(es, T)
    <3> HIDE DEF Of
    <3> QED
      BY DEF Surjection
  <2> HIDE DEF fn, T
  <2> QED
    BY <2>1, FS_Surjection
<1>3. ASSUME NEW e \in es PROVE IsFiniteSet(Of(e))
  <2>1. Cost[e.val] \in Nat
    BY DEF MemoryAssumption, Entry
  <2>2. IsFiniteSet(1 .. Cost[e.val])
    BY <2>1, UpToIs
  <2>3. IsFiniteSet({e.id})
    BY FS_Singleton
  <2> QED
    BY <2>2, <2>3, FS_Product
<1>4. Tokens(es) = UNION T
  BY <1>1 DEF Tokens
<1>5. \A t \in T : IsFiniteSet(t)
  <2> HIDE DEF Of
  <2> QED
    BY <1>1, <1>3
<1> HIDE DEF T
<1>6. IsFiniteSet(Tokens(es))
  BY <1>2, <1>4, <1>5, FS_UNION
<1> QED
  BY <1>6, FS_CardinalityType DEF Spent

\* Fewer entries cost no more.
LEMMA FewerCostLess ==
  ASSUME MemoryAssumption, NEW es \in SUBSET Entry, IsFiniteSet(es), NEW fs \in SUBSET es
  PROVE  Spent(fs) <= Spent(es) /\ Spent(fs) \in Nat /\ Spent(es) \in Nat
<1>1. Tokens(fs) \subseteq Tokens(es)
  BY DEF Tokens
<1>2. IsFiniteSet(fs) /\ fs \in SUBSET Entry
  BY FS_Subset
<1>3. IsFiniteSet(Tokens(es)) /\ Spent(es) \in Nat /\ Spent(fs) \in Nat
  BY <1>2, TokensAre
<1> QED
  BY <1>1, <1>3, FS_Subset DEF Spent

\* What entries cost together: nothing, what the one costs, what it adds at most.
LEMMA OneCosts ==
  ASSUME MemoryAssumption, NEW e \in Entry
  PROVE  Spent({e}) = Cost[e.val] /\ Cost[e.val] \in Nat /\ Spent({}) = 0
<1>1. Cost[e.val] \in Nat
  BY DEF MemoryAssumption, Entry
<1>2. Tokens({e}) = {e.id} \X (1 .. Cost[e.val])
  BY DEF Tokens
<1>3. IsFiniteSet({e.id}) /\ Cardinality({e.id}) = 1
  BY FS_Singleton
<1>4. IsFiniteSet(1 .. Cost[e.val]) /\ Cardinality(1 .. Cost[e.val]) = Cost[e.val]
  BY <1>1, UpToIs
<1>5. Cardinality({e.id} \X (1 .. Cost[e.val])) = 1 * Cost[e.val]
  <2> DEFINE A == {e.id}
             B == 1 .. Cost[e.val]
  <2>1. IsFiniteSet(A) /\ Cardinality(A) = 1 /\ IsFiniteSet(B) /\ Cardinality(B) = Cost[e.val]
    BY <1>3, <1>4
  <2> HIDE DEF A, B
  <2>2. Cardinality(A \X B) = Cardinality(A) * Cardinality(B)
    BY <2>1, FS_Product
  <2>3. Cardinality(A \X B) = 1 * Cost[e.val]
    BY <2>1, <2>2
  <2> QED
    BY <2>3 DEF A, B
<1>6. Tokens({}) = {}
  BY DEF Tokens
<1>7. Spent({}) = 0
  BY <1>6, FS_EmptySet DEF Spent
<1>8. 1 * Cost[e.val] = Cost[e.val]
  BY <1>1
<1> QED
  BY <1>1, <1>2, <1>5, <1>7, <1>8 DEF Spent

\* One entry more adds at most what it costs.
LEMMA OneMoreCosts ==
  ASSUME MemoryAssumption, NEW es \in SUBSET Entry, IsFiniteSet(es), NEW e \in Entry
  PROVE  Spent(es \cup {e}) <= Spent(es) + Cost[e.val]
<1>1. Tokens(es \cup {e}) = Tokens(es) \cup Tokens({e})
  BY DEF Tokens
<1>2. IsFiniteSet({e}) /\ {e} \in SUBSET Entry
  BY FS_Singleton
<1>3. IsFiniteSet(Tokens(es)) /\ IsFiniteSet(Tokens({e})) /\ Spent(es) \in Nat /\ Spent({e}) \in Nat
  BY <1>2, TokensAre
<1>4. Cardinality(Tokens(es \cup {e})) = Cardinality(Tokens(es)) + Cardinality(Tokens({e}))
                                          - Cardinality(Tokens(es) \cap Tokens({e}))
  BY <1>1, <1>3, FS_Union
<1>5. Cardinality(Tokens(es) \cap Tokens({e})) \in Nat
  BY <1>3, FS_Intersection, FS_CardinalityType
<1>6. Spent({e}) = Cost[e.val] /\ Cost[e.val] \in Nat
  BY OneCosts
<1> QED
  BY <1>3, <1>4, <1>5, <1>6 DEF Spent

-----------------------------------------------------------------------------
(* Memory: what eviction leaves *)

UpClosed(S, B) == B \subseteq SUBSET S /\ \A T \in B, U \in SUBSET S : T \subseteq U => U \in B

Evicted(S, R, B) == {e \in S : {f \in S : <<f, e>> \notin R} \in B}

\* Members leave a finite set in the order R while what is there is too much, that is
\* in B: what stays is not too much, and with one of those that left it would be.
LEMMA EvictionIs ==
  ASSUME NEW S, IsFiniteSet(S), NEW R, StrictOn(S, R), TotalOn(S, R),
         NEW B, {} \notin B, UpClosed(S, B)
  PROVE  LET E == Evicted(S, R, B)
         IN  S \ E \notin B /\ (E # {} => \E f \in E : (S \ E) \cup {f} \in B)
<1> DEFINE E == Evicted(S, R, B)
           From(e) == {f \in S : <<f, e>> \notin R}
           K == S \ E
<1>1. /\ \A e \in S : From(e) \in SUBSET S /\ (e \in E <=> From(e) \in B)
      /\ \A e, g \in S : g \in From(e) <=> <<g, e>> \notin R
      /\ K \in SUBSET S /\ E \in SUBSET S /\ \A e \in S : e \in K <=> e \notin E
  BY DEF Evicted
<1> HIDE DEF From, K, E
<1>2. K \notin B
  <2>1. SUFFICES ASSUME K # {} PROVE K \notin B
    OBVIOUS
  <2>2. PICK e \in K : \A f \in K : <<f, e>> \notin R
    <3>1. IsFiniteSet(K)
      BY <1>1, FS_Subset
    <3>2. StrictOn(K, R)
      BY <1>1 DEF StrictOn
    <3> QED
      BY <2>1, <3>1, <3>2, FirstOfOrder
  <2>3. e \in S /\ K \subseteq From(e) /\ From(e) \notin B
    BY <1>1, <2>2
  <2> QED
    BY <1>1, <2>3 DEF UpClosed
<1>3. ASSUME E # {} PROVE \E f \in E : K \cup {f} \in B
  <2> DEFINE Q == {p \in S \X S : <<p[2], p[1]>> \in R}
  <2>1. \A e, f \in S : <<e, f>> \in Q <=> <<f, e>> \in R
    OBVIOUS
  <2> HIDE DEF Q
  <2>2. PICK f \in E : \A g \in E : <<g, f>> \notin Q
    <3>1. IsFiniteSet(E)
      BY <1>1, FS_Subset
    <3>2. StrictOn(E, Q)
      <4>1. \A d \in E : d \in S
        BY <1>1
      <4>2. \A d \in E : <<d, d>> \notin Q
        BY <2>1, <4>1 DEF StrictOn
      <4>3. ASSUME NEW d \in E, NEW f \in E, NEW g \in E, <<d, f>> \in Q, <<f, g>> \in Q PROVE <<d, g>> \in Q
        BY <2>1, <4>1, <4>3 DEF StrictOn
      <4> QED
        BY <4>2, <4>3 DEF StrictOn
    <3> QED
      BY <1>3, <3>1, <3>2, FirstOfOrder
  <2>3. f \in S /\ From(f) \in B /\ From(f) \in SUBSET S
    BY <1>1
  <2>4. ASSUME NEW g \in From(f) PROVE g \in K \cup {f}
    <3>1. g \in S /\ <<g, f>> \notin R
      BY <1>1, <2>3
    <3>2. CASE g # f
      <4>1. <<f, g>> \in R
        BY <2>3, <3>1, <3>2 DEF TotalOn
      <4>2. g \notin E
        BY <2>1, <2>2, <2>3, <3>1, <4>1
      <4> QED
        BY <1>1, <3>1, <4>2
    <3> QED
      BY <3>2
  <2>5. K \cup {f} \in SUBSET S
    BY <1>1, <2>3
  <2>6. K \cup {f} \in B
    BY <2>3, <2>4, <2>5 DEF UpClosed
  <2> QED
    BY <2>6
<1> QED
  BY <1>2, <1>3 DEF K, E

\* Entries with an id each, none later than n or t.
Sound(es, n, t) ==
  /\ es \in SUBSET Entry /\ IsFiniteSet(es)
  /\ \A e \in es : e.id <= n /\ e.upd <= t /\ e.acc <= t
  /\ \A e, f \in es : e.id = f.id => e = f

\* Eviction from a layer leaves what fits, and only what fits.
LEMMA OverflowIs ==
  ASSUME MemoryAssumption, NEW n, NEW t, NEW es, Sound(es, n, t), NEW l \in Layer
  PROVE  LET stay == InLayer(es, l) \ Overflow(es, l)
         IN  /\ Spent(stay) <= LayerTokens[l]
             /\ Overflow(es, l) # {} =>
                  \E f \in Overflow(es, l) : Spent(stay) + Cost[f.val] > LayerTokens[l]
<1> DEFINE S == InLayer(es, l)
           R == {p \in S \X S : UsedBefore(p[1], p[2])}
           B == {T \in SUBSET S : Spent(T) > LayerTokens[l]}
           E == Overflow(es, l)
<1>1. /\ S \in SUBSET Entry /\ IsFiniteSet(S) /\ S \in SUBSET es
      /\ \A e, f \in S : e.id = f.id => e = f
  BY FS_Subset DEF Sound, InLayer, Actives
<1>2. \A e, f \in S : <<e, f>> \in R <=> UsedBefore(e, f)
  OBVIOUS
<1>3. \A T : T \in B <=> T \in SUBSET S /\ Spent(T) > LayerTokens[l]
  OBVIOUS
<1>4. E = {e \in S : Spent({f \in S : ~UsedBefore(f, e)}) > LayerTokens[l]}
  BY DEF Overflow
<1>5. LayerTokens[l] \in Nat
  BY DEF MemoryAssumption
<1> HIDE DEF S, R, B, E
<1>6. StrictOn(S, R) /\ TotalOn(S, R)
  <2>1. \A e \in S : e.acc \in Nat /\ e.id \in Nat
    BY <1>1 DEF Entry
  <2>2. \A e \in S : ~UsedBefore(e, e)
    BY <2>1 DEF UsedBefore
  <2>3. \A e, f, g \in S : UsedBefore(e, f) /\ UsedBefore(f, g) => UsedBefore(e, g)
    BY <2>1 DEF UsedBefore
  <2>4. ASSUME NEW e \in S, NEW f \in S, e # f PROVE UsedBefore(e, f) \/ UsedBefore(f, e)
    BY <1>1, <2>1, <2>4 DEF UsedBefore
  <2> QED
    BY <1>2, <2>2, <2>3, <2>4 DEF StrictOn, TotalOn
<1>7. {} \notin B
  <2>1. Spent({}) = 0
    <3>1. Tokens({}) = {}
      BY DEF Tokens
    <3> QED
      BY <3>1, FS_EmptySet DEF Spent
  <2> QED
    BY <1>3, <1>5, <2>1
<1>8. ASSUME NEW T \in B, NEW U \in SUBSET S, T \subseteq U PROVE U \in B
  <2> T \in SUBSET S
    BY <1>3
  <2>1. U \in SUBSET Entry /\ IsFiniteSet(U)
    BY <1>1, FS_Subset
  <2>2. Spent(T) <= Spent(U) /\ Spent(T) \in Nat /\ Spent(U) \in Nat
    BY <1>8, <2>1, FewerCostLess
  <2> QED
    BY <1>3, <1>5, <1>8, <2>2
<1>9. E = Evicted(S, R, B)
  <2>1. \A e \in S : {f \in S : <<f, e>> \notin R} = {f \in S : ~UsedBefore(f, e)}
    BY <1>2
  <2>2. \A e \in S : {f \in S : <<f, e>> \notin R} \in B <=> Spent({f \in S : ~UsedBefore(f, e)}) > LayerTokens[l]
    BY <1>3, <2>1
  <2> QED
    BY <1>4, <2>2 DEF Evicted
<1>10. S \ E \notin B /\ (E # {} => \E f \in E : (S \ E) \cup {f} \in B)
  <2>1. UpClosed(S, B)
    BY <1>3, <1>8 DEF UpClosed
  <2> QED
    BY <1>1, <1>6, <1>7, <1>9, <2>1, EvictionIs
<1>11. S \ E \in SUBSET Entry /\ IsFiniteSet(S \ E) /\ Spent(S \ E) \in Nat
  BY <1>1, FS_Subset, TokensAre
<1>12. Spent(S \ E) <= LayerTokens[l]
  BY <1>3, <1>5, <1>10, <1>11
<1>13. ASSUME E # {} PROVE \E f \in E : Spent(S \ E) + Cost[f.val] > LayerTokens[l]
  <2>1. PICK f \in E : (S \ E) \cup {f} \in B
    BY <1>10, <1>13
  <2>2. f \in Entry
    BY <1>1, <1>4
  <2>3. Spent((S \ E) \cup {f}) <= Spent(S \ E) + Cost[f.val] /\ Spent((S \ E) \cup {f}) > LayerTokens[l]
    BY <1>3, <1>11, <2>1, <2>2, OneMoreCosts
  <2>4. Cost[f.val] \in Nat /\ Spent((S \ E) \cup {f}) \in Nat
    <3>1. (S \ E) \cup {f} \in SUBSET Entry /\ IsFiniteSet((S \ E) \cup {f})
      BY <1>11, <2>2, FS_AddElement
    <3> QED
      BY <2>2, <3>1, OneCosts, TokensAre
  <2> QED
    BY <1>5, <1>11, <2>3, <2>4
<1> QED
  BY <1>12, <1>13 DEF S, E

\* Eviction from the scope leaves as many as it may, when it evicts.
LEMMA SurplusIs ==
  ASSUME MemoryAssumption, NEW n, NEW t, NEW z \in Nat, NEW es, Sound(es, n, t)
  PROVE  /\ Cardinality(Actives(es) \ Surplus(es, z)) <= MaxActive
         /\ Surplus(es, z) # {} => Cardinality(Actives(es) \ Surplus(es, z)) >= MaxActive
<1> DEFINE S == Actives(es)
           R == {p \in S \X S : Below(p[1], p[2], z)}
           B == {T \in SUBSET S : Cardinality(T) > MaxActive}
           E == Surplus(es, z)
<1>1. /\ S \in SUBSET Entry /\ IsFiniteSet(S) /\ S \in SUBSET es
      /\ \A e, f \in S : e.id = f.id => e = f
  BY FS_Subset DEF Sound, Actives
<1>2. \A e, f \in S : <<e, f>> \in R <=> Below(e, f, z)
  OBVIOUS
<1>3. \A T : T \in B <=> T \in SUBSET S /\ Cardinality(T) > MaxActive
  OBVIOUS
<1>4. E = {e \in S : Cardinality({f \in S : ~Below(f, e, z)}) > MaxActive}
  BY DEF Surplus
<1>5. MaxActive \in Nat
  BY DEF MemoryAssumption
<1> HIDE DEF S, R, B, E
<1>6. StrictOn(S, R) /\ TotalOn(S, R)
  <2>1. \A e \in S : /\ e.id \in Nat /\ e.layer \in Nat /\ e.hits \in Nat
                     /\ Touched(e, z) \in Nat
    BY <1>1 DEF Entry, Layer, Touched
  <2>2. \A e \in S : ~Below(e, e, z)
    BY <2>1 DEF Below
  <2>3. \A e, f, g \in S : Below(e, f, z) /\ Below(f, g, z) => Below(e, g, z)
    BY <2>1 DEF Below
  <2>4. ASSUME NEW e \in S, NEW f \in S, e # f PROVE Below(e, f, z) \/ Below(f, e, z)
    BY <1>1, <2>1, <2>4 DEF Below
  <2> QED
    BY <1>2, <2>2, <2>3, <2>4 DEF StrictOn, TotalOn
<1>7. {} \notin B
  BY <1>3, <1>5, FS_EmptySet
<1>8. ASSUME NEW T \in B, NEW U \in SUBSET S, T \subseteq U PROVE U \in B
  <2> T \in SUBSET S
    BY <1>3
  <2>1. IsFiniteSet(U)
    BY <1>1, FS_Subset
  <2>2. Cardinality(T) <= Cardinality(U) /\ Cardinality(T) \in Nat /\ Cardinality(U) \in Nat
    BY <1>8, <2>1, FS_Subset, FS_CardinalityType
  <2> QED
    BY <1>3, <1>5, <1>8, <2>2
<1>9. E = Evicted(S, R, B)
  <2>1. \A e \in S : {f \in S : <<f, e>> \notin R} = {f \in S : ~Below(f, e, z)}
    BY <1>2
  <2>2. \A e \in S : {f \in S : <<f, e>> \notin R} \in B <=> Cardinality({f \in S : ~Below(f, e, z)}) > MaxActive
    BY <1>3, <2>1
  <2> QED
    BY <1>4, <2>2 DEF Evicted
<1>10. S \ E \notin B /\ (E # {} => \E f \in E : (S \ E) \cup {f} \in B)
  <2>1. UpClosed(S, B)
    BY <1>3, <1>8 DEF UpClosed
  <2> QED
    BY <1>1, <1>6, <1>7, <1>9, <2>1, EvictionIs
<1>11. IsFiniteSet(S \ E) /\ Cardinality(S \ E) \in Nat
  BY <1>1, FS_Subset, FS_CardinalityType
<1>12. Cardinality(S \ E) <= MaxActive
  BY <1>3, <1>5, <1>10, <1>11
<1>13. ASSUME E # {} PROVE Cardinality(S \ E) >= MaxActive
  <2>1. PICK f \in E : (S \ E) \cup {f} \in B
    BY <1>10, <1>13
  <2>2. Cardinality((S \ E) \cup {f}) > MaxActive
    BY <1>3, <2>1
  <2>3. Cardinality((S \ E) \cup {f}) = IF f \in S \ E THEN Cardinality(S \ E) ELSE Cardinality(S \ E) + 1
    BY <1>11, FS_AddElement
  <2> QED
    BY <1>5, <1>11, <2>2, <2>3
<1> QED
  BY <1>12, <1>13 DEF S, E

\* What goes goes for room: the scope is full, or one that goes does not fit.
ForRoom(es, fs) ==
  \A e \in es \ fs :
    /\ Active(e)
    /\ \/ Cardinality(Actives(fs)) >= MaxActive
       \/ \E f \in es \ fs : Usage(fs, e.layer) + Cost[f.val] > LayerTokens[e.layer]

\* Everything fits.
AllFits(fs) == /\ \A l \in Layer : Usage(fs, l) <= LayerTokens[l]
               /\ Cardinality(Actives(fs)) <= MaxActive

\* Fewer entries are as sound.
LEMMA FewerAreSound ==
  ASSUME NEW n, NEW t, NEW es, Sound(es, n, t), NEW fs \in SUBSET es
  PROVE  Sound(fs, n, t)
<1>1. IsFiniteSet(fs)
  BY FS_Subset DEF Sound
<1> QED
  BY <1>1 DEF Sound

\* Trimming leaves what fits, and takes only active entries, for room.
LEMMA FittedIs ==
  ASSUME MemoryAssumption, NEW n, NEW t, NEW z \in Nat, NEW es, Sound(es, n, t)
  PROVE  Fitted(es, z) \in SUBSET es /\ AllFits(Fitted(es, z)) /\ ForRoom(es, Fitted(es, z))
<1> DEFINE ls == LayersTrimmed(es)
           fs == Fitted(es, z)
<1>1. /\ ls \in SUBSET es /\ fs = ls \ Surplus(ls, z)
      /\ \A e \in es : e \notin ls <=> \E l \in Layer : e \in Overflow(es, l)
  BY DEF LayersTrimmed, Fitted
<1>2. \A l \in Layer : \A e \in Overflow(es, l) : e \in es /\ Active(e) /\ e.layer = l
  BY DEF Overflow, InLayer, Actives
<1>3. \A l \in Layer : InLayer(ls, l) = InLayer(es, l) \ Overflow(es, l)
  <2> SUFFICES ASSUME NEW l \in Layer PROVE InLayer(ls, l) = InLayer(es, l) \ Overflow(es, l)
    OBVIOUS
  <2>1. \A e : e \in InLayer(ls, l) <=> e \in ls /\ Active(e) /\ e.layer = l
    BY DEF InLayer, Actives
  <2>2. \A e : e \in InLayer(es, l) <=> e \in es /\ Active(e) /\ e.layer = l
    BY DEF InLayer, Actives
  <2> HIDE DEF ls
  <2> QED
    BY <1>1, <1>2, <2>1, <2>2
<1> HIDE DEF ls, fs
<1>4. Sound(ls, n, t) /\ Sound(fs, n, t) /\ fs \in SUBSET ls /\ fs \in SUBSET es
  BY <1>1, FewerAreSound
<1>5. \A l \in Layer : Usage(ls, l) <= LayerTokens[l] /\ Usage(ls, l) \in Nat
  <2> SUFFICES ASSUME NEW l \in Layer PROVE Usage(ls, l) <= LayerTokens[l] /\ Usage(ls, l) \in Nat
    OBVIOUS
  <2>1. Spent(InLayer(es, l) \ Overflow(es, l)) <= LayerTokens[l]
    BY OverflowIs
  <2>2. InLayer(ls, l) \in SUBSET Entry /\ IsFiniteSet(InLayer(ls, l))
    BY <1>4, FS_Subset DEF Sound, InLayer, Actives
  <2> QED
    BY <1>3, <2>1, <2>2, TokensAre DEF Usage
<1>6. \A l \in Layer : Usage(fs, l) <= LayerTokens[l]
  <2> SUFFICES ASSUME NEW l \in Layer PROVE Usage(fs, l) <= LayerTokens[l]
    OBVIOUS
  <2>1. InLayer(fs, l) \in SUBSET InLayer(ls, l)
    BY <1>4 DEF InLayer, Actives
  <2>2. InLayer(ls, l) \in SUBSET Entry /\ IsFiniteSet(InLayer(ls, l))
    BY <1>4, FS_Subset DEF Sound, InLayer, Actives
  <2>3. Usage(fs, l) <= Usage(ls, l) /\ Usage(fs, l) \in Nat
    BY <2>1, <2>2, FewerCostLess DEF Usage
  <2>4. LayerTokens[l] \in Nat
    BY DEF MemoryAssumption
  <2> QED
    BY <1>5, <2>3, <2>4
<1>7. Actives(fs) = Actives(ls) \ Surplus(ls, z)
  BY <1>1 DEF Actives
<1>8. Surplus(ls, z) \in SUBSET Actives(ls)
  BY DEF Surplus
<1>9. /\ Cardinality(Actives(fs)) <= MaxActive
      /\ Surplus(ls, z) # {} => Cardinality(Actives(fs)) >= MaxActive
  BY <1>4, <1>7, SurplusIs
<1>10. ASSUME NEW e \in es \ fs
       PROVE  /\ Active(e)
              /\ \/ Cardinality(Actives(fs)) >= MaxActive
                 \/ \E f \in es \ fs : Usage(fs, e.layer) + Cost[f.val] > LayerTokens[e.layer]
  <2>1. Active(e)
    BY <1>1, <1>2, <1>8 DEF Actives
  <2>2. CASE Surplus(ls, z) # {}
    BY <1>9, <2>1, <2>2
  <2>3. CASE Surplus(ls, z) = {}
    <3>1. fs = ls
      BY <1>1, <2>3
    <3>2. PICK l \in Layer : e \in Overflow(es, l)
      BY <1>1, <3>1
    <3>3. PICK f \in Overflow(es, l) : Spent(InLayer(es, l) \ Overflow(es, l)) + Cost[f.val] > LayerTokens[l]
      BY <3>2, OverflowIs
    <3>4. f \in es \ fs
      BY <1>1, <1>2, <3>1, <3>3
    <3>5. e.layer = l
      BY <1>2, <3>2
    <3>6. Usage(fs, l) = Spent(InLayer(es, l) \ Overflow(es, l))
      BY <1>3, <3>1 DEF Usage
    <3> QED
      BY <2>1, <3>3, <3>4, <3>5, <3>6
  <2> QED
    BY <2>2, <2>3
<1> QED
  BY <1>4, <1>6, <1>9, <1>10 DEF fs, AllFits, ForRoom

-----------------------------------------------------------------------------
(* Memory: what becomes of the entries *)

\* Entries that are changed one by one, and keep their ids, are as sound.
LEMMA ChangedAreSound ==
  ASSUME NEW n, NEW t, NEW es, Sound(es, n, t), NEW fn, DOMAIN fn = es,
         \A e \in es : /\ fn[e] \in Entry /\ fn[e].id = e.id
                       /\ fn[e].upd <= t /\ fn[e].acc <= t
  PROVE  Sound({fn[e] : e \in es}, n, t)
<1> DEFINE fs == {fn[e] : e \in es}
<1>1. IsFiniteSet(fs)
  <2> DEFINE g == [e \in es |-> fn[e]]
  <2>1. g \in Surjection(es, fs)
    BY DEF Surjection
  <2> HIDE DEF g, fs
  <2> QED
    BY <2>1, FS_Surjection DEF Sound
<1>2. fs \in SUBSET Entry
  OBVIOUS
<1>3. \A e \in fs : e.id <= n /\ e.upd <= t /\ e.acc <= t
  BY DEF Sound
<1>4. \A e, f \in fs : e.id = f.id => e = f
  BY DEF Sound
<1> QED
  BY <1>1, <1>2, <1>3, <1>4 DEF Sound

\* What is the same of two forms of one entry.
SameEntry(e, f) == f \in Entry /\ f.id = e.id /\ f.val = e.val /\ f.st = e.st

\* Demotion takes an entry down by one layer at most.
LEMMA RestedIs ==
  ASSUME MemoryAssumption, NEW e \in Entry, NEW t \in Nat
  PROVE  /\ SameEntry(e, Rested(e, t)) /\ Rested(e, t).acc = e.acc
         /\ Rested(e, t).upd \in {e.upd, t} /\ Rested(e, t).layer \in {e.layer, e.layer + 1}
<1> DEFINE f == [e EXCEPT !.layer = @ + 1, !.hits = 0, !.upd = t]
<1>1. CASE Unused(e, t)
  <2>1. e.layer \in Layer /\ e.layer < 3
    BY <1>1 DEF Unused, Entry
  <2>2. e.layer + 1 \in Layer
    BY <2>1 DEF Layer
  <2>3. f \in Entry
    BY <2>2 DEF Entry
  <2>4. f.id = e.id /\ f.val = e.val /\ f.st = e.st /\ f.acc = e.acc /\ f.upd = t /\ f.layer = e.layer + 1
    BY DEF Entry
  <2>5. Rested(e, t) = f
    BY <1>1 DEF Rested
  <2> HIDE DEF f
  <2> QED
    BY <2>3, <2>4, <2>5 DEF SameEntry
<1>2. CASE ~Unused(e, t)
  BY <1>2 DEF Rested, SameEntry
<1> QED
  BY <1>1, <1>2

\* A recall takes an entry up by one layer at most.
LEMMA RecalledIs ==
  ASSUME MemoryAssumption, NEW e \in Entry, NEW t \in Nat
  PROVE  /\ SameEntry(e, Recalled(e, t)) /\ Recalled(e, t).acc = t
         /\ Recalled(e, t).upd = e.upd /\ Recalled(e, t).layer \in {e.layer, e.layer - 1}
<1> DEFINE seen == [e EXCEPT !.acc = t, !.hits = @ + 1]
           f == [seen EXCEPT !.layer = @ - 1, !.hits = 0]
<1>1. seen \in Entry
  <2>1. e.hits + 1 \in Nat
    BY DEF Entry
  <2> QED
    BY <2>1 DEF Entry
<1>2. seen.id = e.id /\ seen.val = e.val /\ seen.st = e.st /\ seen.acc = t /\ seen.upd = e.upd /\ seen.layer = e.layer
  BY DEF Entry
<1>3. Recalled(e, t) = seen \/ (e.layer # 1 /\ Recalled(e, t) = f)
  BY DEF Recalled
<1> HIDE DEF seen
<1>4. ASSUME e.layer # 1 PROVE f \in Entry
  <2>1. seen.layer - 1 \in Layer
    BY <1>1, <1>2, <1>4 DEF Entry, Layer
  <2> QED
    BY <1>1, <2>1 DEF Entry
<1>5. f.id = e.id /\ f.val = e.val /\ f.st = e.st /\ f.acc = t /\ f.upd = e.upd /\ f.layer = e.layer - 1
  BY <1>1, <1>2 DEF Entry
<1> HIDE DEF f
<1> QED
  BY <1>1, <1>2, <1>3, <1>4, <1>5 DEF SameEntry

\* What is left of the entries at a time, and how they rest.
RestsAt(es, t, n, u) ==
  /\ Sound(Maintained(es, t), n, u)
  /\ \A e \in es : Elapsed(e, t) \/ Rested(e, t) \in Maintained(es, t)
  /\ \A f \in Maintained(es, t) : \E e \in es : f = Rested(e, t)

\* Maintenance drops what has elapsed and takes the rest down.
LEMMA MaintainedIs ==
  ASSUME MemoryAssumption, NEW n, NEW u \in Nat, NEW es, Sound(es, n, u), NEW t \in Nat, t <= u
  PROVE  RestsAt(es, t, n, u)
<1> USE DEF RestsAt
<1> DEFINE left == Unexpired(es, t)
           fn == [e \in left |-> Rested(e, t)]
<1>1. left \in SUBSET es /\ \A e \in es : Elapsed(e, t) \/ e \in left
  BY DEF Unexpired
<1>2. Maintained(es, t) = {Rested(e, t) : e \in left}
  BY DEF Maintained, Demoted
<1> HIDE DEF left
<1>3. {Rested(e, t) : e \in left} = {fn[e] : e \in left}
  OBVIOUS
<1>4. Sound(left, n, u)
  BY <1>1, FewerAreSound
<1>5. \A e \in left : fn[e] \in Entry /\ fn[e].id = e.id /\ fn[e].upd <= u /\ fn[e].acc <= u
  <2> SUFFICES ASSUME NEW e \in left
               PROVE  fn[e] \in Entry /\ fn[e].id = e.id /\ fn[e].upd <= u /\ fn[e].acc <= u
    OBVIOUS
  <2>1. e \in Entry /\ e.upd <= u /\ e.acc <= u
    BY <1>4 DEF Sound
  <2>2. fn[e] = Rested(e, t)
    OBVIOUS
  <2> HIDE DEF fn
  <2>3. /\ SameEntry(e, fn[e]) /\ fn[e].acc = e.acc /\ fn[e].upd \in {e.upd, t}
    BY <2>1, <2>2, RestedIs
  <2> QED
    BY <2>1, <2>3 DEF SameEntry
<1>6. DOMAIN fn = left
  OBVIOUS
<1> HIDE DEF fn
<1>7. Sound({fn[e] : e \in left}, n, u)
  BY <1>4, <1>5, <1>6, ChangedAreSound
<1> QED
  BY <1>1, <1>2, <1>3, <1>7

\* What a recall makes of the entries.
LEMMA FeedbackIs ==
  ASSUME MemoryAssumption, NEW n, NEW u \in Nat, NEW es, Sound(es, n, u), NEW t \in Nat, t <= u, NEW hits
  PROVE  /\ Sound(Feedback(es, hits, t), n, u)
         /\ \A e \in es : \E f \in Feedback(es, hits, t) : f \in {e, Recalled(e, t)}
         /\ \A f \in Feedback(es, hits, t) : \E e \in es : f \in {e, Recalled(e, t)}
<1> DEFINE fn == [e \in es |-> IF e \in hits THEN Recalled(e, t) ELSE e]
<1>1. Feedback(es, hits, t) = {fn[e] : e \in es}
  BY DEF Feedback
<1>2. \A e \in es : fn[e] \in {e, Recalled(e, t)}
  OBVIOUS
<1>3. DOMAIN fn = es
  OBVIOUS
<1> HIDE DEF fn
<1>4. \A e \in es : fn[e] \in Entry /\ fn[e].id = e.id /\ fn[e].upd <= u /\ fn[e].acc <= u
  <2> SUFFICES ASSUME NEW e \in es
               PROVE  fn[e] \in Entry /\ fn[e].id = e.id /\ fn[e].upd <= u /\ fn[e].acc <= u
    OBVIOUS
  <2>1. e \in Entry /\ e.upd <= u /\ e.acc <= u
    BY DEF Sound
  <2>2. /\ SameEntry(e, Recalled(e, t)) /\ Recalled(e, t).acc = t /\ Recalled(e, t).upd = e.upd
    BY <2>1, RecalledIs
  <2>3. CASE fn[e] = e
    BY <2>1, <2>3
  <2>4. CASE fn[e] = Recalled(e, t)
    BY <2>1, <2>2, <2>4 DEF SameEntry
  <2> QED
    BY <1>2, <2>3, <2>4
<1>5. Sound({fn[e] : e \in es}, n, u)
  BY <1>3, <1>4, ChangedAreSound
<1> QED
  BY <1>1, <1>2, <1>5

\* What is told of an entry, and what a prompt is.
Heard  == [id : Nat, key : Key, val : Value]
Prompt == [hits : SUBSET Heard, recall : SUBSET Heard, rule : Required, used : Nat]

\* So many tokens fit the budget, or are those of one entry.
FitsOrIsOne(n) == n \in Nat /\ (n <= Budget \/ \E v \in Value : n = Cost[v])

\* A prompt tells of active entries only, and they fit the budget or are one.
GoodPrompt(p, es) ==
  /\ p \in Prompt
  /\ p.used > Budget => \E v \in Value : p.used = Cost[v]
  /\ \A h \in p.hits : \E e \in es : Active(e) /\ h.id = e.id

\* What is picked fits the budget, or is a single entry.
LEMMA PickedFits ==
  ASSUME MemoryAssumption, NEW es \in SUBSET Entry, IsFiniteSet(es), NEW k \in Nat,
         NEW order \in [1 .. k -> es], NEW ns \in SUBSET (1 .. k), Picked(order, ns)
  PROVE  FitsOrIsOne(Spent(At(order, ns)))
<1> USE DEF FitsOrIsOne
<1>1. \A ms \in SUBSET (1 .. k) : At(order, ms) \in SUBSET es
  BY DEF At
<1>2. \A ms \in SUBSET (1 .. k) : /\ At(order, ms) \in SUBSET Entry /\ IsFiniteSet(At(order, ms))
                                  /\ Spent(At(order, ms)) \in Nat
  <2> SUFFICES ASSUME NEW ms \in SUBSET (1 .. k)
               PROVE  At(order, ms) \in SUBSET Entry /\ IsFiniteSet(At(order, ms)) /\ Spent(At(order, ms)) \in Nat
    OBVIOUS
  <2>1. At(order, ms) \in SUBSET es
    BY <1>1
  <2>2. At(order, ms) \in SUBSET Entry /\ IsFiniteSet(At(order, ms))
    BY <2>1, FS_Subset
  <2> QED
    BY <2>2, TokensAre
<1>3. DOMAIN order = 1 .. k /\ Budget \in Nat
  BY DEF MemoryAssumption
<1>4. CASE ns = {}
  <2>1. At(order, ns) = {}
    BY <1>4 DEF At
  <2>2. Tokens({}) = {}
    BY DEF Tokens
  <2>3. Spent({}) = 0
    BY <2>2, FS_EmptySet DEF Spent
  <2> QED
    BY <1>3, <2>1, <2>3
<1>5. CASE ns # {} /\ \A n \in DOMAIN order : n \in ns <=> Fits(order, ns, n)
  <2>1. PICK n \in ns : \A m \in ns : m <= n
    <3>1. ns \in SUBSET (0 .. k)
      OBVIOUS
    <3> QED
      BY <1>5, <3>1, LargestNumber
  <2> DEFINE before == {j \in ns : j < n}
  <2>2. n \in 1 .. k /\ order[n] \in Entry /\ before \in SUBSET (1 .. k)
    OBVIOUS
  <2>3. ns = before \cup {n}
    <3>1. ASSUME NEW m \in ns PROVE m < n \/ m = n
      <4>1. m \in Nat /\ m <= n /\ n \in Nat
        BY <2>1
      <4> QED
        BY <4>1
    <3> QED
      BY <3>1
  <2>4. Spent(At(order, before)) + Cost[order[n].val] <= Budget
    BY <1>3, <1>5, <2>2 DEF Fits
  <2> HIDE DEF before
  <2>5. At(order, ns) = At(order, before) \cup {order[n]}
    BY <2>3 DEF At
  <2>6. /\ At(order, before) \in SUBSET Entry /\ IsFiniteSet(At(order, before))
        /\ Spent(At(order, before)) \in Nat /\ Spent(At(order, ns)) \in Nat
    BY <1>2, <2>2
  <2>7. Spent(At(order, ns)) <= Spent(At(order, before)) + Cost[order[n].val]
    BY <2>2, <2>5, <2>6, OneMoreCosts
  <2>8. Cost[order[n].val] \in Nat
    BY <2>2 DEF MemoryAssumption, Entry
  <2> QED
    BY <1>3, <2>4, <2>6, <2>7, <2>8
<1>6. CASE ns = {n \in DOMAIN order : n = 1} /\ ns # {}
  <2>1. ns = {1} /\ 1 \in 1 .. k /\ order[1] \in Entry
    BY <1>3, <1>6
  <2>2. At(order, ns) = {order[1]}
    BY <2>1 DEF At
  <2>3. Spent(At(order, ns)) = Cost[order[1].val]
    BY <2>1, <2>2, OneCosts
  <2>4. order[1].val \in Value
    BY <2>1 DEF Entry
  <2> QED
    BY <1>2, <2>3, <2>4
<1> QED
  BY <1>4, <1>5, <1>6 DEF Picked

\* The prompt of a message is a good one.
LEMMA PromptIs ==
  ASSUME MemoryAssumption, NEW n, NEW t, NEW es, Sound(es, n, t), NEW order \in Orders(es),
         NEW ns \in SUBSET DOMAIN order, Picked(order, ns), NEW rule \in Required
  PROVE  GoodPrompt(PromptOf(order, ns, rule), es)
<1> DEFINE p == PromptOf(order, ns, rule)
           hits == {h \in {Told(e) : e \in At(order, ns)} : ~Conflicts(rule, h)}
           first == {j \in ns : Cardinality({i \in ns : i < j}) < RecallParts}
           recall == IF hits = {} THEN {} ELSE {Told(e) : e \in At(order, first)}
           used == Spent(At(order, ns))
<1>1. PICK c \in SUBSET Actives(es) : order \in [1 .. Cardinality(c) -> c]
  BY DEF Orders, Candidates
<1>2. c \in SUBSET Entry /\ IsFiniteSet(c) /\ Cardinality(c) \in Nat /\ \A e \in c : e \in es /\ Active(e)
  <2>1. c \in SUBSET es /\ \A e \in c : Active(e)
    BY DEF Actives
  <2>2. IsFiniteSet(c)
    BY <2>1, FS_Subset DEF Sound
  <2> QED
    BY <2>1, <2>2, FS_CardinalityType DEF Sound
<1>3. ns \in SUBSET (1 .. Cardinality(c))
  BY <1>1
<1>4. FitsOrIsOne(used)
  <2>1. PICK k \in Nat : k = Cardinality(c)
    BY <1>2
  <2>2. order \in [1 .. k -> c] /\ ns \in SUBSET (1 .. k)
    BY <1>1, <1>3, <2>1
  <2>3. c \in SUBSET Entry /\ IsFiniteSet(c) /\ Picked(order, ns)
    BY <1>2
  <2> QED
    BY <2>2, <2>3, PickedFits
<1>5. \A e \in c : Told(e) \in Heard /\ Told(e).id = e.id
  BY <1>2 DEF Told, Heard, Entry
<1>6. \A ms \in SUBSET ns : At(order, ms) \in SUBSET c
  BY <1>1, <1>3 DEF At
<1>7. hits \in SUBSET Heard /\ \A h \in hits : \E e \in c : h.id = e.id
  BY <1>5, <1>6
<1>8. recall \in SUBSET Heard
  <2>1. first \in SUBSET ns
    OBVIOUS
  <2> HIDE DEF first, hits
  <2> QED
    BY <1>5, <1>6, <2>1
<1>9. p = [hits |-> hits, rule |-> rule, used |-> used, recall |-> recall]
  BY DEF PromptOf
<1> HIDE DEF p, hits, recall, used
<1>10. p \in Prompt /\ p.used = used /\ p.hits = hits
  BY <1>4, <1>7, <1>8, <1>9 DEF Prompt, FitsOrIsOne
<1>11. Budget \in Nat
  BY DEF MemoryAssumption
<1> QED
  BY <1>2, <1>4, <1>7, <1>10, <1>11 DEF GoodPrompt, p, FitsOrIsOne

\* What is said under u may be new; no entry is lost or moved.
Follows(es, fs, u) ==
  /\ \A e \in es : \E f \in fs : f.id = e.id /\ f.val = e.val /\ f.layer = e.layer
  /\ \A f \in fs : \/ \E e \in es : f.id = e.id /\ f.val = e.val /\ f.layer = e.layer /\ (Active(f) => Active(e))
                   \/ f.val = u.val

\* Taking back changes active entries under the key, and moves none.
LEMMA TakenBackIs ==
  ASSUME NEW n, NEW v \in Nat, NEW es, Sound(es, n, v), NEW t \in Nat, t <= v, NEW key
  PROVE  /\ Sound(TakenBack(es, key, t), n, v)
         /\ \A u : Follows(es, TakenBack(es, key, t), u)
<1> DEFINE Back(e) == [e EXCEPT !.st = "invalidated", !.upd = t]
           fn == [e \in es |-> IF Active(e) /\ e.key = key THEN Back(e) ELSE e]
<1>1. TakenBack(es, key, t) = {fn[e] : e \in es}
  BY DEF TakenBack
<1>2. \A e \in es : fn[e] = e \/ fn[e] = Back(e)
  OBVIOUS
<1>3. \A e \in es : /\ Back(e) \in Entry /\ Back(e).id = e.id /\ Back(e).upd = t /\ Back(e).acc = e.acc
                    /\ Back(e).val = e.val /\ Back(e).layer = e.layer /\ Back(e).st = "invalidated"
  <2> SUFFICES ASSUME NEW e \in es
               PROVE  /\ Back(e) \in Entry /\ Back(e).id = e.id /\ Back(e).upd = t /\ Back(e).acc = e.acc
                      /\ Back(e).val = e.val /\ Back(e).layer = e.layer /\ Back(e).st = "invalidated"
    OBVIOUS
  <2>1. e \in Entry
    BY DEF Sound
  <2> QED
    BY <2>1 DEF Entry
<1>4. DOMAIN fn = es
  OBVIOUS
<1> HIDE DEF fn, Back
<1>5. \A e \in es : /\ fn[e] \in Entry /\ fn[e].id = e.id /\ fn[e].upd <= v /\ fn[e].acc <= v
                    /\ fn[e].val = e.val /\ fn[e].layer = e.layer /\ (Active(fn[e]) => Active(e))
  <2> SUFFICES ASSUME NEW e \in es
               PROVE  /\ fn[e] \in Entry /\ fn[e].id = e.id /\ fn[e].upd <= v /\ fn[e].acc <= v
                      /\ fn[e].val = e.val /\ fn[e].layer = e.layer /\ (Active(fn[e]) => Active(e))
    OBVIOUS
  <2>1. e \in Entry /\ e.upd <= v /\ e.acc <= v
    BY DEF Sound
  <2>2. CASE fn[e] = e
    BY <2>1, <2>2
  <2>3. CASE fn[e] = Back(e)
    BY <1>3, <2>1, <2>3 DEF Active
  <2> QED
    BY <1>2, <2>2, <2>3
<1>6. Sound({fn[e] : e \in es}, n, v)
  BY <1>4, <1>5, ChangedAreSound
<1> QED
  BY <1>1, <1>5, <1>6 DEF Follows

\* An update takes back, adds or both; the entries stay sound and nothing else is new.
LEMMA RefreshedIs ==
  ASSUME MemoryAssumption, latest \in Nat, NEW v \in Nat, NEW es, Sound(es, latest, v),
         NEW t \in Nat, t <= v, NEW u \in Update, u.how # "none"
  PROVE  /\ Sound(Refreshed(es, u, t), IF u.how \in {"add", "overwrite"} THEN latest + 1 ELSE latest, v)
         /\ Follows(es, Refreshed(es, u, t), u)
<1> DEFINE old == IF u.how = "add" THEN es ELSE TakenBack(es, u.key, t)
           new == [id |-> NextId, layer |-> IF u.imp THEN 1 ELSE u.layer,
                   imp |-> u.imp, key |-> u.key, val |-> u.val, st |-> "active",
                   upd |-> t, acc |-> t, hits |-> 0]
<1>1. Sound(old, latest, v) /\ Follows(es, old, u)
  <2>1. Follows(es, es, u)
    BY DEF Follows
  <2> QED
    BY <2>1, TakenBackIs
<1>2. Refreshed(es, u, t) = IF u.how = "invalidate" THEN old ELSE old \cup {new}
  BY DEF Refreshed
<1>3. /\ new \in Entry /\ new.id = latest + 1 /\ new.upd = t /\ new.acc = t /\ new.val = u.val
  <2>1. NextId \in Nat \ {0} /\ NextId = latest + 1
    BY DEF NextId
  <2>2. (IF u.imp THEN 1 ELSE u.layer) \in Layer
    BY DEF Update, Layer
  <2>3. u.imp \in BOOLEAN /\ u.key \in Key /\ u.val \in Value
    BY DEF Update
  <2>4. new = [id |-> NextId, layer |-> new.layer, imp |-> u.imp, key |-> u.key, val |-> u.val, st |-> "active",
               upd |-> t, acc |-> t, hits |-> 0] /\ new.layer = IF u.imp THEN 1 ELSE u.layer
    OBVIOUS
  <2> HIDE DEF new
  <2>5. new.layer \in Layer
    BY <2>2, <2>4
  <2>6. /\ new.id = NextId /\ new.upd = t /\ new.acc = t /\ new.val = u.val
    BY <2>4
  <2>7. new \in Entry
    BY <2>1, <2>3, <2>4, <2>5 DEF Entry
  <2> QED
    BY <2>1, <2>6, <2>7
<1> HIDE DEF old, new
<1>4. CASE u.how = "invalidate"
  BY <1>1, <1>2, <1>4
<1>5. CASE u.how \in {"add", "overwrite"}
  <2>1. /\ old \in SUBSET Entry /\ IsFiniteSet(old)
        /\ \A e \in old : e \in Entry /\ e.id \in Nat /\ e.id <= latest /\ e.upd <= v /\ e.acc <= v
        /\ \A e, f \in old : e.id = f.id => e = f
    BY <1>1 DEF Sound, Entry
  <2>2. IsFiniteSet(old \cup {new})
    BY <2>1, FS_AddElement
  <2>3. \A e \in old \cup {new} : e.id <= latest + 1 /\ e.upd <= v /\ e.acc <= v
    <3> SUFFICES ASSUME NEW e \in old \cup {new} PROVE e.id <= latest + 1 /\ e.upd <= v /\ e.acc <= v
      OBVIOUS
    <3>1. CASE e \in old
      BY <2>1, <3>1
    <3>2. CASE e = new
      BY <1>3, <3>2
    <3> QED
      BY <3>1, <3>2
  <2>4. \A e \in old : e.id # new.id
    BY <1>3, <2>1
  <2>5. \A e, f \in old \cup {new} : e.id = f.id => e = f
    BY <2>1, <2>4
  <2>6. Sound(old \cup {new}, latest + 1, v)
    BY <1>3, <2>1, <2>2, <2>3, <2>5 DEF Sound
  <2>7. Follows(es, old \cup {new}, u)
    BY <1>1, <1>3 DEF Follows
  <2>8. Refreshed(es, u, t) = old \cup {new}
    BY <1>2, <1>5
  <2> QED
    BY <1>5, <2>6, <2>7, <2>8
<1> QED
  BY <1>4, <1>5 DEF Update

-----------------------------------------------------------------------------
(* Memory: the invariant *)

DoingSet == [pc : {"new", "read", "store", "recall", "execute", "record", "done"}, at : Nat,
             raw : [rule : Required, edit : Nat], prompt : Prompt]

FileSet == [rule : Required, edit : Nat]

\* No message is ahead of the clock or of the file, and its prompt fits.
GoodDoing(d) == /\ d \in DoingSet /\ d.at <= now /\ d.raw.edit <= file.edit
                /\ d.prompt.used > Budget => \E v \in Value : d.prompt.used = Cost[v]

MemoryInv ==
  /\ now \in 0 .. MaxNow /\ latest \in Nat
  /\ Sound(entries, latest, now) /\ AllFits(entries)
  /\ doing \in [UserMessage -> DoingSet]
  /\ \A m \in UserMessage : GoodDoing(doing[m])
  /\ file \in FileSet /\ rules \in FileSet /\ rules.edit <= file.edit

\* The invariant says that layers and prompts fit.
LEMMA MemoryIsSound ==
  ASSUME MemoryAssumption, MemoryInv PROVE MemoryTypeOK /\ LayersFit /\ RecallFitsBudget
<1>1. LayersFit
  BY DEF MemoryInv, AllFits, LayersFit
<1>2. RecallFitsBudget
  BY DEF MemoryInv, GoodDoing, RecallFitsBudget
<1>3. \A m \in UserMessage : [pc |-> doing[m].pc, at |-> doing[m].at, raw |-> doing[m].raw] \in MessageState
  BY DEF MemoryInv, DoingSet, MessageState
<1>4. \A e \in entries : \A f \in entries : f.id = e.id => f = e
  BY DEF MemoryInv, Sound
<1>5. MemoryTypeOK
  BY <1>3, <1>4 DEF MemoryInv, MemoryTypeOK, Sound, FileSet
<1> QED
  BY <1>1, <1>2, <1>5

\* A message starts with an empty prompt.
LEMMA NothingIsKnown == NoPrompt \in Prompt /\ NoPrompt.used = 0
BY DEF NoPrompt, Prompt, Required

\* Nothing is remembered at the start.
LEMMA MemoryStarts == ASSUME MemoryAssumption, MemoryInit PROVE MemoryInv
<1>1. Sound({}, 0, 0)
  BY FS_EmptySet DEF Sound
<1>2. AllFits({})
  <2>1. \A l \in Layer : InLayer({}, l) = {} /\ LayerTokens[l] \in Nat
    BY DEF InLayer, Actives, MemoryAssumption
  <2>2. Tokens({}) = {} /\ Actives({}) = {} /\ Cardinality({}) = 0
    BY FS_EmptySet DEF Tokens, Actives
  <2>3. Spent({}) = 0
    BY <2>2 DEF Spent
  <2>4. ASSUME NEW l \in Layer PROVE Usage({}, l) <= LayerTokens[l]
    BY <2>1, <2>3 DEF Usage
  <2>5. Cardinality(Actives({})) <= MaxActive
    <3>1. Cardinality(Actives({})) = 0
      BY <2>2
    <3>2. MaxActive \in Nat
      BY DEF MemoryAssumption
    <3> QED
      BY <3>1, <3>2
  <2> QED
    BY <2>4, <2>5 DEF AllFits
<1>3. file \in FileSet /\ rules = file /\ file.edit = 0
  BY DEF MemoryInit, FileSet, Required
<1>4. ASSUME NEW m \in UserMessage PROVE GoodDoing(doing[m])
  <2>1. doing[m] = [pc |-> "new", at |-> 0, raw |-> file, prompt |-> NoPrompt]
    BY DEF MemoryInit, NotAsked
  <2>2. doing[m] \in DoingSet
    BY <1>3, <2>1, NothingIsKnown DEF DoingSet, FileSet
  <2>3. Budget \in Nat
    BY DEF MemoryAssumption
  <2> QED
    BY <1>3, <2>1, <2>2, <2>3, NothingIsKnown DEF GoodDoing, MemoryInit
<1>5. doing \in [UserMessage -> DoingSet]
  BY <1>4 DEF MemoryInit, GoodDoing
<1> QED
  BY <1>1, <1>2, <1>3, <1>4, <1>5 DEF MemoryInit, MemoryInv, MemoryAssumption

\* The actions of the two properties of steps.
LostForNeed ==
  \A e \in Gone : \/ (IF e.acc > e.upd THEN e.acc ELSE e.upd) + LayerTTL[e.layer] < now
                  \/ Cardinality(Actives(entries')) >= MaxActive
                  \/ \E l \in Layer, v \in Displaced :
                       /\ e.layer - l \in -1 .. 1
                       /\ Usage(entries', l) + Cost[v] > LayerTokens[l]
StaysOut ==
  \A m \in UserMessage : doing'[m].prompt # doing[m].prompt =>
    \A e \in entries : e.st = "invalidated" =>
      \A h \in doing'[m].prompt.hits : h.id # e.id

\* Soundness lasts.
LEMMA SoundLater ==
  ASSUME NEW n \in Nat, NEW k \in Nat, n <= k, NEW t \in Nat, NEW u \in Nat, t <= u, NEW es, Sound(es, n, t)
  PROVE  Sound(es, k, u)
<1>1. \A e \in es : e.id \in Nat /\ e.upd \in Nat /\ e.acc \in Nat
  BY DEF Sound, Entry
<1> QED
  BY <1>1 DEF Sound

\* What a message is at when others move, and when it moves itself.
LEMMA DoingStays ==
  ASSUME MemoryAssumption, MemoryInv, now' \in Nat, now <= now', file'.edit \in Nat, file.edit <= file'.edit
  PROVE  \A m \in UserMessage : GoodDoing(doing[m])' \/ doing'[m] # doing[m]
<1> SUFFICES ASSUME NEW m \in UserMessage, doing'[m] = doing[m] PROVE GoodDoing(doing[m])'
  OBVIOUS
<1>1. GoodDoing(doing[m]) /\ doing[m].at \in Nat /\ doing[m].raw.edit \in Nat /\ now \in Nat /\ file.edit \in Nat
  BY DEF MemoryInv, GoodDoing, DoingSet, FileSet, MemoryAssumption
<1> QED
  BY <1>1 DEF GoodDoing

\* Nothing goes and nothing is told where the entries and prompts stay.
LEMMA QuietStep ==
  ASSUME entries' = entries, \A m \in UserMessage : doing'[m].prompt = doing[m].prompt
  PROVE  LostForNeed /\ StaysOut
<1>1. Gone = {}
  BY DEF Gone
<1> QED
  BY <1>1 DEF LostForNeed, StaysOut

\* Time passes.
LEMMA ClockKeeps ==
  ASSUME MemoryAssumption, MemoryInv, TimePasses PROVE MemoryInv' /\ LostForNeed /\ StaysOut
<1>1. now \in Nat /\ now' \in 0 .. MaxNow /\ now' \in Nat /\ now <= now' /\ latest \in Nat /\ file.edit \in Nat
  BY DEF MemoryInv, TimePasses, MemoryAssumption, FileSet
<1>2. /\ entries' = entries /\ latest' = latest /\ file' = file /\ rules' = rules /\ doing' = doing
  BY DEF TimePasses
<1>3. Sound(entries, latest, now')
  BY <1>1, SoundLater DEF MemoryInv
<1>4. \A m \in UserMessage : GoodDoing(doing[m])'
  BY <1>1, <1>2, DoingStays
<1>5. Sound(entries', latest', now')
  BY <1>2, <1>3
<1>6. MemoryInv'
  BY <1>1, <1>2, <1>4, <1>5 DEF MemoryInv, AllFits, Usage, InLayer, Actives
<1> QED
  BY <1>2, <1>6, QuietStep

\* The mandatory file is edited.
LEMMA EditKeeps ==
  ASSUME MemoryAssumption, MemoryInv, Edit PROVE MemoryInv' /\ LostForNeed /\ StaysOut
<1>1. PICK k \in Key, v \in Value \cup {Free} :
        file' = [rule |-> [file.rule EXCEPT ![k] = v], edit |-> file.edit + 1]
  BY DEF Edit
<1>2. /\ now' = now /\ entries' = entries /\ latest' = latest /\ rules' = rules /\ doing' = doing
  BY DEF Edit
<1>3. now \in Nat /\ file.edit \in Nat /\ file.rule \in Required /\ rules.edit \in Nat
  BY DEF MemoryInv, FileSet, MemoryAssumption
<1>4. [file.rule EXCEPT ![k] = v] \in Required
  BY <1>3 DEF Required
<1>5. file' \in FileSet /\ file'.edit = file.edit + 1 /\ file'.edit \in Nat /\ file.edit <= file'.edit
  BY <1>1, <1>3, <1>4 DEF FileSet
<1>6. \A m \in UserMessage : GoodDoing(doing[m])'
  BY <1>2, <1>3, <1>5, DoingStays
<1>7. rules'.edit <= file'.edit
  BY <1>2, <1>3, <1>5 DEF MemoryInv
<1>8. Sound(entries', latest', now') /\ AllFits(entries')
  BY <1>2 DEF MemoryInv
<1>9. MemoryInv'
  BY <1>2, <1>5, <1>6, <1>7, <1>8 DEF MemoryInv
<1> QED
  BY <1>2, <1>9, QuietStep

\* A step of one message alone, which tells nothing.
LEMMA MessageKeeps ==
  ASSUME MemoryAssumption, MemoryInv, NEW m \in UserMessage, NEW d, d \in DoingSet,
         d.at <= now, d.raw.edit <= file.edit, d.prompt = doing[m].prompt,
         doing' = [doing EXCEPT ![m] = d], now' = now, entries' = entries, latest' = latest, file' = file,
         rules' \in FileSet, rules'.edit <= file.edit
  PROVE  MemoryInv' /\ LostForNeed /\ StaysOut
<1>1. now \in Nat /\ file.edit \in Nat /\ doing \in [UserMessage -> DoingSet]
  BY DEF MemoryInv, FileSet, MemoryAssumption
<1>2. doing' \in [UserMessage -> DoingSet] /\ doing'[m] = d /\ \A q \in UserMessage \ {m} : doing'[q] = doing[q]
  BY <1>1
<1>3. ASSUME NEW q \in UserMessage PROVE GoodDoing(doing[q])'
  <2>1. CASE q = m
    <3>1. GoodDoing(doing[m])
      BY DEF MemoryInv
    <3> QED
      BY <1>2, <2>1, <3>1 DEF GoodDoing
  <2>2. CASE q # m
    BY <1>1, <1>2, <2>2, DoingStays
  <2> QED
    BY <2>1, <2>2
<1>4. Sound(entries', latest', now') /\ AllFits(entries')
  BY DEF MemoryInv
<1>5. MemoryInv'
  BY <1>2, <1>3, <1>4 DEF MemoryInv
<1>6. \A q \in UserMessage : doing'[q].prompt = doing[q].prompt
  BY <1>2
<1> QED
  BY <1>5, <1>6, QuietStep

\* A message arrives, reads the file, stores it or is executed.
LEMMA ReadsKeep ==
  ASSUME MemoryAssumption, MemoryInv, NEW m \in UserMessage,
         Arrive(m) \/ ReadFile(m) \/ StoreFile(m) \/ Execute(m)
  PROVE  MemoryInv' /\ LostForNeed /\ StaysOut
<1>1. /\ now \in Nat /\ file \in FileSet /\ rules \in FileSet /\ rules.edit <= file.edit
      /\ file.edit \in Nat /\ doing[m] \in DoingSet /\ GoodDoing(doing[m]) /\ doing \in [UserMessage -> DoingSet]
  BY DEF MemoryInv, MemoryAssumption, FileSet
<1>2. doing[m].raw \in FileSet /\ doing[m].at \in Nat /\ doing[m].at <= now /\ doing[m].raw.edit <= file.edit
  BY <1>1 DEF DoingSet, FileSet, GoodDoing
<1>3. CASE Arrive(m)
  <2> DEFINE d == [doing[m] EXCEPT !.pc = "read", !.at = now]
  <2>1. d \in DoingSet /\ d.at = now /\ d.raw = doing[m].raw /\ d.prompt = doing[m].prompt
    BY <1>1 DEF DoingSet
  <2>2. doing' = [doing EXCEPT ![m] = d]
    BY <1>1, <1>3 DEF Arrive
  <2>3. now' = now /\ entries' = entries /\ latest' = latest /\ file' = file /\ rules' = rules
    BY <1>3 DEF Arrive
  <2> HIDE DEF d
  <2>4. d.at <= now /\ d.raw.edit <= file.edit /\ rules' \in FileSet /\ rules'.edit <= file.edit
    BY <1>1, <1>2, <2>1, <2>3
  <2> QED
    BY <2>1, <2>2, <2>3, <2>4, MessageKeeps
<1>4. CASE ReadFile(m)
  <2> DEFINE d == [doing[m] EXCEPT !.pc = "store", !.raw = file]
  <2>1. d \in DoingSet /\ d.at = doing[m].at /\ d.raw = file /\ d.prompt = doing[m].prompt
    BY <1>1 DEF DoingSet, FileSet
  <2>2. doing' = [doing EXCEPT ![m] = d]
    BY <1>1, <1>4 DEF ReadFile
  <2>3. now' = now /\ entries' = entries /\ latest' = latest /\ file' = file /\ rules' = rules
    BY <1>4 DEF ReadFile
  <2> HIDE DEF d
  <2>4. d.at <= now /\ d.raw.edit <= file.edit /\ rules' \in FileSet /\ rules'.edit <= file.edit
    BY <1>1, <1>2, <2>1, <2>3
  <2> QED
    BY <2>1, <2>2, <2>3, <2>4, MessageKeeps
<1>5. CASE StoreFile(m)
  <2> DEFINE d == [doing[m] EXCEPT !.pc = "recall"]
  <2>1. d \in DoingSet /\ d.at = doing[m].at /\ d.raw = doing[m].raw /\ d.prompt = doing[m].prompt
    BY <1>1 DEF DoingSet
  <2>2. doing' = [doing EXCEPT ![m] = d]
    BY <1>1, <1>5 DEF StoreFile
  <2>3. now' = now /\ entries' = entries /\ latest' = latest /\ file' = file /\ rules' = doing[m].raw
    BY <1>5 DEF StoreFile
  <2> HIDE DEF d
  <2>4. d.at <= now /\ d.raw.edit <= file.edit /\ rules' \in FileSet /\ rules'.edit <= file.edit
    BY <1>1, <1>2, <2>1, <2>3
  <2> QED
    BY <2>1, <2>2, <2>3, <2>4, MessageKeeps
<1>6. CASE Execute(m)
  <2>1. PICK next \in {"record", "done"} : doing' = [doing EXCEPT ![m].pc = next]
    BY <1>6 DEF Execute
  <2> DEFINE d == [doing[m] EXCEPT !.pc = next]
  <2>2. d \in DoingSet /\ d.at = doing[m].at /\ d.raw = doing[m].raw /\ d.prompt = doing[m].prompt
    BY <1>1 DEF DoingSet
  <2>3. doing' = [doing EXCEPT ![m] = d]
    BY <1>1, <2>1
  <2>4. now' = now /\ entries' = entries /\ latest' = latest /\ file' = file /\ rules' = rules
    BY <1>6 DEF Execute
  <2> HIDE DEF d
  <2> QED
    BY <1>1, <1>2, <2>2, <2>3, <2>4, MessageKeeps
<1> QED
  BY <1>3, <1>4, <1>5, <1>6

\* From es to gs no entry is lost, none goes down or far up, and only what was said is new.
Moves(es, gs, said) ==
  /\ \A r \in es : \E g \in gs : g.id = r.id /\ g.layer \in {r.layer, r.layer - 1}
  /\ \A g \in gs : \/ \E r \in es : g.id = r.id /\ g.val = r.val /\ (Active(g) => Active(r))
                   \/ g.val \in said

ValuesSaid == {Saying[j].val : j \in JustSaid}

\* What is lost between the maintenance and the end of a step had to make room.
LEMMA LossIsNeeded ==
  ASSUME MemoryAssumption, MemoryInv, NEW t \in Nat, t <= now, NEW n,
         NEW gs, Sound(gs, n, now), Moves(Maintained(entries, t), gs, ValuesSaid), entries' = Fitted(gs, t)
  PROVE  LostForNeed
<1> DEFINE es == Maintained(entries, t)
           fs == Fitted(gs, t)
<1>1. /\ now \in Nat /\ Sound(entries, latest, now)
      /\ \A e \in entries : Elapsed(e, t) \/ Rested(e, t) \in es
      /\ \A f \in es : \E e \in entries : f = Rested(e, t)
  <2>1. now \in Nat /\ Sound(entries, latest, now)
    BY DEF MemoryInv, MemoryAssumption
  <2>2. RestsAt(entries, t, latest, now)
    BY <2>1, MaintainedIs
  <2> QED
    BY <2>1, <2>2 DEF RestsAt
<1>2. fs \in SUBSET gs /\ ForRoom(gs, fs)
  BY FittedIs
<1>3. entries' = fs /\ Moves(es, gs, ValuesSaid)
  OBVIOUS
<1>4. \A e \in entries : /\ e \in Entry /\ SameEntry(e, Rested(e, t))
                         /\ Rested(e, t).layer \in {e.layer, e.layer + 1}
  <2> SUFFICES ASSUME NEW e \in entries
               PROVE  e \in Entry /\ SameEntry(e, Rested(e, t)) /\ Rested(e, t).layer \in {e.layer, e.layer + 1}
    OBVIOUS
  <2>1. e \in Entry
    BY <1>1 DEF Sound
  <2> QED
    BY <2>1, RestedIs
<1> HIDE DEF es, fs
<1>5. ASSUME NEW f \in gs \ fs PROVE f.val \in Displaced
  <2>1. Active(f) /\ f \in Entry
    BY <1>2 DEF ForRoom, Sound
  <2>2. CASE f.val \in ValuesSaid
    BY <2>2 DEF Displaced, ValuesSaid
  <2>3. CASE f.val \notin ValuesSaid
    <3>1. PICK r \in es : f.id = r.id /\ f.val = r.val /\ Active(r)
      BY <1>3, <2>1, <2>3 DEF Moves
    <3>2. PICK e \in entries : r = Rested(e, t)
      BY <1>1
    <3>3. e.id = f.id /\ e.val = f.val /\ Active(e)
      BY <1>4, <3>1, <3>2 DEF SameEntry, Active
    <3>4. \A g \in fs : g.id # e.id
      BY <1>2, <3>3 DEF Sound
    <3>5. e \in Gone
      BY <1>3, <3>3, <3>4 DEF Gone
    <3> QED
      BY <3>3, <3>5 DEF Displaced
  <2> QED
    BY <2>2, <2>3
<1>6. ASSUME NEW e \in Gone
      PROVE  \/ (IF e.acc > e.upd THEN e.acc ELSE e.upd) + LayerTTL[e.layer] < now
             \/ Cardinality(Actives(fs)) >= MaxActive
             \/ \E l \in Layer, v \in Displaced :
                  /\ e.layer - l \in -1 .. 1
                  /\ Usage(fs, l) + Cost[v] > LayerTokens[l]
  <2>1. e \in entries /\ Active(e) /\ \A f \in fs : f.id # e.id
    BY <1>3 DEF Gone
  <2>2. e \in Entry /\ e.acc \in Nat /\ e.upd \in Nat /\ e.layer \in Layer /\ LayerTTL[e.layer] \in Nat
    BY <1>4, <2>1 DEF Entry, MemoryAssumption
  <2>3. CASE Elapsed(e, t)
    <3>1. KeptAt(e) + LayerTTL[e.layer] < t
      BY <2>3 DEF Elapsed
    <3>2. (IF e.acc > e.upd THEN e.acc ELSE e.upd) + LayerTTL[e.layer] < t
      BY <3>1 DEF KeptAt
    <3>3. (IF e.acc > e.upd THEN e.acc ELSE e.upd) + LayerTTL[e.layer] < now
      BY <1>1, <2>2, <3>2
    <3> QED
      BY <3>3
  <2>4. CASE Rested(e, t) \in es
    <3>1. PICK g \in gs : g.id = Rested(e, t).id /\ g.layer \in {Rested(e, t).layer, Rested(e, t).layer - 1}
      BY <1>3, <2>4 DEF Moves
    <3>2. g.id = e.id /\ g \in gs \ fs
      BY <1>4, <2>1, <3>1 DEF SameEntry
    <3>3. g.layer \in Layer /\ e.layer - g.layer \in -1 .. 1
      <4>1. g \in Entry
        BY <3>1 DEF Sound
      <4>2. g.layer \in Layer
        BY <4>1 DEF Entry
      <4> QED
        BY <1>4, <2>1, <2>2, <3>1, <4>2 DEF Layer
    <3>4. \/ Cardinality(Actives(fs)) >= MaxActive
          \/ \E f \in gs \ fs : Usage(fs, g.layer) + Cost[f.val] > LayerTokens[g.layer]
      BY <1>2, <3>2 DEF ForRoom
    <3>5. CASE \E f \in gs \ fs : Usage(fs, g.layer) + Cost[f.val] > LayerTokens[g.layer]
      <4>1. PICK f \in gs \ fs : Usage(fs, g.layer) + Cost[f.val] > LayerTokens[g.layer]
        BY <3>5
      <4>2. f.val \in Displaced
        BY <1>5
      <4> QED
        BY <3>3, <4>1, <4>2
    <3> QED
      BY <3>4, <3>5
  <2> QED
    BY <1>1, <2>1, <2>3, <2>4
<1> QED
  BY <1>3, <1>6 DEF LostForNeed

\* A message recalls into its prompt, and the recall counts.
LEMMA RecallKeeps ==
  ASSUME MemoryAssumption, MemoryInv, NEW m \in UserMessage, Recall(m)
  PROVE  MemoryInv' /\ LostForNeed /\ StaysOut
<1> DEFINE t == doing[m].at
           es == Maintained(entries, t)
<1>1. /\ now \in Nat /\ latest \in Nat /\ Sound(entries, latest, now) /\ rules.rule \in Required
      /\ doing \in [UserMessage -> DoingSet] /\ GoodDoing(doing[m]) /\ doing[m] \in DoingSet
      /\ file.edit \in Nat /\ t \in Nat /\ t <= now
  BY DEF MemoryInv, MemoryAssumption, FileSet, GoodDoing, DoingSet
<1>2. PICK order \in Orders(es) : \E ns \in SUBSET DOMAIN order :
        /\ Picked(order, ns)
        /\ entries' = Fitted(Feedback(es, At(order, ns), t), t)
        /\ doing' = [doing EXCEPT ![m].pc = "execute", ![m].prompt = PromptOf(order, ns, rules.rule)]
  BY DEF Recall
<1>0. PICK ns \in SUBSET DOMAIN order :
        /\ Picked(order, ns)
        /\ entries' = Fitted(Feedback(es, At(order, ns), t), t)
        /\ doing' = [doing EXCEPT ![m].pc = "execute", ![m].prompt = PromptOf(order, ns, rules.rule)]
  BY <1>2
<1>3. now' = now /\ latest' = latest /\ file' = file /\ rules' = rules
  BY DEF Recall
<1> DEFINE gs == Feedback(es, At(order, ns), t)
           p == PromptOf(order, ns, rules.rule)
           d == [doing[m] EXCEPT !.pc = "execute", !.prompt = p]
<1> HIDE DEF t
<1>4. /\ Sound(es, latest, now)
      /\ \A f \in es : \E e \in entries : f = Rested(e, t)
  <2>1. RestsAt(entries, t, latest, now)
    BY <1>1, MaintainedIs
  <2> QED
    BY <2>1 DEF RestsAt
<1> HIDE DEF es
<1>5. /\ Sound(gs, latest, now)
      /\ \A e \in es : \E f \in gs : f \in {e, Recalled(e, t)}
      /\ \A f \in gs : \E e \in es : f \in {e, Recalled(e, t)}
  BY <1>1, <1>4, FeedbackIs
<1>6. GoodPrompt(p, es)
  BY <1>1, <1>0, <1>4, PromptIs
<1>7. doing' = [doing EXCEPT ![m] = d]
  BY <1>1, <1>0
<1>8. entries' = Fitted(gs, t)
  BY <1>0
<1> HIDE DEF gs, p
<1>9. d \in DoingSet /\ d.at = doing[m].at /\ d.raw = doing[m].raw /\ d.prompt = p
  BY <1>1, <1>6 DEF DoingSet, GoodPrompt
<1> HIDE DEF d
<1>10. doing' \in [UserMessage -> DoingSet] /\ doing'[m] = d /\ \A q \in UserMessage \ {m} : doing'[q] = doing[q]
  BY <1>1, <1>7, <1>9
<1>11. \A f \in es : SameEntry(f, Recalled(f, t)) /\ Recalled(f, t).layer \in {f.layer, f.layer - 1}
  <2> SUFFICES ASSUME NEW f \in es
               PROVE  SameEntry(f, Recalled(f, t)) /\ Recalled(f, t).layer \in {f.layer, f.layer - 1}
    OBVIOUS
  <2>1. f \in Entry
    BY <1>4 DEF Sound
  <2> QED
    BY <1>1, <2>1, RecalledIs
<1>12. Moves(es, gs, ValuesSaid)
  <2>1. ASSUME NEW r \in es PROVE \E g \in gs : g.id = r.id /\ g.layer \in {r.layer, r.layer - 1}
    <3>1. PICK g \in gs : g \in {r, Recalled(r, t)}
      BY <1>5
    <3> QED
      BY <1>11, <3>1 DEF SameEntry
  <2>2. ASSUME NEW g \in gs PROVE \E r \in es : g.id = r.id /\ g.val = r.val /\ (Active(g) => Active(r))
    <3>1. PICK r \in es : g \in {r, Recalled(r, t)}
      BY <1>5
    <3> QED
      BY <1>11, <3>1 DEF SameEntry, Active
  <2> QED
    BY <2>1, <2>2 DEF Moves
<1>13. LostForNeed
  BY <1>1, <1>5, <1>8, <1>12, LossIsNeeded DEF es
<1>14. StaysOut
  <2> SUFFICES ASSUME NEW q \in UserMessage, doing'[q].prompt # doing[q].prompt,
                      NEW e \in entries, e.st = "invalidated", NEW h \in doing'[q].prompt.hits, h.id = e.id
               PROVE  FALSE
    BY DEF StaysOut
  <2>1. q = m /\ h \in p.hits
    BY <1>9, <1>10
  <2>2. PICK g \in es : Active(g) /\ h.id = g.id
    BY <1>6, <2>1 DEF GoodPrompt
  <2>3. PICK f \in entries : g = Rested(f, t)
    BY <1>4
  <2>4. f \in Entry
    BY <1>1 DEF Sound
  <2>5. f.id = e.id /\ Active(f)
    BY <1>1, <2>2, <2>3, <2>4, RestedIs DEF SameEntry, Active
  <2>6. f = e
    BY <1>1, <2>5 DEF Sound
  <2> QED
    BY <2>5, <2>6 DEF Active
<1>15. Sound(entries', latest', now') /\ AllFits(entries')
  <2>1. Fitted(gs, t) \in SUBSET gs /\ AllFits(Fitted(gs, t))
    BY <1>1, <1>5, FittedIs
  <2> QED
    BY <1>3, <1>5, <1>8, <2>1, FewerAreSound
<1>16. \A q \in UserMessage : GoodDoing(doing[q])'
  <2> SUFFICES ASSUME NEW q \in UserMessage PROVE GoodDoing(doing[q])'
    OBVIOUS
  <2>1. CASE q = m
    BY <1>1, <1>3, <1>6, <1>9, <1>10, <2>1 DEF GoodDoing, GoodPrompt
  <2>2. CASE q # m
    BY <1>1, <1>3, <1>10, <2>2, DoingStays
  <2> QED
    BY <2>1, <2>2
<1>17. MemoryInv'
  BY <1>3, <1>10, <1>15, <1>16 DEF MemoryInv
<1> QED
  BY <1>13, <1>14, <1>17

\* A message is done and what it says is remembered.
LEMMA RememberKeeps ==
  ASSUME MemoryAssumption, MemoryInv, NEW m \in UserMessage, Remember(m)
  PROVE  MemoryInv' /\ LostForNeed /\ StaysOut
<1> DEFINE t == doing[m].at
           u == Saying[m]
           d == [doing[m] EXCEPT !.pc = "done"]
<1>1. /\ now \in Nat /\ latest \in Nat /\ Sound(entries, latest, now) /\ u \in Update
      /\ doing \in [UserMessage -> DoingSet] /\ GoodDoing(doing[m]) /\ doing[m] \in DoingSet
      /\ file.edit \in Nat /\ t \in Nat /\ t <= now
  BY DEF MemoryInv, MemoryAssumption, FileSet, GoodDoing, DoingSet
<1>2. /\ entries' = IF u.how = "none" THEN entries ELSE Fitted(Refreshed(Maintained(entries, t), u, t), t)
      /\ latest' = IF u.how \in {"add", "overwrite"} THEN latest + 1 ELSE latest
      /\ DoingAt(m, "record")
  BY DEF Remember
<1>3. now' = now /\ file' = file /\ rules' = rules /\ doing' = [doing EXCEPT ![m] = d]
  BY <1>1 DEF Remember
<1>4. d \in DoingSet /\ d.at = doing[m].at /\ d.raw = doing[m].raw /\ d.prompt = doing[m].prompt /\ d.pc = "done"
  BY <1>1 DEF DoingSet
<1> HIDE DEF d, t
<1>5. doing' \in [UserMessage -> DoingSet] /\ doing'[m] = d /\ \A q \in UserMessage \ {m} : doing'[q] = doing[q]
  BY <1>1, <1>3, <1>4
<1>6. CASE u.how = "none"
  <2>1. entries' = entries /\ latest' = latest
    BY <1>2, <1>6
  <2>2. rules' \in FileSet /\ rules'.edit <= file.edit
    BY <1>3 DEF MemoryInv
  <2>3. d.at <= now /\ d.raw.edit <= file.edit
    BY <1>1, <1>4 DEF GoodDoing, t
  <2> QED
    BY <1>3, <1>4, <2>1, <2>2, <2>3, MessageKeeps
<1>7. CASE u.how # "none"
  <2> DEFINE es == Maintained(entries, t)
             gs == Refreshed(es, u, t)
  <2>1. Sound(es, latest, now)
    <3>1. RestsAt(entries, t, latest, now)
      BY <1>1, MaintainedIs
    <3> QED
      BY <3>1 DEF RestsAt
  <2> HIDE DEF es, u
  <2>2. Sound(gs, latest', now) /\ Follows(es, gs, u)
    BY <1>1, <1>2, <1>7, <2>1, RefreshedIs
  <2> HIDE DEF gs
  <2>3. entries' = Fitted(gs, t)
    BY <1>2, <1>7 DEF gs, es
  <2>4. u.val \in ValuesSaid
    <3>1. m \in JustSaid
      BY <1>2, <1>4, <1>5 DEF JustSaid
    <3> QED
      BY <3>1 DEF ValuesSaid, u
  <2>5. Moves(es, gs, ValuesSaid)
    BY <2>2, <2>4 DEF Follows, Moves
  <2>6. LostForNeed
    BY <1>1, <2>2, <2>3, <2>5, LossIsNeeded DEF es
  <2>7. StaysOut
    <3>1. \A q \in UserMessage : doing'[q].prompt = doing[q].prompt
      BY <1>4, <1>5
    <3> QED
      BY <3>1 DEF StaysOut
  <2>8. Sound(entries', latest', now') /\ AllFits(entries')
    <3>1. Fitted(gs, t) \in SUBSET gs /\ AllFits(Fitted(gs, t))
      BY <1>1, <2>2, FittedIs
    <3> QED
      BY <1>3, <2>2, <2>3, <3>1, FewerAreSound
  <2>9. \A q \in UserMessage : GoodDoing(doing[q])'
    <3> SUFFICES ASSUME NEW q \in UserMessage PROVE GoodDoing(doing[q])'
      OBVIOUS
    <3>1. CASE q = m
      BY <1>1, <1>3, <1>4, <1>5, <3>1 DEF GoodDoing, t
    <3>2. CASE q # m
      BY <1>1, <1>3, <1>5, <3>2, DoingStays
    <3> QED
      BY <3>1, <3>2
  <2>10. latest' \in Nat
    BY <1>1, <1>2
  <2>11. MemoryInv'
    BY <1>3, <1>5, <2>8, <2>9, <2>10 DEF MemoryInv
  <2> QED
    BY <2>6, <2>7, <2>11
<1> QED
  BY <1>6, <1>7

\* Every step keeps the invariant, loses entries for need only and tells nothing forgotten.
LEMMA MemoryInductive ==
  ASSUME MemoryAssumption, MemoryInv, [MemoryNext]_memoryVars
  PROVE  MemoryInv' /\ LostForNeed /\ StaysOut
<1>1. CASE UNCHANGED memoryVars
  <2>1. /\ now' = now /\ entries' = entries /\ latest' = latest /\ file' = file /\ rules' = rules /\ doing' = doing
    BY <1>1 DEF memoryVars
  <2>2. MemoryInv'
    BY <2>1 DEF MemoryInv, Sound, AllFits, Usage, InLayer, Actives, GoodDoing
  <2> QED
    BY <2>1, <2>2, QuietStep
<1>2. CASE MemoryNext
  BY <1>2, ClockKeeps, EditKeeps, ReadsKeep, RecallKeeps, RememberKeeps DEF MemoryNext
<1> QED
  BY <1>1, <1>2

\* The invariant holds in every behaviour.
THEOREM MemoryInvariant == ASSUME MemoryAssumption PROVE MemorySpec => []MemoryInv
<1>1. MemoryInit => MemoryInv
  BY MemoryStarts
<1>2. MemoryInv /\ [MemoryNext]_memoryVars => MemoryInv'
  BY MemoryInductive
<1> QED
  BY <1>1, <1>2, PTL DEF MemorySpec

\* What is remembered stays as long as it should and fits where it is kept: an active
\* entry goes at the end of its lifetime or for room, what was overwritten is in no later
\* prompt, layers keep to their tokens and prompts to their budget, for every number of
\* messages that overlap (Snapshot, Record, enforceLongTermMemoryTierCapacity).
THEOREM MemoryIsKeptAlways == ASSUME MemoryAssumption PROVE MemorySpec => MemoryIsKept
<1>1. MemoryInv => LayersFit /\ RecallFitsBudget
  BY MemoryIsSound
<1>2. MemoryInv /\ [MemoryNext]_memoryVars => [LostForNeed]_memoryVars /\ [StaysOut]_memoryVars
  BY MemoryInductive
<1> QED
  BY <1>1, <1>2, MemoryInvariant, PTL DEF MemorySpec, MemoryIsKept, NothingLostWithoutNeed, ForgottenStaysOut,
     LostForNeed, StaysOut

=============================================================================
