------------------------- MODULE UpdateBrokerProofs -------------------------
(* Proofs about UpdateBroker: a reader that follows its cursor skips       *)
(* nothing, and is told when something it missed has left the window.      *)
EXTENDS UpdateBroker, SequenceTheorems, TLAPS

\* The window is the end of the log, and not empty once something was published.
Oldest == nextEventID - Len(recent) + 1
WindowInv ==
  /\ Len(log) = nextEventID /\ Len(recent) <= nextEventID
  /\ nextEventID > 0 => Len(recent) > 0
  /\ \A k \in 1 .. Len(recent) :
       recent[k].id = Oldest + k - 1 /\ recent[k].owner = log[recent[k].id]

\* A cursor of this process is not ahead of the feed.
ReaderInv ==
  \A o \in Owner : told[o].era <= era
                   /\ (told[o].era = era => told[o].cursor <= nextEventID)

BrokerInv == BrokerTypeOK /\ WindowInv /\ ReaderInv /\ NothingSkipped

-----------------------------------------------------------------------------
(* The window *)

LEMMA OldestIsInt == BrokerTypeOK => Oldest \in Int /\ Len(recent) \in Nat
                                     /\ nextEventID \in Nat
  BY BrokerAssumption, LenProperties DEF BrokerTypeOK, Oldest

LEMMA WindowEvents ==
  ASSUME BrokerTypeOK, WindowInv, NEW e \in InWindow
  PROVE  e \in Event /\ e.id >= Oldest /\ e.id <= nextEventID
<1>1. PICK k \in 1 .. Len(recent) : e = recent[k]
  BY DEF InWindow
<1>2. e \in Event
  BY <1>1, ElementOfSeq DEF BrokerTypeOK
<1>3. e.id = Oldest + k - 1
  BY <1>1 DEF WindowInv
<1> QED
  BY <1>2, <1>3, OldestIsInt DEF Oldest

LEMMA WindowHolds ==
  ASSUME BrokerTypeOK, WindowInv, NEW o \in Owner, NEW i \in Own(o), i >= Oldest
  PROVE  \E e \in InWindow : e.id = i /\ e.owner = o
<1> DEFINE k == i - Oldest + 1
<1>1. i \in 1 .. nextEventID /\ log[i] = o
  BY DEF Own, WindowInv
<1>2. k \in 1 .. Len(recent)
  BY <1>1, OldestIsInt DEF Oldest
<1>3. recent[k] \in InWindow
  BY <1>2 DEF InWindow
<1>4. recent[k].id = i /\ recent[k].owner = o
  <2>1. recent[k].id = Oldest + k - 1 /\ recent[k].owner = log[recent[k].id]
    BY <1>2 DEF WindowInv
  <2>2. recent[k].id = i
    BY <2>1, <1>1, OldestIsInt
  <2> QED
    BY <2>1, <2>2, <1>1
<1> QED
  BY <1>3, <1>4

\* A cursor that needs no resync is not before the window.
LEMMA CursorInWindow ==
  ASSUME BrokerTypeOK, WindowInv, NEW o \in Owner, NEW since \in Nat,
         since > 0, ~MustResync(o, since)
  PROVE  since >= Oldest
<1>1. since <= nextEventID /\ ~Before(since, InWindow)
  BY OldestIsInt DEF MustResync
<1>2. InWindow # {}
  <2>1. 1 \in 1 .. Len(recent)
    BY <1>1, OldestIsInt DEF WindowInv
  <2> QED
    BY <2>1 DEF InWindow
<1>3. PICK e \in InWindow : ~(since < e.id)
  BY <1>1, <1>2 DEF Before
<1> QED
  BY <1>3, WindowEvents, OldestIsInt DEF Event, EventID

LEMMA LaterEvents ==
  ASSUME BrokerTypeOK, WindowInv, NEW o \in Owner, NEW since \in Nat,
         NEW e \in Later(o, since)
  PROVE  e \in Event /\ e.id \in Own(o) /\ e.id > since /\ e.id <= nextEventID
<1>1. e \in InWindow /\ e.owner = o /\ e.id > since
  BY DEF Later
<1>2. PICK k \in 1 .. Len(recent) : e = recent[k]
  BY <1>1 DEF InWindow
<1>3. e.owner = log[e.id]
  BY <1>2 DEF WindowInv
<1> QED
  BY <1>1, <1>3, WindowEvents, OldestIsInt DEF Own, WindowInv, Event, EventID

-----------------------------------------------------------------------------
(* Publish *)

LEMMA KeepProperties ==
  ASSUME NEW S, NEW q \in Seq(S), Len(q) <= Window + 1
  PROVE  /\ Keep(q) \in Seq(S) /\ Len(Keep(q)) <= Window /\ Len(Keep(q)) <= Len(q)
         /\ Len(q) > 0 => Len(Keep(q)) > 0
         /\ \A k \in 1 .. Len(Keep(q)) : Keep(q)[k] = q[Len(q) - Len(Keep(q)) + k]
<1> DEFINE m == Len(q) - Window + 1
<1>1. Len(q) \in Nat /\ Window \in Nat \ {0} /\ \A k \in 1 .. Len(q) : q[k] \in S
  BY BrokerAssumption, LenProperties, ElementOfSeq
<1>2. CASE Len(q) > Window
  <2>1. m \in Int /\ m = 2 /\ Keep(q) = SubSeq(q, m, Len(q))
    BY <1>1, <1>2 DEF Keep
  <2>2. \A k \in m .. Len(q) : q[k] \in S
    BY <1>1, <2>1
  <2> HIDE DEF m
  <2>3. /\ SubSeq(q, m, Len(q)) \in Seq(S)
        /\ Len(SubSeq(q, m, Len(q))) = IF m <= Len(q) THEN Len(q) - m + 1 ELSE 0
        /\ \A k \in 1 .. Len(q) - m + 1 : SubSeq(q, m, Len(q))[k] = q[m + k - 1]
    BY <1>1, <2>1, <2>2, SubSeqProperties
  <2>4. Len(q) = Window + 1 /\ Len(Keep(q)) = Window
    BY <1>1, <1>2, <2>1, <2>3
  <2>5. ASSUME NEW k \in 1 .. Len(Keep(q))
        PROVE  Keep(q)[k] = q[Len(q) - Len(Keep(q)) + k]
    <3>1. k \in 1 .. Len(q) - m + 1 /\ m + k - 1 = Len(q) - Len(Keep(q)) + k
      BY <1>1, <2>1, <2>4
    <3> QED
      BY <3>1, <2>1, <2>3
  <2> QED
    BY <1>1, <2>1, <2>3, <2>4, <2>5
<1>3. CASE ~(Len(q) > Window)
  BY <1>1, <1>3 DEF Keep
<1> QED
  BY <1>2, <1>3

LEMMA PublishKeepsWindow ==
  ASSUME BrokerTypeOK, WindowInv, NEW o \in Owner, Publish(o)
  PROVE  BrokerTypeOK' /\ WindowInv'
<1> DEFINE e == [id |-> nextEventID + 1, owner |-> o]
           q == Append(recent, e)
<1>1. /\ nextEventID \in Nat /\ nextEventID + 1 \in EventID
      /\ MaxEvents \in Nat /\ Len(recent) \in Nat
  BY OldestIsInt, BrokerAssumption DEF Publish, BrokerTypeOK, EventID
<1>2. e \in Event
  BY <1>1 DEF Event
<1>3. recent \in Seq(Event) /\ log \in Seq(Owner) /\ Len(recent) <= Window
  BY DEF BrokerTypeOK
<1>4. nextEventID' = nextEventID + 1 /\ recent' = Keep(q) /\ log' = Append(log, o)
  BY DEF Publish
<1> HIDE DEF e
<1>5. /\ q \in Seq(Event) /\ Len(q) = Len(recent) + 1
      /\ \A k \in 1 .. Len(recent) : q[k] = recent[k]
      /\ q[Len(recent) + 1] = e
  BY <1>2, <1>3, AppendProperties
<1>6. /\ log' \in Seq(Owner) /\ Len(log') = Len(log) + 1
      /\ \A k \in 1 .. Len(log) : log'[k] = log[k]
      /\ log'[Len(log) + 1] = o
  BY <1>2, <1>3, <1>4, AppendProperties
<1> HIDE DEF q
<1>7. Len(q) <= Window + 1
  BY <1>1, <1>3, <1>5, BrokerAssumption
<1>8. /\ recent' \in Seq(Event) /\ Len(recent') <= Window /\ Len(recent') <= Len(q)
      /\ Len(recent') > 0
      /\ \A k \in 1 .. Len(recent') : recent'[k] = q[Len(q) - Len(recent') + k]
  <2>1. /\ Keep(q) \in Seq(Event) /\ Len(Keep(q)) <= Window /\ Len(Keep(q)) <= Len(q)
        /\ Len(q) > 0 => Len(Keep(q)) > 0
        /\ \A k \in 1 .. Len(Keep(q)) : Keep(q)[k] = q[Len(q) - Len(Keep(q)) + k]
    BY <1>5, <1>7, KeepProperties
  <2> QED
    BY <2>1, <1>1, <1>4, <1>5
<1>9. Len(recent') \in Nat /\ Len(log) = nextEventID /\ Len(recent) <= nextEventID
  BY <1>8, LenProperties DEF WindowInv
<1>10. BrokerTypeOK'
  BY <1>1, <1>4, <1>6, <1>8 DEF BrokerTypeOK, Publish, EventID
<1>11. ASSUME NEW k \in 1 .. Len(recent')
       PROVE  recent'[k].id = Oldest' + k - 1
              /\ recent'[k].owner = log'[recent'[k].id]
  <2> DEFINE j == Len(q) - Len(recent') + k
  <2>1. /\ j \in 1 .. Len(recent) + 1 /\ recent'[k] = q[j]
        /\ Oldest' + k - 1 = nextEventID - Len(recent) + j
    BY <1>1, <1>4, <1>5, <1>8, <1>9 DEF Oldest
  <2>2. CASE j = Len(recent) + 1
    <3>1. recent'[k] = e
      BY <2>1, <2>2, <1>5
    <3> QED
      BY <3>1, <2>1, <2>2, <1>1, <1>6, <1>9 DEF e
  <2>3. CASE j \in 1 .. Len(recent)
    <3> HIDE DEF j
    <3>1. recent'[k] = recent[j]
      BY <2>1, <2>3, <1>5
    <3>2. recent[j].id = Oldest + j - 1 /\ recent[j].owner = log[recent[j].id]
      BY <2>3 DEF WindowInv
    <3>3. recent[j].id \in 1 .. Len(log)
      BY <3>2, <2>3, <1>1, <1>9 DEF Oldest
    <3>4. log'[recent[j].id] = log[recent[j].id]
      BY <3>3, <1>6
    <3>5. recent[j].id = Oldest' + k - 1
      BY <3>2, <2>1, <2>3, <1>1 DEF Oldest
    <3> QED
      BY <3>1, <3>2, <3>4, <3>5
  <2> QED
    BY <2>1, <2>2, <2>3, <1>1
<1>12. Len(log') = nextEventID' /\ Len(recent') <= nextEventID'
  BY <1>1, <1>4, <1>5, <1>6, <1>8, <1>9
<1>13. WindowInv'
  BY <1>8, <1>11, <1>12 DEF WindowInv
<1> QED
  BY <1>10, <1>13

LEMMA PublishStep ==
  ASSUME BrokerInv, NEW o \in Owner, Publish(o)
  PROVE  BrokerInv'
<1>1. BrokerTypeOK' /\ WindowInv'
  BY PublishKeepsWindow DEF BrokerInv
<1>2. /\ nextEventID' = nextEventID + 1 /\ UNCHANGED <<era, told>>
      /\ log' = Append(log, o)
      /\ Len(log) = nextEventID /\ nextEventID \in Nat
      /\ log \in Seq(Owner)
  BY OldestIsInt DEF Publish, BrokerInv, WindowInv, BrokerTypeOK
<1>3. \A p \in Owner : told[p] \in Reader /\ told[p].cursor \in Nat
  BY BrokerAssumption DEF BrokerInv, BrokerTypeOK, Reader
<1>4. ReaderInv'
  BY <1>2, <1>3 DEF BrokerInv, ReaderInv
<1>5. NothingSkipped'
  <2> SUFFICES ASSUME NEW p \in Owner, told[p].era = era, ~told[p].doubtful,
                      NEW i \in Unknown(p)'
               PROVE  i > told[p].cursor
    BY <1>2 DEF NothingSkipped
  <2>1. /\ Len(log') = Len(log) + 1
        /\ \A k \in 1 .. Len(log) : log'[k] = log[k]
    BY <1>2, AppendProperties
  <2>2. i \in 1 .. Len(log') /\ i \notin told[p].has
        /\ log'[i] = p
    BY <1>2 DEF Unknown, Own
  <2>3. CASE i = nextEventID + 1
    BY <2>3, <1>2, <1>3 DEF BrokerInv, ReaderInv
  <2>4. CASE i \in 1 .. Len(log)
    <3>1. i \in Unknown(p)
      BY <2>1, <2>2, <2>4 DEF Unknown, Own
    <3> QED
      BY <3>1 DEF BrokerInv, NothingSkipped
  <2> QED
    BY <2>1, <2>2, <2>3, <2>4, <1>2
<1> QED
  BY <1>1, <1>4, <1>5 DEF BrokerInv

-----------------------------------------------------------------------------
(* The other steps *)

\* A step of one reader, in which it is told of its process.
LEMMA ReaderStep ==
  ASSUME BrokerInv, NEW o \in Owner, NEW t \in Reader,
         told' = [told EXCEPT ![o] = t], UNCHANGED <<nextEventID, recent, log, era>>,
         t.era = era, t.cursor <= nextEventID,
         ~t.doubtful => \A i \in Own(o) \ t.has : i > t.cursor
  PROVE  BrokerInv'
<1>1. told \in [Owner -> Reader] /\ told'[o] = t
      /\ \A p \in Owner \ {o} : told'[p] = told[p]
  BY DEF BrokerInv, BrokerTypeOK
<1>2. era \in Nat
  BY BrokerAssumption DEF BrokerInv, BrokerTypeOK
<1>3. BrokerTypeOK'
  BY <1>1 DEF BrokerInv, BrokerTypeOK
<1>4. WindowInv'
  BY DEF BrokerInv, WindowInv, Oldest
<1>5. ReaderInv'
  BY <1>1, <1>2 DEF BrokerInv, ReaderInv
<1>6. NothingSkipped'
  <2> SUFFICES ASSUME NEW p \in Owner, told'[p].era = era, ~told'[p].doubtful,
                      NEW i \in Unknown(p)'
               PROVE  i > told'[p].cursor
    BY DEF NothingSkipped
  <2>1. i \in Own(p) \ told'[p].has
    BY DEF Unknown, Own
  <2>2. CASE p = o
    BY <2>1, <2>2, <1>1
  <2>3. CASE p # o
    BY <2>1, <2>3, <1>1 DEF BrokerInv, NothingSkipped, Unknown
  <2> QED
    BY <2>2, <2>3
<1> QED
  BY <1>3, <1>4, <1>5, <1>6 DEF BrokerInv

LEMMA OwnType ==
  ASSUME BrokerInv, NEW o \in Owner
  PROVE  Own(o) \subseteq EventID /\ nextEventID \in 0 .. MaxEvents /\ era \in 0 .. MaxBrokerRestarts
         /\ told[o] \in Reader
  BY BrokerAssumption DEF BrokerInv, BrokerTypeOK, WindowInv, Own, EventID

LEMMA ResyncStep ==
  ASSUME BrokerInv, NEW o \in Owner, Resync(o)
  PROVE  BrokerInv'
<1> DEFINE t == [era |-> era, cursor |-> nextEventID, has |-> Own(o),
                 doubtful |-> FALSE]
<1>1. told' = [told EXCEPT ![o] = t] /\ UNCHANGED <<nextEventID, recent, log, era>>
  BY DEF Resync, ResyncCursor, BrokerInv, BrokerTypeOK
<1>2. t \in Reader
  BY OwnType, BrokerAssumption DEF Reader
<1>3. t.era = era /\ t.cursor <= nextEventID /\ Own(o) \ t.has = {}
  BY OwnType, BrokerAssumption
<1> HIDE DEF t
<1> QED
  BY <1>1, <1>2, <1>3, ReaderStep

LEMMA JoinStep ==
  ASSUME BrokerInv, NEW o \in Owner, Join(o)
  PROVE  BrokerInv'
<1> DEFINE t == [era |-> era, cursor |-> 0, has |-> Own(o), doubtful |-> FALSE]
<1>1. told' = [told EXCEPT ![o] = t] /\ UNCHANGED <<nextEventID, recent, log, era>>
  BY DEF Join
<1>2. t \in Reader
  BY OwnType, BrokerAssumption DEF Reader
<1>3. t.era = era /\ t.cursor <= nextEventID /\ Own(o) \ t.has = {}
  BY OwnType, BrokerAssumption
<1> HIDE DEF t
<1> QED
  BY <1>1, <1>2, <1>3, ReaderStep

\* What a cut answer leaves out comes after its cursor.
LEMMA NothingBetween ==
  ASSUME BrokerTypeOK, WindowInv, NEW o \in Owner, NEW since \in Nat,
         since > 0, ~MustResync(o, since), NEW last \in Lasts(o, since),
         NEW i \in Own(o), i > since, i <= CursorAfter(o, since, last)
  PROVE  \E e \in Answer(o, since, last) : e.id = i
<1>1. since >= Oldest /\ i \in Nat
  BY CursorInWindow DEF Own
<1>2. PICK e \in InWindow : e.id = i /\ e.owner = o
  BY <1>1, WindowHolds, OldestIsInt
<1>3. e \in Later(o, since)
  BY <1>2 DEF Later
<1>4. CASE Answer(o, since, last) = Later(o, since)
  BY <1>2, <1>3, <1>4
<1>5. CASE Answer(o, since, last) # Later(o, since)
  BY <1>2, <1>3, <1>5 DEF CursorAfter, Answer
<1> QED
  BY <1>4, <1>5

LEMMA CursorIsNotAhead ==
  ASSUME BrokerTypeOK, WindowInv, NEW o \in Owner, NEW since \in Nat,
         NEW last \in Lasts(o, since)
  PROVE  CursorAfter(o, since, last) \in 0 .. MaxEvents
         /\ CursorAfter(o, since, last) <= nextEventID
<1>1. CASE Later(o, since) = {}
  BY <1>1, OldestIsInt DEF CursorAfter, Answer, BrokerTypeOK
<1>2. CASE Later(o, since) # {}
  <2>1. PICK e \in Later(o, since) : last = e.id
    BY <1>2 DEF Lasts
  <2>2. last \in EventID /\ last <= nextEventID
    BY <2>1, LaterEvents DEF Event
  <2> QED
    BY <2>2, OldestIsInt DEF CursorAfter, BrokerTypeOK, EventID
<1> QED
  BY <1>1, <1>2

LEMMA DeliverStep ==
  ASSUME BrokerInv, NEW o \in Owner, Deliver(o)
  PROVE  BrokerInv'
<1> DEFINE since == told[o].cursor
<1>1. PICK last \in Lasts(o, since) :
        LET ids     == {e.id : e \in Answer(o, since, last)}
            cursor  == CursorAfter(o, since, last)
            skipped == {i \in Unknown(o) : i <= cursor} \ ids
        IN told' = [told EXCEPT ![o] =
             [era |-> era, cursor |-> cursor, has |-> @.has \cup ids,
              doubtful |-> \/ @.doubtful
                           \/ (since = 0 \/ @.era # era) /\ skipped # {}]]
  BY DEF Deliver
<1> DEFINE ids     == {e.id : e \in Answer(o, since, last)}
           cursor  == CursorAfter(o, since, last)
           skipped == {i \in Unknown(o) : i <= cursor} \ ids
           t == [era |-> era, cursor |-> cursor, has |-> told[o].has \cup ids,
                 doubtful |-> \/ told[o].doubtful
                              \/ (since = 0 \/ told[o].era # era) /\ skipped # {}]
<1>2. told' = [told EXCEPT ![o] = t]
  BY <1>1 DEF BrokerInv, BrokerTypeOK
<1>3. UNCHANGED <<nextEventID, recent, log, era>> /\ ~MustResync(o, since)
  BY DEF Deliver
<1>4. told[o] \in Reader /\ since \in Nat
  BY OwnType, BrokerAssumption DEF Reader
<1>5. ids \subseteq EventID
  BY <1>4, LaterEvents DEF Answer, BrokerInv, Event
<1>6. cursor \in 0 .. MaxEvents /\ cursor <= nextEventID
  BY <1>4, CursorIsNotAhead DEF BrokerInv
<1>7. t \in Reader
  <2> HIDE DEF ids, cursor, skipped
  <2>1. t.doubtful \in BOOLEAN
    BY <1>4 DEF Reader
  <2> QED
    BY <2>1, <1>4, <1>5, <1>6, OwnType DEF Reader
<1>8. t.era = era /\ t.cursor <= nextEventID
  BY <1>6
<1>9. ASSUME ~t.doubtful, NEW i \in Own(o) \ t.has
      PROVE  i > t.cursor
  <2>1. i \in Unknown(o) /\ i \notin ids
    BY DEF Unknown
  <2>2. i \in Nat
    BY OwnType, BrokerAssumption DEF EventID
  <2>3. SUFFICES ASSUME i <= cursor
                 PROVE  FALSE
    BY <2>2, <1>6
  <2>4. i \in skipped
    BY <2>1, <2>3
  <2>5. since # 0 /\ told[o].era = era /\ ~told[o].doubtful
    BY <2>4, <1>9
  <2>6. i > since
    BY <2>1, <2>5 DEF BrokerInv, NothingSkipped
  <2>7. \E e \in Answer(o, since, last) : e.id = i
    BY <2>1, <2>3, <2>5, <2>6, <1>3, <1>4, NothingBetween DEF BrokerInv
  <2> QED
    BY <2>1, <2>7
<1> HIDE DEF t
<1> QED
  BY <1>2, <1>3, <1>7, <1>8, <1>9, ReaderStep

LEMMA RestartStep ==
  ASSUME BrokerInv, BrokerRestart
  PROVE  BrokerInv'
<1>1. era \in Nat /\ era' = era + 1 /\ era' \in 0 .. MaxBrokerRestarts /\ nextEventID' = 0
      /\ recent' = <<>> /\ log' = <<>>
  <2>1. era \in 0 .. MaxBrokerRestarts
    BY DEF BrokerInv, BrokerTypeOK
  <2>2. era < MaxBrokerRestarts /\ era' = era + 1 /\ nextEventID' = 0
        /\ recent' = <<>> /\ log' = <<>>
    BY DEF BrokerRestart
  <2> QED
    BY <2>1, <2>2, BrokerAssumption
<1>2. \A o \in Owner : told[o] \in Reader
  BY DEF BrokerInv, BrokerTypeOK
<1>3. told' \in [Owner -> Reader]
      /\ \A o \in Owner : told'[o].era = told[o].era
  BY <1>2 DEF BrokerRestart, Reader
<1>4. BrokerTypeOK'
  BY <1>1, <1>3, BrokerAssumption DEF BrokerTypeOK
<1>5. WindowInv'
  BY <1>1 DEF WindowInv
<1>6. \A o \in Owner : told'[o].era <= era /\ told'[o].era \in Nat
  BY <1>2, <1>3, BrokerAssumption DEF BrokerInv, ReaderInv, Reader
<1>7. ReaderInv' /\ NothingSkipped'
  BY <1>1, <1>6 DEF ReaderInv, NothingSkipped
<1> QED
  BY <1>4, <1>5, <1>7 DEF BrokerInv

-----------------------------------------------------------------------------
(* The theorems *)

LEMMA InitEstablishes == BrokerInit => BrokerInv
<1> SUFFICES ASSUME BrokerInit
             PROVE  BrokerInv
  OBVIOUS
<1>1. nextEventID = 0 /\ recent = <<>> /\ log = <<>> /\ era = 0
  BY DEF BrokerInit
<1>2. \A o \in Owner : told[o] = [era |-> 0, cursor |-> 0, has |-> {}, doubtful |-> FALSE]
  BY DEF BrokerInit
<1>3. told \in [Owner -> Reader]
  BY BrokerAssumption DEF BrokerInit, Reader
<1>4. BrokerTypeOK
  BY <1>1, <1>3, BrokerAssumption DEF BrokerTypeOK
<1>5. WindowInv
  BY <1>1 DEF WindowInv
<1>6. ReaderInv
  <2> SUFFICES ASSUME NEW o \in Owner
               PROVE  told[o].era <= era
                      /\ (told[o].era = era => told[o].cursor <= nextEventID)
    BY DEF ReaderInv
  <2>1. told[o].era = 0 /\ told[o].cursor = 0
    BY <1>2
  <2> QED
    BY <2>1, <1>1
<1>7. NothingSkipped
  BY <1>1 DEF NothingSkipped, Unknown, Own
<1> QED
  BY <1>4, <1>5, <1>6, <1>7 DEF BrokerInv

LEMMA NextPreserves == BrokerInv /\ [BrokerNext]_brokerVars => BrokerInv'
<1> SUFFICES ASSUME BrokerInv, [BrokerNext]_brokerVars
             PROVE  BrokerInv'
  OBVIOUS
<1>1. ASSUME NEW o \in Owner, Publish(o)
      PROVE  BrokerInv'
  BY <1>1, PublishStep
<1>2. ASSUME NEW o \in Owner, Ask(o)
      PROVE  BrokerInv'
  BY <1>2, ResyncStep, DeliverStep DEF Ask
<1>3. ASSUME NEW o \in Owner, Join(o)
      PROVE  BrokerInv'
  BY <1>3, JoinStep
<1>4. CASE BrokerRestart
  BY <1>4, RestartStep
<1>5. CASE UNCHANGED brokerVars
  BY <1>5 DEF brokerVars, BrokerInv, BrokerTypeOK, WindowInv, Oldest, ReaderInv,
              NothingSkipped, Unknown, Own
<1> QED
  BY <1>1, <1>2, <1>3, <1>4, <1>5 DEF BrokerNext

LEMMA BrokerInvAlways == BrokerSpec => []BrokerInv
  BY InitEstablishes, NextPreserves, PTL DEF BrokerSpec

LEMMA LossIsSeen == BrokerInv => LossIsTold
<1> SUFFICES ASSUME BrokerInv, NEW o \in Owner, told[o].era = era,
                    told[o].cursor > 0, ~told[o].doubtful,
                    NEW i \in Unknown(o), i \notin {e.id : e \in InWindow}
             PROVE  MustResync(o, told[o].cursor)
  BY DEF LossIsTold
<1>1. told[o].cursor \in Nat /\ i \in Own(o) /\ i \in Nat
  BY OwnType, BrokerAssumption DEF Reader, EventID, Unknown
<1>2. i > told[o].cursor
  BY DEF BrokerInv, NothingSkipped
<1>3. ~(i >= Oldest)
  BY <1>1, WindowHolds DEF BrokerInv
<1>4. ~(told[o].cursor >= Oldest)
  BY <1>1, <1>2, <1>3, OldestIsInt DEF BrokerInv
<1> QED
  BY <1>1, <1>4, CursorInWindow DEF BrokerInv

\* The types, and the bound of the window.
THEOREM BrokerTypeCorrect == BrokerSpec => []BrokerTypeOK
  BY BrokerInvAlways, PTL DEF BrokerInv

\* A reader that follows its cursor knows of everything up to it (poll and its
\* handler).
THEOREM NothingSkippedAlways == BrokerSpec => []NothingSkipped
  BY BrokerInvAlways, PTL DEF BrokerInv

\* A reader whose events fell out of the window is told to resynchronise (poll).
THEOREM LossIsToldAlways == BrokerSpec => []LossIsTold
  BY BrokerInvAlways, LossIsSeen, PTL

=============================================================================
