---------------------------- MODULE UpdateBroker ----------------------------
(***************************************************************************)
(* The update feed of internal/interfaces/web/server_session_events.go: a  *)
(* window of the last events of all owners, which browsers poll with the   *)
(* cursor of the last answer.                                              *)
(*                                                                         *)
(* A poll only reads the broker, under its mutex: several browsers of one  *)
(* owner do not see each other, so there is one reader per owner.  What a  *)
(* reader was told is part of the state because its next request depends   *)
(* on it; an answer that is lost changes nothing.  The limit and the byte  *)
(* budget of a request cut its answer anywhere after the first event.      *)
(*                                                                         *)
(* The handler takes process events out of an answer that the request      *)
(* lists as known or hides; the cursor passes them, so they count as told. *)
(***************************************************************************)
EXTENDS Naturals, Sequences

CONSTANTS
  Owner,
  Window,      \* windowSize
  MaxEvents,   \* bound: events published by one process
  MaxBrokerRestarts  \* bound: restarts of the process

ASSUME BrokerAssumption ==
  Window \in Nat \ {0} /\ MaxEvents \in Nat /\ MaxBrokerRestarts \in Nat

VARIABLES
  nextEventID,
  recent,  \* the window
  log,     \* the owners of all events this process published, by event id
  era,     \* the process: how many restarts there were
  told     \* what the reader of an owner was told

brokerVars == <<nextEventID, recent, log, era, told>>

EventID == 1 .. MaxEvents
Event   == [id : EventID, owner : Owner]

\* era, cursor: of the last answer; has: the events it was told of or fetched;
\* doubtful: an answer left something out when the cursor was 0 or of an earlier
\* process.
Reader == [era : 0 .. MaxBrokerRestarts, cursor : 0 .. MaxEvents,
           has : SUBSET EventID, doubtful : BOOLEAN]

BrokerTypeOK ==
  /\ nextEventID \in 0 .. MaxEvents
  /\ recent \in Seq(Event) /\ Len(recent) <= Window
  /\ log \in Seq(Owner)
  /\ era \in 0 .. MaxBrokerRestarts
  /\ told \in [Owner -> Reader]

BrokerInit ==
  /\ nextEventID = 0 /\ recent = <<>> /\ log = <<>> /\ era = 0
  /\ told = [o \in Owner |-> [era |-> 0, cursor |-> 0, has |-> {}, doubtful |-> FALSE]]

InWindow == {recent[i] : i \in 1 .. Len(recent)}
Own(o)   == {i \in 1 .. Len(log) : log[i] = o}

\* Own events the reader does not know of
Unknown(o) == Own(o) \ told[o].has

-----------------------------------------------------------------------------
(* publishWithTurnID *)

Keep(q) == IF Len(q) > Window THEN SubSeq(q, Len(q) - Window + 1, Len(q)) ELSE q

Publish(o) ==
  /\ nextEventID < MaxEvents
  /\ nextEventID' = nextEventID + 1
  /\ recent' = Keep(Append(recent, [id |-> nextEventID + 1, owner |-> o]))
  /\ log' = Append(log, o)
  /\ UNCHANGED <<era, told>>

-----------------------------------------------------------------------------
(* poll *)

\* since is older than everything in S, if there is something in S.
Before(since, S) == S # {} /\ \A e \in S : since < e.id

AheadOnly(o, since) ==   \* mutant: only a cursor from the future is refused
  since > 0 /\ since > nextEventID

MustResync(o, since) ==
  /\ since > 0
  /\ \/ since > nextEventID
     \/ Before(since, InWindow)
     \/ Before(since, {e \in InWindow : e.owner = o})

Later(o, since) == {e \in InWindow : e.owner = o /\ e.id > since}

\* The answer is cut after the event last: anywhere, but not before the first.
Lasts(o, since) ==
  IF Later(o, since) = {} THEN {since} ELSE {e.id : e \in Later(o, since)}
Answer(o, since, last) == {e \in Later(o, since) : e.id <= last}

CursorOfAll(o, since, last) == nextEventID   \* mutant: has_more is ignored
CursorAfter(o, since, last) ==
  IF Answer(o, since, last) = Later(o, since) THEN nextEventID ELSE last

-----------------------------------------------------------------------------
(* The handler, and the reader that follows its answer *)

\* On resync the reader fetches the sessions as they are.
NoSnapshot(o) == told[o].cursor   \* mutant: the cursor stays where it is
ResyncCursor(o) == nextEventID

Resync(o) ==
  /\ MustResync(o, told[o].cursor)
  /\ told' = [told EXCEPT ![o] = [era |-> era, cursor |-> ResyncCursor(o),
                                  has |-> Own(o), doubtful |-> FALSE]]
  /\ UNCHANGED <<nextEventID, recent, log, era>>

Deliver(o) ==
  LET since == told[o].cursor IN
  /\ ~MustResync(o, since)
  /\ \E last \in Lasts(o, since) :
       LET ids     == {e.id : e \in Answer(o, since, last)}
           cursor  == CursorAfter(o, since, last)
           skipped == {i \in Unknown(o) : i <= cursor} \ ids
       IN told' = [told EXCEPT ![o] =
            [era |-> era, cursor |-> cursor, has |-> @.has \cup ids,
             doubtful |-> \/ @.doubtful
                          \/ (since = 0 \/ @.era # era) /\ skipped # {}]]
  /\ UNCHANGED <<nextEventID, recent, log, era>>

Ask(o) == Resync(o) \/ Deliver(o)

\* A page is opened: it loads the sessions and starts with cursor 0.
Join(o) ==
  /\ told' = [told EXCEPT ![o] = [era |-> era, cursor |-> 0, has |-> Own(o),
                                  doubtful |-> FALSE]]
  /\ UNCHANGED <<nextEventID, recent, log, era>>

\* The feed lives in memory; the readers' cursors do not.
BrokerRestart ==
  /\ era < MaxBrokerRestarts
  /\ era' = era + 1
  /\ nextEventID' = 0 /\ recent' = <<>> /\ log' = <<>>
  /\ told' = [o \in Owner |-> [told[o] EXCEPT !.has = {}]]

BrokerNext == \/ \E o \in Owner : Publish(o) \/ Ask(o) \/ Join(o)
              \/ BrokerRestart

BrokerSpec == BrokerInit /\ [][BrokerNext]_brokerVars

\* A page that shows a running session keeps polling.
BrokerFairSpec == BrokerSpec /\ \A o \in Owner : WF_brokerVars(Ask(o))

-----------------------------------------------------------------------------
(* Properties *)

\* When an event fell out of the window before its reader was told of it, the
\* reader's next answer says so, if its cursor is of this process and not 0.
LossIsTold ==
  \A o \in Owner :
    told[o].era = era /\ told[o].cursor > 0 /\ ~told[o].doubtful =>
      \/ Unknown(o) \subseteq {e.id : e \in InWindow}
      \/ MustResync(o, told[o].cursor)

\* A reader that follows its cursor, through cuts, other owners' events and an
\* overflowing window, knows of everything of its owner up to the cursor.
NothingSkipped ==
  \A o \in Owner :
    told[o].era = era /\ ~told[o].doubtful =>
      \A i \in Unknown(o) : i > told[o].cursor

\* Every reader that stops opening its page anew gets to the end of the feed:
\* neither cuts, nor other owners' events, nor a restart keep it behind.
CatchesUp ==
  \A o \in Owner : \/ []<>(told[o].era = era /\ told[o].cursor = nextEventID)
                   \/ []<><<Join(o)>>_brokerVars

-----------------------------------------------------------------------------
(* What the documents say, and a run refutes *)

\* "When after_update_id is before the window the server keeps, or when after a
\* restart continuity cannot be proved, updates returns resync_required"
\* (technical-solution.md): what an answer will not bring any more is told.
GapIsTold ==
  \A o \in Owner :
    \/ Unknown(o) \subseteq {e.id : e \in Later(o, told[o].cursor)}
    \/ MustResync(o, told[o].cursor)

=============================================================================
