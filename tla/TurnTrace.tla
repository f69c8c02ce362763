------------------------------- MODULE TurnTrace -------------------------------
(***************************************************************************)
(* What the turns of one chat session record while codex works, and how a  *)
(* page gets to see it.  The goroutine of a turn applies codex's items to  *)
(* the turn under the session lock, then reads a payload under the lock    *)
(* again and appends it to the owner's updates after the lock is released; *)
(* a page polls those updates with the ids of the events it already has,   *)
(* opens the detail of an event, and reads older turns page by page.       *)
(*                                                                         *)
(* A turn has a goroutine, its run, for its input and one for every retry  *)
(* of a repository that could not be prepared.                             *)
(***************************************************************************)
EXTENDS Integers, Sequences, FiniteSets, SequencesExt

CONSTANTS
  ItemId,     \* codex's ids of its commands, NoItem among them
  NoItem,     \* the empty id
  Said,       \* the kinds of text codex completes: message, reasoning, plan
  Shown,      \* the categories the page asks for (visible_event_kinds)
  PageTurns,  \* turn_limit
  PageBytes,  \* maxChatRuntimeTurnDetailBytes
  MaxTurns,   \* bound: inputs
  MaxRuns,    \* bound: runs of a turn
  MaxEvents,  \* bound: runtime events of the session
  MaxUpdates  \* bound: updates published before codex reports another item

ASSUME TraceAssumption ==
  /\ NoItem \in ItemId /\ Said \subseteq {"message", "reasoning", "plan"}
  /\ PageTurns \in Nat \ {0} /\ PageBytes \in Nat
  /\ {MaxTurns, MaxEvents, MaxUpdates} \subseteq Nat /\ MaxRuns \in Nat \ {0}

VARIABLES
  turns,   \* the turns, oldest first
  newest,  \* nextEventID
  driver,  \* per run: where its goroutine is
  active,  \* activeTurnID, 0 for none
  busy,    \* turnRunning
  status,  \* the session's status
  repo,    \* the status of the session's repository, "none" without one
  halted,  \* the root context is cancelled
  swept,   \* shutdown has visited the session
  notice,  \* per run: the update its goroutine is publishing
  feed,    \* the owner's updates
  page,    \* the page: its cursor and what it shows of each event
  reader   \* a reader of the older turns

traceVars == <<turns, newest, driver, active, busy, status, repo, halted, swept,
               notice, feed, page, reader>>

Turns     == 1 .. MaxTurns
Run       == Turns \X (1 .. MaxRuns)
EventIds  == 1 .. MaxEvents
EventType == {"command", "message", "reasoning", "plan", "failure", "interruption"}
EndStates     == {"completed", "failed", "interrupted"}

Event == [id : EventIds, type : EventType, item : ItemId, st : EndStates \cup {"running"}]
Turn  == [st : EndStates \cup {"running"}, events : Seq(Event), final : Nat]

\* chatRuntimeRuntimeEventKind and chatRuntimeAPIEventKind, one after the other.
ApiKind == [command |-> "commands", message |-> "important_text",
            reasoning |-> "reasoning", plan |-> "plan",
            failure |-> "system", interruption |-> "system"]

\* runtimeTraceEventCategory knows the provider's kinds and three of the API's.
Category(kind) == IF kind \in {"important_text", "plan", "reasoning"} THEN kind ELSE "system"

View(e)  == [id |-> e.id, kind |-> ApiKind[e.type], st |-> e.st]
NoView   == [id |-> 0, kind |-> "none", st |-> "none"]

Quiet    == [pc |-> "idle", type |-> "none", id |-> 0, view |-> NoView]
Due(type, id) == [Quiet EXCEPT !.pc = "due", !.type = type, !.id = id]

NotRead  == [before |-> 0, more |-> TRUE, seen |-> <<>>]

TraceInit == /\ turns = <<>> /\ newest = 0
             /\ driver = [r \in Run |-> "none"]
             /\ active = 0 /\ busy = FALSE /\ status = "ready" /\ repo = "none"
             /\ halted = FALSE /\ swept = FALSE
             /\ notice = [r \in Run |-> Quiet]
             /\ feed = <<>>
             /\ page = [cursor |-> 0, shows |-> <<>>]
             /\ reader = NotRead

-----------------------------------------------------------------------------
(* The events of a turn. *)

Live(e) == e.st = "running"

\* runtimeEventByID: by its id, or else the event whose place in the turn is the
\* number in the id, whichever comes first.
PlaceOf(t, id) == CHOOSE p \in DOMAIN t.events :
                  /\ t.events[p].id = id \/ p = id
                  /\ \A q \in 1 .. p - 1 : t.events[q].id # id /\ q # id
Found(t, id)    == \E p \in DOMAIN t.events : t.events[p].id = id \/ p = id
Looked(t, id)   == t.events[PlaceOf(t, id)]

FreshOfTurn(t) == Len(t.events) + 1   \* mutant: the events of each turn are counted on their own
Fresh(t) == newest + 1

With(t, type, item, st) ==
  [t EXCEPT !.events = Append(@, [id |-> Fresh(t), type |-> type, item |-> item, st |-> st])]

CommandOf(t, item) == {p \in DOMAIN t.events :
                         /\ t.events[p].type = "command"
                         /\ t.events[p].item = item /\ item # NoItem}

Answers(t) == {p \in DOMAIN t.events : t.events[p].type = "message"}

\* promoteFinalOutput: the last message leaves the events and becomes the answer.
Promoted(t) ==
  IF Answers(t) = {} THEN t
  ELSE LET p == CHOOSE p \in Answers(t) : \A q \in Answers(t) : q <= p
       IN  [t EXCEPT !.final = t.events[p].id, !.events = RemoveAt(@, p)]

Closed(t) == [t EXCEPT !.events = [p \in DOMAIN @ |-> IF Live(@[p]) THEN [@[p] EXCEPT !.st = "interrupted"]
                                                              ELSE @[p]]]

Recorded(t, type) == \E p \in DOMAIN t.events : t.events[p].type = type

\* markInterruptedLocked, and the same in finishSupersededTurnLocked.
Interrupted(t) ==
  LET quiet == Closed([t EXCEPT !.st = "interrupted"])
  IN  Promoted(IF Recorded(t, "interruption") THEN quiet
               ELSE With(quiet, "interruption", NoItem, "failed"))

FailedTurn(t) == Promoted(With([t EXCEPT !.st = "failed"], "failure", NoItem, "failed"))

\* A superseded run does not record a failure with the same words again.
FailedAgain(t) == Promoted([t EXCEPT !.st = "failed"])

\* The session has no rollout any more: the answer is where the history went.
WithoutRollout(t) == [With(Promoted([t EXCEPT !.st = "failed"]), "failure", NoItem, "failed")
                        EXCEPT !.final = Fresh(t)]

Completed(t) == Promoted([t EXCEPT !.st = "completed"])

Becomes(i, t) == /\ turns' = [turns EXCEPT ![i] = t]
                 /\ newest' = IF \E p \in DOMAIN t.events : t.events[p].id > newest
                              THEN newest + 1 ELSE newest

Room == newest < MaxEvents

-----------------------------------------------------------------------------
(* A turn: its input, codex's items, its end. *)

Announced(r) == /\ driver' = [driver EXCEPT ![r] = "announce"]
                /\ notice' = [notice EXCEPT ![r] = Due("started", 0)]

\* The first input may bind a repository to the session.
StartTurn == /\ ~busy /\ status # "busy" /\ Len(turns) < MaxTurns
             /\ LET i == Len(turns) + 1
                IN  /\ turns' = Append(turns, [st |-> "running", events |-> <<>>, final |-> 0])
                    /\ active' = i
                    /\ Announced(<<i, 1>>)
             /\ busy' = TRUE /\ status' = "busy"
             /\ repo' \in {repo} \cup (IF turns = <<>> THEN {"preparing"} ELSE {})
             /\ UNCHANGED <<newest, halted, swept, feed, page, reader>>

\* RetryRepository: the last turn that did not complete runs again.
Retried(i) == /\ turns[i].st \in {"failed", "interrupted"}
              /\ \A j \in i + 1 .. Len(turns) : turns[j].st \notin {"failed", "interrupted"}

RetryRepository(i) ==
  /\ ~busy /\ status # "busy" /\ repo = "failed"
  /\ i \in DOMAIN turns /\ Retried(i)
  /\ \E a \in 2 .. MaxRuns :
       /\ driver[<<i, a>>] = "none" /\ driver[<<i, a - 1>>] # "none"
       /\ Announced(<<i, a>>)
  /\ turns' = [turns EXCEPT ![i] = [@ EXCEPT !.st = "running", !.final = 0]]
  /\ active' = i /\ busy' = TRUE /\ status' = "busy" /\ repo' = "preparing"
  /\ UNCHANGED <<newest, halted, swept, feed, page, reader>>

\* prepareRepositoryForTurn, which a run begins with: a binding that is not ready is
\* prepared, and its status set when that is over.
Begun == IF repo \in {"none", "ready"} THEN "on" ELSE "clone"
EndPreparation(r) ==
  /\ driver[r] = "clone"
  /\ \/ repo' = "ready" /\ driver' = [driver EXCEPT ![r] = "on"]
     \/ repo' = "failed" /\ driver' = [driver EXCEPT ![r] = "unprepared"]
  /\ UNCHANGED <<turns, newest, active, busy, status, halted, swept, notice, feed, page, reader>>

WorkingAtOnce(r) == driver[r] \in {"announce", "on"}   \* mutant: codex does not wait for the announcement
Working(r) == driver[r] = "on" /\ notice[r].pc = "idle"
Reporting(r) == Working(r) /\ Room /\ Len(feed) < MaxUpdates

Publishes(r, type, id) == notice' = [notice EXCEPT ![r] = Due(type, id)]

\* item.started of a command.
CommandStarted(r) ==
  /\ Reporting(r)
  /\ \E item \in ItemId :
       LET i == r[1]
           t == turns[i]
           known == CommandOf(t, item)
       IN  IF known = {}
           THEN /\ Becomes(i, With(t, "command", item, "running"))
                /\ Publishes(r, "appended", Fresh(t))
           ELSE LET p == CHOOSE p \in known : \A q \in known : p <= q
                IN  /\ Becomes(i, [t EXCEPT !.events[p].st = "running"])
                    /\ Publishes(r, "updated", t.events[p].id)
  /\ UNCHANGED <<driver, active, busy, status, repo, halted, swept, feed, page, reader>>

\* item.completed of a command: its status is codex's, corrected by the exit code.
CommandCompleted(r) ==
  /\ Reporting(r)
  /\ \E item \in ItemId, st \in {"completed", "failed", "running"} :
       LET i == r[1]
           t == turns[i]
           known == CommandOf(t, item)
       IN  IF known = {}
           THEN /\ Becomes(i, With(t, "command", item, st))
                /\ Publishes(r, "appended", Fresh(t))
           ELSE LET p == CHOOSE p \in known : \A q \in known : p <= q
                IN  /\ Becomes(i, [t EXCEPT !.events[p].st = st])
                    /\ Publishes(r, "updated", t.events[p].id)
  /\ UNCHANGED <<driver, active, busy, status, repo, halted, swept, feed, page, reader>>

\* item.completed of a message, a plan or a reasoning: a message of the final
\* channel is kept and not published.
TextCompleted(r) ==
  /\ Reporting(r)
  /\ \E type \in Said, final \in BOOLEAN :
       /\ final => type = "message"
       /\ Becomes(r[1], With(turns[r[1]], type, NoItem, "completed"))
       /\ IF final THEN UNCHANGED notice ELSE Publishes(r, "appended", Fresh(turns[r[1]]))
  /\ UNCHANGED <<driver, active, busy, status, repo, halted, swept, feed, page, reader>>

Superseded(i) == active # i /\ busy /\ active # 0

Freed(i) == IF active = i THEN busy' = FALSE /\ active' = 0 ELSE UNCHANGED <<busy, active>>

\* What finishTurn makes of the turn.
Finished(i, how) ==
  CASE how = "ok"          -> {Completed(turns[i])}
    [] how = "interrupted" -> {Interrupted(turns[i])}
    [] how = "failed" \/ (how = "norollout" /\ Superseded(i)) ->
         {FailedTurn(turns[i])}
           \cup (IF Superseded(i) /\ Recorded(turns[i], "failure") THEN {FailedAgain(turns[i])} ELSE {})
    [] how = "norollout"   -> {WithoutRollout(turns[i])}

\* finishTurn: how the turn ends is the run's error, and the root context.
FinishTurn(r) ==
  /\ Working(r) \/ driver[r] = "unprepared"
  /\ Room
  /\ \E how \in {"ok", "failed", "interrupted", "norollout"} : \E t \in Finished(r[1], how) :
       /\ driver[r] = "unprepared" => how \in {"failed", "interrupted"}
       /\ how = "interrupted" => halted
       /\ how \in {"failed", "norollout"} => ~halted
       /\ Becomes(r[1], t)
       /\ Publishes(r, t.st, 0)
       /\ status' = IF Superseded(r[1]) THEN status
                    ELSE CASE how = "ok" -> "ready"
                           [] how = "interrupted" -> "interrupted"
                           [] OTHER -> "failed"
  /\ Freed(r[1])
  /\ driver' = [driver EXCEPT ![r] = "over"]
  /\ UNCHANGED <<repo, halted, swept, feed, page, reader>>

Cancel == /\ ~halted /\ halted' = TRUE
          /\ UNCHANGED <<turns, newest, driver, active, busy, status, repo, swept, notice,
                         feed, page, reader>>

\* shutdown: a busy session is interrupted while its runner is still at work.
SweepTurn == /\ halted /\ ~swept /\ swept' = TRUE
             /\ busy' = FALSE
             /\ IF status = "busy" /\ active # 0
                THEN /\ Room /\ Becomes(active, Interrupted(turns[active]))
                     /\ status' = "interrupted"
                ELSE UNCHANGED <<turns, newest, status>>
             /\ UNCHANGED <<driver, active, repo, halted, notice, feed, page, reader>>

-----------------------------------------------------------------------------
(* Publishing, polling and reading. *)

\* The payload is read from the turn as it is now; an event that cannot be found
\* is not published.
ReadPayload(r) ==
  /\ notice[r].pc = "due"
  /\ LET n == notice[r]
         t == turns[r[1]]
     IN  notice' = [notice EXCEPT ![r] =
           IF n.id = 0 THEN [n EXCEPT !.pc = "held"]
           ELSE IF Found(t, n.id)
                THEN [n EXCEPT !.pc = "held", !.view = View(Looked(t, n.id))]
                ELSE Quiet]
  /\ UNCHANGED <<turns, newest, driver, active, busy, status, repo, halted, swept, feed,
                 page, reader>>

AppendUpdate(r) ==
  /\ notice[r].pc = "held"
  /\ feed' = Append(feed, [turn |-> r[1], run |-> r[2], type |-> notice[r].type,
                           view |-> notice[r].view])
  /\ notice' = [notice EXCEPT ![r] = Quiet]
  /\ driver' = [driver EXCEPT ![r] = IF @ = "announce" THEN Begun ELSE @]
  /\ UNCHANGED <<turns, newest, active, busy, status, repo, halted, swept, page, reader>>

KnownOnPage(i, id) == <<i, id>> \in DOMAIN page.shows

\* pruneSessionUpdateEvents: an update of an event the page does not show, or
\* already has the id of, is left out whole.
Visible(u) == Category(u.view.kind) \in Shown
Delivered(u) == u.view # NoView => Visible(u) /\ ~KnownOnPage(u.turn, u.view.id)

Merged(shows, u) == IF u.view = NoView THEN shows
                    ELSE [k \in DOMAIN shows \cup {<<u.turn, u.view.id>>} |->
                            IF k = <<u.turn, u.view.id>> THEN u.view ELSE shows[k]]

\* One poll answers with everything after the page's cursor, pruned by what the
\* page had when it asked.
Poll == /\ page.cursor < Len(feed)
        /\ LET answer == SelectSeq(SubSeq(feed, page.cursor + 1, Len(feed)), Delivered)
           IN  page' = [cursor |-> Len(feed), shows |-> FoldLeft(Merged, page.shows, answer)]
        /\ UNCHANGED <<turns, newest, driver, active, busy, status, repo, halted, swept,
                       notice, feed, reader>>

\* The page opens an event it shows.
OpenDetail ==
  /\ \E k \in DOMAIN page.shows :
       /\ Found(turns[k[1]], k[2])
       /\ page' = [page EXCEPT !.shows[k] = [View(Looked(turns[k[1]], k[2])) EXCEPT !.id = k[2]]]
  /\ UNCHANGED <<turns, newest, driver, active, busy, status, repo, halted, swept, notice,
                 feed, reader>>

\* pageChatRuntimeTurns: the turns before a given one, newest first, as many as the
\* limits allow and at least one.
DetailSize(t) == 1 + Len(t.events)

\* The first turn of a page that ends with a given one: the last alone, or as many
\* as fit.
Begins(first, end) ==
  LET size[s \in 1 .. end + 1] == IF s > end THEN 0 ELSE DetailSize(turns[s]) + size[s + 1]
      fits == {s \in first .. end : s = end \/ size[s] <= PageBytes}
  IN  CHOOSE s \in fits : \A u \in fits : s <= u

EndBefore(before)   == IF before = 0 THEN Len(turns) ELSE before - 1

PageBefore(before) ==
  LET end   == EndBefore(before)
      first == IF end > PageTurns THEN end - PageTurns + 1 ELSE 1
  IN  [start |-> Begins(first, end), end |-> end]

ReadPage ==
  /\ reader.more /\ turns # <<>>
  /\ LET p == PageBefore(reader.before)
     IN  reader' = [before |-> p.start, more |-> p.start > 1,
                    seen |-> [n \in 1 .. p.end - p.start + 1 |-> p.start + n - 1] \o reader.seen]
  /\ UNCHANGED <<turns, newest, driver, active, busy, status, repo, halted, swept, notice,
                 feed, page>>

TraceNext == \/ StartTurn \/ Cancel \/ SweepTurn \/ Poll \/ OpenDetail \/ ReadPage
             \/ \E i \in Turns : RetryRepository(i)
             \/ \E r \in Run : \/ EndPreparation(r) \/ FinishTurn(r) \/ ReadPayload(r) \/ AppendUpdate(r)
                               \/ CommandStarted(r) \/ CommandCompleted(r) \/ TextCompleted(r)

TraceSpec == TraceInit /\ [][TraceNext]_traceVars

-----------------------------------------------------------------------------
(* Properties. *)

\* Every variable has its type.
TraceTypeOK ==
  /\ Len(turns) <= MaxTurns /\ \A i \in DOMAIN turns : turns[i] \in [st : EndStates \cup {"running"},
         events : Seq(Event), final : 0 .. MaxEvents + 1]
  /\ newest \in 0 .. MaxEvents /\ active \in 0 .. Len(turns)
  /\ driver \in [Run -> {"none", "announce", "clone", "unprepared", "on", "over"}]
  /\ \A i \in DOMAIN turns : driver[<<i, 1>>] # "none"
  /\ busy => status = "busy" /\ active # 0
  /\ page.cursor <= Len(feed)

\* The detail of an event is that event's: the number in an id, which is also taken
\* for a place in the turn, never leads to another event first.
DetailIsTheOneAsked ==
  \A i \in DOMAIN turns : \A p \in DOMAIN turns[i].events :
    PlaceOf(turns[i], turns[i].events[p].id) = p

\* A command codex gave an id to is one event, however often codex reports it.
OneEventPerCommand ==
  \A i \in DOMAIN turns : \A item \in ItemId \ {NoItem} :
    Cardinality({p \in DOMAIN turns[i].events :
                   turns[i].events[p].type = "command" /\ turns[i].events[p].item = item}) <= 1

\* A turn that was interrupted and whose runs are over shows nothing as running,
\* whatever codex still reported after the shutdown marked the turn.
InterruptedTurnsAreQuiet ==
  \A i \in DOMAIN turns :
    turns[i].st = "interrupted" /\ (\A a \in 1 .. MaxRuns : driver[<<i, a>>] \in {"none", "over"}) =>
      \A p \in DOMAIN turns[i].events : ~Live(turns[i].events[p])

\* Until the shutdown visits the session, one run at a time is at work in it, for
\* inputs and retries alike.
OneAtATime == ~swept => \A q, r \in Run :
                driver[q] \notin {"none", "over"} /\ driver[r] \notin {"none", "over"} => q = r

\* The updates tell the story of each run in order, although the goroutines of
\* several runs publish outside the lock: it starts before anything happens in it,
\* and nothing happens in it after it ended.  A run begins when those before it have
\* finished their turns, though the update that tells so may still be on its way.
StoryInOrder ==
  /\ OneAtATime
  /\ \A n \in DOMAIN feed :
       LET before == {m \in 1 .. n - 1 : feed[m].turn = feed[n].turn /\ feed[m].run = feed[n].run}
       IN  /\ feed[n].type = "started" <=> before = {}
           /\ \A m \in before : feed[m].type \notin EndStates

\* A reader that follows turn_before gets every turn up to the newest of its first
\* page, each once and in order, while turns are added and grow.
PagesAreWhole ==
  reader.seen # <<>> =>
    LET oldest == reader.seen[1]
        newer  == reader.seen[Len(reader.seen)]
    IN  /\ reader.seen = [n \in 1 .. newer - oldest + 1 |-> oldest + n - 1]
        /\ reader.more <=> oldest > 1

\* technical-solution.md: an update of an event carries that event, and only the
\* kinds the page hides are left out.  So a page that has read every update shows
\* each event of the kinds it asked for as it was last published, or as it is now.
NowOrAt(u) == {u.view.st} \cup {e.st : e \in {e \in ToSet(turns[u.turn].events) : e.id = u.view.id}}

UpdatesReachThePage ==
  page.cursor = Len(feed) /\ ~halted =>
    \A n \in DOMAIN feed :
      LET u == feed[n]
      IN  /\ u.view # NoView /\ Visible(u)
          /\ \A m \in n + 1 .. Len(feed) : feed[m].turn # u.turn \/ feed[m].view.id # u.view.id
          => KnownOnPage(u.turn, u.view.id) /\ page.shows[<<u.turn, u.view.id>>].st \in NowOrAt(u)

\* The trace of a turn is true to what codex did and the page asks for.
TraceIsTrue ==
  DetailIsTheOneAsked /\ OneEventPerCommand /\ InterruptedTurnsAreQuiet /\ PagesAreWhole

=============================================================================
