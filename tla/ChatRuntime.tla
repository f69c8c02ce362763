----------------------------- MODULE ChatRuntime -----------------------------
(***************************************************************************)
(* One chat session of internal/chatruntime/application: the session map   *)
(* of the Service, the session object, its state file, and the goroutines  *)
(* that work on them.                                                      *)
(*                                                                         *)
(* Sessions with different ids share nothing but the map's lock, so the    *)
(* module follows one id.  The object behind the id is not unique: Delete  *)
(* unmaps it, and Recover, List, Get and Restart put another one in its    *)
(* place while goroutines still hold the old one, so heap keeps them all.  *)
(*                                                                         *)
(* A request goroutine that gets its turn accepted goes on, in the model,  *)
(* as the goroutine runTurn that drives the turn.  A step is one critical  *)
(* section of item.mu or s.mu, or one system call on the state file.       *)
(***************************************************************************)
EXTENDS Integers, Sequences, FiniteSets

CONSTANTS
  Requests,     \* goroutines serving requests of the web layer
  Reaper,       \* the goroutine that calls shutdown when rootCtx ends
  None,         \* the nil cancel function
  Ops,          \* what reaches the server: requests, the signal to stop, and
                \* failing system calls
  MaxObj,       \* bound: session objects allocated between two restarts
  MaxPrompts,   \* bound: requests that may start a turn
  MaxSteps,     \* bound: runtime events codex reports in one turn
  MaxRestarts   \* bound: crashes of the server

AllOps == {"open", "input", "inputRepo", "retry", "read", "list", "pin",
           "delete", "stop", "fault"}

\* The requests that start a turn.
TurnOps == {"input", "inputRepo", "retry"}

ASSUME BoundsAssumption ==
  MaxObj \in Nat /\ MaxPrompts \in Nat /\ MaxSteps \in Nat /\ MaxRestarts \in Nat
ASSUME ProcessAssumption ==
  Reaper \notin Requests /\ None \notin Requests \cup {Reaper}
ASSUME OpsAssumption == Ops \subseteq AllOps

Proc   == Requests \cup {Reaper}
Obj    == 1 .. MaxObj
Prompt == 1 .. MaxPrompts

VARIABLES
  sess,       \* s.sessions[id]: the object, 0 when there is none
  heap,       \* the session objects
  used,       \* objects allocated since the last restart
  disk,       \* <id>.json
  tmp,        \* <id>.json.tmp, the one name every save writes through
  g,          \* the goroutines
  rootDone,   \* rootCtx is cancelled
  feed,       \* the last turn event published for each prompt
  sent,       \* requests that may start a turn, sent so far
  restarts,   \* restarts so far
  acked,      \* prompts whose sender was told they were accepted
  gone,       \* how the last Delete that answered found the goroutines
  overlapped  \* two file operations on the session were in flight at once

vars == <<sess, heap, used, disk, tmp, g, rootDone, feed, sent, restarts,
          acked, gone, overlapped>>

-----------------------------------------------------------------------------
(* The data *)

Terminal   == {"completed", "failed", "interrupted"}
TurnStatus == Terminal \cup {"running"}
Turn       == [prompt : Prompt, st : TurnStatus, steps : 0 .. MaxSteps]

SessionStatus == {"ready", "busy", "exited", "failed", "interrupted"}
RepoStatus    == {"none", "preparing", "ready", "failed"}

\* persistedSessionRecord
Record == [status : SessionStatus, repo : RepoStatus, pinned : BOOLEAN,
           closed : BOOLEAN, turns : Seq(Turn)]

\* runtimeSession; active is a position in turns, 0 for ""
Session == [status : SessionStatus, repo : RepoStatus, pinned : BOOLEAN,
            closed : BOOLEAN, turns : Seq(Turn), active : Nat,
            running : BOOLEAN, cancel : Proc \cup {None}, deleted : BOOLEAN]

NoRecord == [status |-> "ready", repo |-> "none", pinned |-> FALSE,
             closed |-> FALSE, turns |-> <<>>]

NewSession == [status |-> "ready", repo |-> "none", pinned |-> FALSE,
               closed |-> FALSE, turns |-> <<>>, active |-> 0,
               running |-> FALSE, cancel |-> None, deleted |-> FALSE]

\* A file holds nothing readable, a decodable record, or an undecodable mix.
File    == [st : {"none", "empty", "full", "torn"}, rec : Record]
Missing == [st |-> "none", rec |-> NoRecord]
Empty   == [st |-> "empty", rec |-> NoRecord]
Torn    == [st |-> "torn", rec |-> NoRecord]
Full(r) == [st |-> "full", rec |-> r]

Label == {"idle", "load", "adopt", "reconcile", "check", "accept", "retry",
          "pin", "drop", "unlink", "snapshot", "open", "write", "verify",
          "commit", "announce", "prepare", "exec", "finish", "conclude",
          "sweep", "mark"}

\* Where a goroutine goes on after a save.
Resumption == {"idle", "check", "accept", "retry", "announce", "exec", "finish",
               "conclude"}

Goroutine == [pc : Label, next : Resumption, op : AllOps \cup {"none"},
              obj : 0 .. MaxObj, prompt : 0 .. MaxPrompts, turn : Nat,
              bind : BOOLEAN, cancelled : BOOLEAN, snap : Record,
              fd : {"none", "tmp", "disk", "lost"},
              res : {"none", "ok", "error", "canceled"} \cup Terminal]

Idle == [pc |-> "idle", next |-> "idle", op |-> "none", obj |-> 0,
         prompt |-> 0, turn |-> 0, bind |-> FALSE, cancelled |-> FALSE,
         snap |-> NoRecord, fd |-> "none", res |-> "none"]

TypeOK ==
  /\ sess \in 0 .. MaxObj
  /\ used \in 0 .. MaxObj
  /\ heap \in [Obj -> Session]
  /\ disk \in File /\ tmp \in File
  /\ g \in [Proc -> Goroutine]
  /\ rootDone \in BOOLEAN
  /\ feed \in [Prompt -> {"none", "started"} \cup Terminal]
  /\ sent \in 0 .. MaxPrompts
  /\ restarts \in 0 .. MaxRestarts
  /\ acked \subseteq Prompt
  /\ gone \in {"no", "clean", "racy"}
  /\ overlapped \in BOOLEAN

Init ==
  /\ sess = 0
  /\ heap = [o \in Obj |-> NewSession]
  /\ used = 0
  /\ disk = Missing /\ tmp = Missing
  /\ g = [r \in Proc |-> Idle]
  /\ rootDone = FALSE
  /\ feed = [n \in Prompt |-> "none"]
  /\ sent = 0 /\ restarts = 0
  /\ acked = {}
  /\ gone = "no"
  /\ overlapped = FALSE

-----------------------------------------------------------------------------
(* Operators on sessions *)

IsLive(t) == t.st = "running"

PersistedEnded(s) ==   \* mutant: the turn in flight is left out
  [status |-> s.status, repo |-> s.repo, pinned |-> s.pinned, closed |-> s.closed,
   turns |-> SelectSeq(s.turns, LAMBDA t : ~IsLive(t))]
Persisted(s) == [status |-> s.status, repo |-> s.repo, pinned |-> s.pinned,
                 closed |-> s.closed, turns |-> s.turns]

RestoredAsSaved(rec) ==   \* mutant: a turn that ran goes on running
  [status |-> rec.status, repo |-> rec.repo, pinned |-> rec.pinned,
   closed |-> rec.closed, turns |-> rec.turns, active |-> 0, running |-> FALSE,
   cancel |-> None, deleted |-> FALSE]

\* restorePersistedSession: what ran when the record was written did not end.
Restored(rec) ==
  LET live == rec.status = "busy" \/ \E i \in DOMAIN rec.turns : IsLive(rec.turns[i])
  IN  [status  |-> IF ~live THEN rec.status
                   ELSE IF rec.closed THEN "exited" ELSE "interrupted",
       repo    |-> IF rec.repo = "preparing" THEN "failed" ELSE rec.repo,
       pinned  |-> rec.pinned,
       closed  |-> rec.closed,
       turns   |-> [i \in DOMAIN rec.turns |->
                      [rec.turns[i] EXCEPT !.st = IF @ = "running"
                                                  THEN "interrupted" ELSE @]],
       active  |-> 0,
       running |-> FALSE,
       cancel  |-> None,
       deleted |-> FALSE]

\* The guard of InputWithAttachments and RetryRepository.
BusyIgnored(s) == FALSE   \* mutant: the guard is dropped
Busy(s) == s.running \/ s.status = "busy"

\* The guard of reconcileOrphanedRuntimeSession.
Orphaned(s) ==
  /\ ~s.running /\ s.cancel = None /\ ~s.closed
  /\ s.status = "busy" \/ \E i \in DOMAIN s.turns : IsLive(s.turns[i])

\* orphanedRuntimeTurnLocked
OrphanedTurn(s) ==
  IF s.active # 0 /\ IsLive(s.turns[s.active]) THEN s.active
  ELSE CHOOSE i \in {0} \cup DOMAIN s.turns :
         /\ i # 0 => IsLive(s.turns[i])
         /\ \A j \in DOMAIN s.turns : IsLive(s.turns[j]) => j <= i

SetTurn(s, t, st) == [s EXCEPT !.turns[t].st = st]

\* markInterruptedLocked
InterruptSession(s, t) == [s EXCEPT !.status = "interrupted"]   \* mutant: not the turn
Interrupt(s, t) == [SetTurn(s, t, "interrupted") EXCEPT !.status = "interrupted"]

\* The turn RetryRepository runs again: the last one that failed or was
\* interrupted.
RetryTurns(s) ==
  LET can == {i \in DOMAIN s.turns : s.turns[i].st \in {"failed", "interrupted"}}
  IN  {i \in can : \A j \in can : j <= i}

CanRetryAny(s) == RetryTurns(s) # {}   \* mutant: the repository is not looked at
CanRetry(s) == s.repo = "failed" /\ RetryTurns(s) # {}

-----------------------------------------------------------------------------
(* Control *)

At(r, label) == g[r].pc = label
Mine(r)      == heap[g[r].obj]
Goto(r, label) == g' = [g EXCEPT ![r].pc = label]
Return(r)      == g' = [g EXCEPT ![r] = Idle]

Saving == {"open", "write", "verify", "commit"}

\* The critical section that leaves s in the object, then persistSession(item).
Save(r, s, gr, next) ==
  /\ heap' = [heap EXCEPT ![gr.obj] = s]
  /\ g' = [g EXCEPT ![r] = [gr EXCEPT !.pc = "snapshot", !.next = next]]

\* The goroutine after persistSession returned.
Resumed(r) == IF g[r].next = "idle" THEN Idle
              ELSE [g[r] EXCEPT !.pc = g[r].next, !.next = "idle",
                                !.snap = NoRecord, !.fd = "none"]

Entry(o) == CASE o = "delete" -> "drop"
              [] o = "pin"    -> "pin"
              [] OTHER        -> "reconcile"

\* The goroutine table after the cancel function c was called.
Cancelled(gr, c) == IF c = None THEN gr ELSE [gr EXCEPT ![c].cancelled = TRUE]

\* What a goroutine's open descriptor refers to once a file was renamed or
\* unlinked.
Moved(gr, where) == [r \in Proc |-> [gr[r] EXCEPT !.fd = where[@]]]
Renamed  == [none |-> "none", tmp |-> "disk", disk |-> "lost", lost |-> "lost"]
Unlinked(f) == [none |-> "none", lost |-> "lost",
                tmp  |-> IF f = "tmp"  THEN "lost" ELSE "tmp",
                disk |-> IF f = "disk" THEN "lost" ELSE "disk"]

-----------------------------------------------------------------------------
(* persistSession: snapshot under the read lock, then the file unlocked *)

SnapshotRecord(r) ==
  /\ At(r, "snapshot")
  /\ IF Mine(r).deleted
     THEN g' = [g EXCEPT ![r] = Resumed(r)] /\ UNCHANGED overlapped
     ELSE /\ g' = [g EXCEPT ![r].pc = "open", ![r].snap = Persisted(Mine(r))]
          /\ overlapped' = (overlapped \/ \E q \in Proc \ {r} :
                              g[q].pc \in Saving \cup {"unlink"})
  /\ UNCHANGED <<sess, heap, used, disk, tmp, rootDone, feed, sent, restarts,
                 acked, gone>>

\* os.WriteFile creates or truncates the temporary file ...
OpenTemp(r) ==
  /\ At(r, "open")
  /\ g' = [g EXCEPT ![r].pc = "write", ![r].fd = "tmp"]
  /\ tmp' = Empty
  /\ UNCHANGED <<sess, heap, used, disk, rootDone, feed, sent, restarts,
                 acked, gone, overlapped>>

\* ... and writes from its start.  A file another save filled since it was
\* truncated keeps the end of a longer record behind a shorter one.
Written(f, rec) == IF f.st \in {"none", "empty"} \/ f = Full(rec)
                   THEN {Full(rec)} ELSE {Full(rec), Torn}

WriteTemp(r) ==
  /\ At(r, "write")
  /\ g' = [g EXCEPT ![r].pc = "verify", ![r].fd = "none"]
  /\ CASE g[r].fd = "tmp"  -> tmp' \in Written(tmp, g[r].snap) /\ UNCHANGED disk
       [] g[r].fd = "disk" -> disk' \in Written(disk, g[r].snap) /\ UNCHANGED tmp
       [] OTHER            -> UNCHANGED <<disk, tmp>>
  /\ UNCHANGED <<sess, heap, used, rootDone, feed, sent, restarts, acked,
                 gone, overlapped>>

VerifyNothing(r) ==   \* mutant: the deletion is only looked at before the write
  /\ At(r, "verify")
  /\ Goto(r, "commit")
  /\ UNCHANGED <<sess, heap, used, disk, tmp, rootDone, feed, sent, restarts,
                 acked, gone, overlapped>>

VerifyNotDeleted(r) ==
  /\ At(r, "verify")
  /\ IF Mine(r).deleted
     THEN /\ tmp' = Missing
          /\ g' = [Moved(g, Unlinked("tmp")) EXCEPT ![r] = Resumed(r)]
     ELSE Goto(r, "commit") /\ UNCHANGED tmp
  /\ UNCHANGED <<sess, heap, used, disk, rootDone, feed, sent, restarts,
                 acked, gone, overlapped>>

CommitTemp(r) ==
  /\ At(r, "commit")
  /\ IF tmp.st = "none"
     THEN g' = [g EXCEPT ![r] = Resumed(r)] /\ UNCHANGED <<disk, tmp>>
     ELSE /\ disk' = tmp
          /\ tmp' = Missing
          /\ g' = [Moved(g, Renamed) EXCEPT ![r] = Resumed(r)]
  /\ UNCHANGED <<sess, heap, used, rootDone, feed, sent, restarts, acked,
                 gone, overlapped>>

\* A system call fails: persistSession logs it and returns, so its caller goes
\* on as after a save.  A failed write leaves the file as it was or a part of
\* the record in it; after a failed rename the temporary file is removed.
SaveFails(r) ==
  /\ "fault" \in Ops
  /\ \/ /\ At(r, "open")
        /\ g' = [g EXCEPT ![r] = Resumed(r)]
        /\ UNCHANGED <<disk, tmp>>
     \/ /\ At(r, "write")
        /\ g' = [g EXCEPT ![r] = Resumed(r)]
        /\ tmp'  \in IF g[r].fd = "tmp"  THEN {tmp, Torn}  ELSE {tmp}
        /\ disk' \in IF g[r].fd = "disk" THEN {disk, Torn} ELSE {disk}
     \/ /\ At(r, "commit")
        /\ tmp' = Missing
        /\ g' = [Moved(g, Unlinked("tmp")) EXCEPT ![r] = Resumed(r)]
        /\ UNCHANGED disk
  /\ UNCHANGED <<sess, heap, used, rootDone, feed, sent, restarts, acked,
                 gone, overlapped>>

-----------------------------------------------------------------------------
(* Requests *)

\* Put s into the map under a new object.
Insert(s) ==
  /\ used < MaxObj
  /\ used' = used + 1
  /\ heap' = [heap EXCEPT ![used + 1] = s]
  /\ sess' = used + 1

\* Create and Recover: the map decides, whatever the state file holds.
Open(r) ==
  /\ At(r, "idle") /\ r \in Requests /\ "open" \in Ops
  /\ sess = 0
  /\ Insert(NewSession)
  /\ g' = [g EXCEPT ![r].pc = "snapshot", ![r].op = "open", ![r].obj = used + 1]
  /\ gone' = "no"
  /\ UNCHANGED <<disk, tmp, rootDone, feed, sent, restarts, acked, overlapped>>

\* getOwnedSession.  A request for a session that is neither in the map nor on
\* disk is answered with an error; List reads the files before the map.
Lookup(r) ==
  /\ At(r, "idle") /\ r \in Requests
  /\ \E o \in Ops \ {"open", "stop", "fault"} :
       LET inMap == sess # 0 /\ o # "list"
           input == o \in TurnOps
       IN  /\ inMap \/ disk.st # "none"
           /\ input => sent < MaxPrompts
           /\ sent' = IF input THEN sent + 1 ELSE sent
           /\ g' = [g EXCEPT ![r].op = o,
                             ![r].pc = IF inMap THEN Entry(o) ELSE "load",
                             ![r].obj = IF inMap THEN sess ELSE 0,
                             ![r].prompt = IF input THEN sent + 1 ELSE 0]
  /\ UNCHANGED <<sess, heap, used, disk, tmp, rootDone, feed, restarts, acked,
                 gone, overlapped>>

\* restorePersistedOwnedSession and syncMissingPersistedSessions read the file
\* outside s.mu ...
LoadRecord(r) ==
  /\ At(r, "load")
  /\ IF disk.st = "full"
     THEN g' = [g EXCEPT ![r].pc = "adopt", ![r].snap = disk.rec]
     ELSE Return(r)
  /\ UNCHANGED <<sess, heap, used, disk, tmp, rootDone, feed, sent, restarts,
                 acked, gone, overlapped>>

\* ... and insert what they read unless the id is in the map by then.
AdoptAnyway(r) ==   \* mutant: the map is not looked at again
  /\ At(r, "adopt")
  /\ Insert(Restored(g[r].snap))
  /\ g' = [g EXCEPT ![r].pc = Entry(g[r].op), ![r].obj = sess', ![r].snap = NoRecord]
  /\ UNCHANGED <<disk, tmp, rootDone, feed, sent, restarts, acked, gone,
                 overlapped>>

Adopt(r) ==
  /\ At(r, "adopt")
  /\ IF sess = 0 THEN Insert(Restored(g[r].snap)) ELSE UNCHANGED <<sess, heap, used>>
  /\ g' = [g EXCEPT ![r].pc = Entry(g[r].op), ![r].obj = sess', ![r].snap = NoRecord]
  /\ UNCHANGED <<disk, tmp, rootDone, feed, sent, restarts, acked, gone,
                 overlapped>>

\* reconcileOrphanedRuntimeSession, called by every read and before a turn.
AfterReconcile(o) == CASE o = "input"     -> "accept"
                       [] o = "inputRepo" -> "check"
                       [] o = "retry"     -> "retry"
                       [] OTHER           -> "idle"

Reconcile(r) ==
  /\ At(r, "reconcile")
  /\ LET next == AfterReconcile(g[r].op)
         s    == Mine(r)
     IN  IF Orphaned(s)
         THEN Save(r, [Interrupt(s, OrphanedTurn(s)) EXCEPT !.active = 0], g[r], next)
         ELSE /\ IF next = "idle" THEN Return(r) ELSE Goto(r, next)
              /\ UNCHANGED heap
  /\ UNCHANGED <<sess, used, disk, tmp, rootDone, feed, sent, restarts, acked,
                 gone, overlapped>>

\* An input that names a repository looks at the binding before it resolves it.
CheckRepository(r) ==
  /\ At(r, "check")
  /\ LET s == Mine(r)
     IN  IF s.repo = "none" /\ s.turns # <<>>
         THEN Return(r)
         ELSE g' = [g EXCEPT ![r].pc = "accept", ![r].bind = (s.repo = "none")]
  /\ UNCHANGED <<sess, heap, used, disk, tmp, rootDone, feed, sent, restarts,
                 acked, gone, overlapped>>

\* beginTurnLocked: turn t runs and goroutine r drives it.
DrivenUnmarked(s, t, r) ==   \* mutant: running and cancel are left to the driver
  [s EXCEPT !.status = "busy", !.active = t]
Driven(s, t, r) == [s EXCEPT !.status = "busy", !.running = TRUE,
                             !.cancel = r, !.active = t]

\* The locked part of InputWithAttachments.
Accept(r) ==
  /\ At(r, "accept")
  /\ LET s == Mine(r)
         t == Len(s.turns) + 1
         begun == [s EXCEPT
           !.repo = IF g[r].bind THEN "preparing" ELSE @,
           !.closed = FALSE,
           !.turns = Append(@, [prompt |-> g[r].prompt, st |-> "running", steps |-> 0])]
     IN  IF \/ Busy(s)
            \/ g[r].bind /\ (s.repo # "none" \/ s.turns # <<>>)
         THEN Return(r) /\ UNCHANGED heap
         ELSE Save(r, Driven(begun, t, r), [g[r] EXCEPT !.turn = t, !.bind = FALSE],
                   "announce")
  /\ UNCHANGED <<sess, used, disk, tmp, rootDone, feed, sent, restarts, acked,
                 gone, overlapped>>

\* The locked part of RetryRepository.
Retry(r) ==
  /\ At(r, "retry")
  /\ LET s == Mine(r)
         again(t) == [SetTurn(s, t, "running") EXCEPT !.repo = "preparing"]
     IN  IF Busy(s) \/ ~CanRetry(s)
         THEN Return(r) /\ UNCHANGED heap
         ELSE \E t \in RetryTurns(s) :
                Save(r, Driven(again(t), t, r),
                     [g[r] EXCEPT !.turn = t, !.prompt = s.turns[t].prompt],
                     "announce")
  /\ UNCHANGED <<sess, used, disk, tmp, rootDone, feed, sent, restarts, acked,
                 gone, overlapped>>

\* SetPinned
Pin(r) ==
  /\ At(r, "pin")
  /\ \E b \in BOOLEAN : Save(r, [Mine(r) EXCEPT !.pinned = b], g[r], "idle")
  /\ UNCHANGED <<sess, used, disk, tmp, rootDone, feed, sent, restarts, acked,
                 gone, overlapped>>

\* The locked part of Delete: it takes the object the map holds by now.
Drop(r) ==
  /\ At(r, "drop")
  /\ IF sess = 0
     THEN Return(r) /\ UNCHANGED <<sess, heap, acked, overlapped>>
     ELSE /\ heap' = [heap EXCEPT ![sess].deleted = TRUE, ![sess].closed = TRUE,
                                  ![sess].cancel = None, ![sess].running = FALSE]
          /\ g' = [Cancelled(g, heap[sess].cancel) EXCEPT ![r].pc = "unlink"]
          /\ sess' = 0
          /\ acked' = {}
          /\ overlapped' = (overlapped \/ \E q \in Proc : g[q].pc \in Saving \cup {"unlink"})
  /\ UNCHANGED <<used, disk, tmp, rootDone, feed, sent, restarts, gone>>

\* Delete removes the state file without a lock and answers.  The answer is
\* clean when no goroutine is past the check that would have stopped it.
Unlink(r) ==
  /\ At(r, "unlink")
  /\ disk' = Missing
  /\ g' = [Moved(g, Unlinked("disk")) EXCEPT ![r] = Idle]
  /\ gone' = IF sess = 0 /\ \A q \in Proc : g[q].pc \notin {"commit", "adopt"}
             THEN "clean" ELSE "racy"
  /\ UNCHANGED <<sess, heap, used, tmp, rootDone, feed, sent, restarts, acked,
                 overlapped>>

-----------------------------------------------------------------------------
(* The turn: publish its start, runTurn, finishTurn, publish its end *)

\* publishTurnSessionEvent(turn.started); the request is answered and runTurn
\* starts in its own goroutine.
Announce(r) ==
  /\ At(r, "announce")
  /\ feed' = [feed EXCEPT ![g[r].prompt] = "started"]
  /\ acked' = IF Mine(r).deleted THEN acked ELSE acked \cup {g[r].prompt}
  /\ Goto(r, "prepare")
  /\ UNCHANGED <<sess, heap, used, disk, tmp, rootDone, sent, restarts, gone,
                 overlapped>>

\* prepareRepositoryForTurn: a bound repository that is not ready is checked
\* out first, and either outcome is saved before the turn goes on.
PrepareRepository(r) ==
  /\ At(r, "prepare")
  /\ LET s == Mine(r)
     IN  IF s.repo \in {"none", "ready"}
         THEN Goto(r, "exec") /\ UNCHANGED heap
         ELSE \/ Save(r, [s EXCEPT !.repo = "ready"], g[r], "exec")
              \/ Save(r, [s EXCEPT !.repo = "failed"], [g[r] EXCEPT !.res = "error"],
                      "finish")
  /\ UNCHANGED <<sess, used, disk, tmp, rootDone, feed, sent, restarts, acked,
                 gone, overlapped>>

\* applyCodexEvent records an event of the turn and saves the session.
CodexEvent(r) ==
  /\ At(r, "exec")
  /\ LET s == Mine(r)
         t == g[r].turn
     IN  /\ s.turns[t].steps < MaxSteps
         /\ Save(r, [s EXCEPT !.turns[t].steps = @ + 1], g[r], "exec")
  /\ UNCHANGED <<sess, used, disk, tmp, rootDone, feed, sent, restarts, acked,
                 gone, overlapped>>

\* The codex process ends, or could not be started.
CodexExit(r) ==
  /\ At(r, "exec")
  /\ \E res \in {"ok", "error", "canceled"} :
       /\ res = "canceled" => g[r].cancelled \/ rootDone
       /\ g' = [g EXCEPT ![r].pc = "finish", ![r].res = res]
  /\ UNCHANGED <<sess, heap, used, disk, tmp, rootDone, feed, sent, restarts,
                 acked, gone, overlapped>>

Outcome(r) == IF g[r].res = "ok" THEN "completed"
              ELSE IF g[r].res = "canceled" \/ rootDone THEN "interrupted"
              ELSE "failed"

StatusAfter == [completed |-> "ready", interrupted |-> "interrupted",
                failed |-> "failed"]

\* finishTurn once it knows the session is this turn's to conclude.
ConcludeSession(r, s) ==
  LET t == g[r].turn
  IN  IF s.closed
      THEN [SetTurn(s, t, IF IsLive(s.turns[t]) THEN "completed" ELSE s.turns[t].st)
              EXCEPT !.status = "exited"]
      ELSE [SetTurn(s, t, Outcome(r)) EXCEPT !.status = StatusAfter[Outcome(r)]]

Reported(r, s) == [g[r] EXCEPT !.res = IF s.closed THEN "completed" ELSE Outcome(r)]

Freed(s) == [s EXCEPT !.cancel = None, !.running = FALSE, !.active = 0]

\* The session's active turn is the one that ended.
FinishActive(r) ==
  /\ At(r, "finish")
  /\ LET s == Mine(r)
     IN  /\ s.active = g[r].turn
         /\ heap' = [heap EXCEPT ![g[r].obj] = ConcludeSession(r, Freed(s))]
         /\ g' = [Cancelled(g, s.cancel) EXCEPT
                    ![r] = [Reported(r, s) EXCEPT !.pc = "snapshot", !.next = "conclude"]]
  /\ UNCHANGED <<sess, used, disk, tmp, rootDone, feed, sent, restarts, acked,
                 gone, overlapped>>

\* finishSupersededTurnLocked: another turn runs by now, so only this turn's
\* record changes.
FinishSuperseded(r) ==
  /\ At(r, "finish")
  /\ LET s == Mine(r)
     IN  /\ s.active # g[r].turn /\ s.running /\ s.active # 0
         /\ Save(r, SetTurn(s, g[r].turn, Outcome(r)),
                 [g[r] EXCEPT !.res = Outcome(r)], "conclude")
  /\ UNCHANGED <<sess, used, disk, tmp, rootDone, feed, sent, restarts, acked,
                 gone, overlapped>>

\* No turn runs: the one that took over ended first.
FinishLate(r) ==
  /\ At(r, "finish")
  /\ LET s == Mine(r)
     IN  /\ s.active # g[r].turn /\ ~(s.running /\ s.active # 0)
         /\ Save(r, ConcludeSession(r, s), Reported(r, s), "conclude")
  /\ UNCHANGED <<sess, used, disk, tmp, rootDone, feed, sent, restarts, acked,
                 gone, overlapped>>

\* publishTurnSessionEvent of the outcome ends the goroutine.
ConcludeUnlessDeleted(r) ==   \* mutant: nothing is published of a deleted session
  /\ At(r, "conclude")
  /\ feed' = IF Mine(r).deleted THEN feed ELSE [feed EXCEPT ![g[r].prompt] = g[r].res]
  /\ Return(r)
  /\ UNCHANGED <<sess, heap, used, disk, tmp, rootDone, sent, restarts, acked,
                 gone, overlapped>>
Conclude(r) ==
  /\ At(r, "conclude")
  /\ feed' = [feed EXCEPT ![g[r].prompt] = g[r].res]
  /\ Return(r)
  /\ UNCHANGED <<sess, heap, used, disk, tmp, rootDone, sent, restarts, acked,
                 gone, overlapped>>

-----------------------------------------------------------------------------
(* The end of the process and the next start *)

\* A signal cancels rootCtx and wakes the goroutine that calls shutdown.
CancelRoot ==
  /\ "stop" \in Ops
  /\ ~rootDone
  /\ rootDone' = TRUE
  /\ g' = [g EXCEPT ![Reaper] = [Idle EXCEPT !.pc = "sweep"]]
  /\ UNCHANGED <<sess, heap, used, disk, tmp, feed, sent, restarts, acked, gone,
                 overlapped>>

\* shutdown collects the sessions under s.mu ...
Sweep ==
  /\ At(Reaper, "sweep")
  /\ IF sess = 0 THEN Return(Reaper)
     ELSE g' = [g EXCEPT ![Reaper].pc = "mark", ![Reaper].obj = sess]
  /\ UNCHANGED <<sess, heap, used, disk, tmp, rootDone, feed, sent, restarts,
                 acked, gone, overlapped>>

\* ... and interrupts them one by one.
Mark ==
  /\ At(Reaper, "mark")
  /\ LET s    == Mine(Reaper)
         busy == ~s.closed /\ s.status = "busy"
     IN  /\ heap' = [heap EXCEPT ![g[Reaper].obj] =
                       [(IF busy THEN Interrupt(s, s.active) ELSE s)
                          EXCEPT !.cancel = None, !.running = FALSE]]
         /\ g' = [Cancelled(g, s.cancel) EXCEPT ![Reaper].pc = "snapshot"]
  /\ UNCHANGED <<sess, used, disk, tmp, rootDone, feed, sent, restarts, acked,
                 gone, overlapped>>

\* The process dies wherever its goroutines are, and NewService loads what the
\* state file holds.
Restart ==
  /\ restarts < MaxRestarts /\ MaxObj > 0
  /\ restarts' = restarts + 1
  /\ rootDone' = FALSE
  /\ g' = [r \in Proc |-> Idle]
  /\ feed' = [n \in Prompt |-> "none"]
  /\ LET found == disk.st = "full"
     IN  /\ sess' = IF found THEN 1 ELSE 0
         /\ used' = IF found THEN 1 ELSE 0
         /\ heap' = [o \in Obj |-> IF found /\ o = 1 THEN Restored(disk.rec)
                                   ELSE NewSession]
  /\ UNCHANGED <<disk, tmp, sent, acked, gone, overlapped>>

-----------------------------------------------------------------------------
(* The specification *)

Call(r) == Open(r) \/ Lookup(r)

Serve(r) ==
  \/ LoadRecord(r) \/ Adopt(r) \/ Reconcile(r) \/ CheckRepository(r)
  \/ Accept(r) \/ Retry(r) \/ Pin(r) \/ Drop(r) \/ Unlink(r)
  \/ Announce(r) \/ PrepareRepository(r) \/ CodexEvent(r) \/ CodexExit(r)
  \/ FinishActive(r) \/ FinishSuperseded(r) \/ FinishLate(r) \/ Conclude(r)

Persist(r) == \/ SnapshotRecord(r) \/ OpenTemp(r) \/ WriteTemp(r)
              \/ VerifyNotDeleted(r) \/ CommitTemp(r) \/ SaveFails(r)

Next == \/ \E r \in Proc : Call(r) \/ Serve(r) \/ Persist(r)
        \/ CancelRoot \/ Sweep \/ Mark
        \/ Restart

Spec == Init /\ [][Next]_vars

\* The Go scheduler runs every goroutine, and codex ends by itself or is
\* killed; nothing makes a client send a request or the process die.
Fairness == \A r \in Proc : WF_vars(Serve(r) \/ Persist(r))

FairSpec == Spec /\ Fairness

-----------------------------------------------------------------------------
(* Properties *)

\* r drives its turn: accepted, and not yet through finishTurn's critical
\* section.
Driving(r) == {g[r].pc, g[r].next} \cap {"announce", "prepare", "exec", "finish"} # {}

Drivers(o) == {r \in Proc : g[r].obj = o /\ Driving(r)}

\* An object that lost its place in the map was deleted.
OneLiveObject == \A o \in 1 .. used : heap[o].deleted \/ o = sess

\* One codex process per session object.  The busy flag is set under item.mu,
\* but codex runs unlocked: until the process is told to stop, accepting,
\* retrying, deleting and restoring never give an object a second turn, and
\* the turn that runs is the active one.
OneTurnAtATime ==
  ~rootDone => \A o \in 1 .. used :
    /\ \A r, q \in Drivers(o) : r = q
    /\ \A r \in Drivers(o) : heap[o].active = g[r].turn

\* A session shown as busy has a goroutine that will conclude it, also while
\* files are saved between its critical sections: it never stays busy for good.
BusyHasDriver ==
  \A o \in 1 .. used : heap[o].status = "busy" => Drivers(o) # {}

\* reconcileOrphanedRuntimeSession is called by every read and before every
\* turn, so it runs against live turns all the time: it never takes one for an
\* orphan, in whatever order the flags it looks at are set and cleared.
NeverOrphaned == ~rootDone => \A o \in 1 .. used : ~Orphaned(heap[o])

\* The flags of a session tell the truth about the goroutine behind it: what is
\* busy is driven, and what is driven is not taken for an orphan.
BusyIsDriven == BusyHasDriver /\ NeverOrphaned

\* A record with this prompt is what a restart would load.
OnDisk(n) == disk.st = "full" /\ \E i \in DOMAIN disk.rec.turns :
                                    disk.rec.turns[i].prompt = n

\* The disk works, and no two saves or deletions of the session ran into each
\* other.
SavesComplete == ~overlapped /\ "fault" \notin Ops

\* Then an input that was answered is on disk, whatever crashes follow.
AckedIsDurable == SavesComplete => \A n \in acked : OnDisk(n)

\* After a restart the history shows the turns that were answered, and none
\* of them as running.
RestartKeepsHistory ==
  [][restarts' # restarts /\ SavesComplete =>
       \A n \in acked : /\ sess' # 0
                        /\ \E i \in DOMAIN heap'[sess'].turns :
                             /\ heap'[sess'].turns[i].prompt = n
                             /\ ~IsLive(heap'[sess'].turns[i])]_vars

\* A session whose deletion was answered cleanly stays away until it is opened
\* anew, though its driver may still be running and saving.
DeletedStaysAway == gone = "clean" => sess = 0 /\ disk = Missing

\* The outcome of a turn changes only when its repository is retried, until
\* the process is told to stop.
OutcomeStays ==
  [][restarts' = restarts /\ ~rootDone' =>
       \A o \in 1 .. used : \A i \in DOMAIN heap[o].turns :
         ~IsLive(heap[o].turns[i]) =>
           \/ heap'[o].turns[i].st = heap[o].turns[i].st
           \/ /\ heap'[o].turns[i].st = "running"
              /\ heap[o].repo = "failed"
              /\ \A j \in DOMAIN heap[o].turns : ~IsLive(heap[o].turns[j])]_vars

\* A turn ends, whatever is deleted, retried or shut down meanwhile: to the
\* clients, which were told of its start, and to the session, which is busy with
\* it.  When no new ones are begun, none is left.
TurnsEnd ==
  []<>(/\ \A n \in Prompt : feed[n] # "started"
       /\ sess = 0 \/ heap[sess].status # "busy")

\* The session implements the turn ledger: turns begin one at a time, a running
\* turn settles, a settled one stays as it is until it is run again, and what
\* a deletion, a restore or a restart brings back is not running.
Ledger == INSTANCE TurnLedger WITH
  turns <- IF sess = 0 THEN <<>>
           ELSE [i \in DOMAIN heap[sess].turns |->
                   [prompt |-> heap[sess].turns[i].prompt, st |-> heap[sess].turns[i].st]],
  life <- <<restarts, sess>>,
  halted <- rootDone,
  FirstLife <- <<0, 0>>

ImplementsLedger == Ledger!Spec

-----------------------------------------------------------------------------
(* Why they hold: a strengthening that every step preserves *)

TurnLabels == {"check", "accept", "retry", "announce", "prepare", "exec", "finish",
               "conclude"}

Holding == Label \ {"idle", "load", "adopt", "sweep"}

\* Goroutines hold allocated objects, and resume somewhere only after a save.
GoroutinesInv ==
  /\ sess \in 0 .. used
  /\ \A r \in Proc : {g[r].pc, g[r].next} \cap TurnLabels # {} => g[r].op \in TurnOps
  /\ \A r \in Proc : g[r].op \in TurnOps => g[r].prompt \in Prompt
  /\ \A r \in Proc : g[r].pc \in Holding => g[r].obj \in 1 .. used
  /\ \A r \in Proc : g[r].pc \notin Saving \cup {"snapshot"} => g[r].next = "idle"
  /\ \A r \in Proc : "conclude" \in {g[r].pc, g[r].next} => g[r].res \in Terminal
  /\ ~rootDone => g[Reaper].pc \notin {"sweep", "mark"}
  /\ g[Reaper].op = "none"

\* Before the stop, the flags of an object say what its driver is doing.
DriverInv ==
  ~rootDone =>
    /\ \A r \in Proc : Driving(r) =>
         LET s == heap[g[r].obj]
         IN  /\ s.status = "busy" /\ s.active = g[r].turn /\ (s.running \/ s.closed)
             /\ g[r].turn \in DOMAIN s.turns /\ IsLive(s.turns[g[r].turn])
    /\ \A r, q \in Proc : Driving(r) /\ Driving(q) /\ g[r].obj = g[q].obj => r = q
    /\ \A o \in 1 .. used : \A i \in DOMAIN heap[o].turns :
         IsLive(heap[o].turns[i]) => heap[o].active = i /\ heap[o].status = "busy"

\* At all times, a turn that runs has the goroutine that will end it.
ActiveHasDriver ==
  \A o \in 1 .. used : heap[o].running /\ heap[o].active # 0 =>
    \E r \in Drivers(o) : g[r].turn = heap[o].active

\* A clean deletion leaves nobody who could bring the session back.
DeletionInv ==
  gone = "clean" =>
    /\ sess = 0 /\ disk = Missing
    /\ \A r \in Proc : g[r].pc \notin {"commit", "adopt"} /\ g[r].fd # "disk"

-----------------------------------------------------------------------------
(* What the repository says of the program, and the runs refute *)

\* "expected deleted running session state to stay removed" (service_test.go).
DeletedStateStaysRemoved == gone # "no" => disk = Missing

\* The input handler persists the busy session and the user turn before it
\* starts the runtime (technical-solution.md): an answered input is on disk.
AckedIsAlwaysDurable == \A n \in acked : OnDisk(n)

=============================================================================
