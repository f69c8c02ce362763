# alter0: specification and verification

alter0 is a single-user server that runs the Codex command line for chat
sessions opened in a browser. This directory holds TLA+ models of its core, the
TLC runs that check them on small instances, and theorems checked by TLAPS.
Paths below are relative to the root of the repository.

## 1. The system

| Component | Code | State | Operations | Module |
|---|---|---|---|---|
| chat runtime service | `internal/chatruntime/application/{service,store,repository}.go` | map of sessions under `s.mu`; per session (under `item.mu`) status, turns, active turn, `turnRunning`, `turnCancel`, `closedByUser`, `deleted`, repository binding; a JSON file per session | create, recover, list, get, input, retry repository, pin, delete, shutdown, `runTurn`/`finishTurn`, `persistSession` | `ChatRuntime`, `TurnLedger` |
| turn trace and views | `service.go` (`applyCodexEvent`, `promoteFinalOutput`), `view.go`, `server_chat_runtime.go` | the runtime events of a turn, the updates published of them | merge codex's items, promote the final message, end a turn, read pages of turns and details | `TurnTrace` |
| session titles | `session_title.go`, `service.go` | title, its score and flags | input, name, recover, repair | `SessionTitles` |
| repositories and files of a session | `github_repository.go`, `github.go`, `service.go` | checkout, attached files, the binding | prepare, clone, publish, reuse, retry, delete, list GitHub's pages | `SessionWorkspace` |
| owner update feed | `internal/interfaces/web/server_session_events.go` | window of the last 256 events, next event id | publish, poll | `UpdateBroker` |
| conversation front end | `frontend/src` | cursor, sessions and messages in the browser | merge updates into the local view | readers in `UpdateBroker`, `TurnTrace` |
| workspace services | `workspace_service*.go` | registry and its file, a process per service | bind, unbind, visit, start, probe, stop | `WorkspaceServices` |
| maintenance | `maintenance.go`, `session_attachment_store.go` | directories of sessions | delete a session, clean-up run, store an attachment | `SessionCleanup` |
| runtime supervisor | `cmd/alter0/{runtime_supervisor,relaunch}.go` | current child process, `updating`, `shuttingDown`, status; the checkout | run, restart request, cut-over, roll-back; fetch, reset, build, list versions | `RuntimeSupervisor`, `UpdateSource` |
| scheduler | `internal/scheduler`, its store | jobs, one runner goroutine per enabled job | start, put, enable, delete, fire; schedules | `JobManager`, `Schedule` |
| session history | `internal/session/application`, its store | records, indexes into them, a file per session | append, list, delete, pin, touch, clean up, load | `SessionHistory` |
| tasks | `internal/task`, its store | tasks an earlier version left, an index and directories | load, delete by session | `TaskStore` |
| codex accounts | `internal/codex` | records, the live `auth.json` with its temporary and backup files | list, status, switch, import, login | `CodexAccounts` |
| codex app-server | `internal/codex/application/service.go` | one process, two pipes, four goroutines | one call | `AppServer` |
| control plane | `internal/control`, `native_skills.go` | capabilities, audit log, a file; directories codex reads | put, switch, delete, install, roll back, start | `ControlPlane` |
| orchestration | `internal/orchestration/application` | three layers of memory, the mandatory file | recall, execute, remember, expire | `MemoryLayers` |
| model providers | `internal/llm`, handlers in `server.go` | registry and its file | create, update, delete, switch, default, resolve | `ModelProviders` |
| execution, task summaries, cli, shared | `internal/...` | none shared | run codex, derive texts, glue | none, see section 11 |

How they meet: a browser request reaches an HTTP handler, which calls the chat
runtime service; the service starts one goroutine per turn, which prepares the
session's repository and files and runs a codex process; every change of a session
is saved to its file by whoever made it, and published through a hook to the update
feed, which browsers poll. On a signal the root context ends: turns are cancelled and
`shutdown` interrupts what was running. Messages of the other channels and of jobs go
to the orchestrator, which remembers around an execution and appends to the session
history. The clean-up job goes through all stores that know of a session. The
supervisor is the parent process, replaces the server by a new build and falls back
to the old one.

What is hard, in the order of importance:

1. *One session, many goroutines.* `item.mu` is held for single critical
   sections only. A request's look-up, orphan check, repository check, accept, save
   and publication are separate steps, and so are the end of a turn, its save and
   its publication. Deletion, retry and shutdown come in between.
2. *The state file.* Saves are neither serialised nor atomic with the check for
   deletion, and all of them write through one temporary file.
3. *Crash and restart.* What was answered must be on disk; what ran must not be
   shown as running; what was cloned half must not be taken for a repository.
4. *The feed.* A bounded window, ids that restart, publications outside the lock that
   may overtake each other, a client that must notice it has missed something.
5. *The supervisor's cut-over* with exits, signals and roll-backs in between, built from
   a checkout that others edit.
6. *Changes of several stores in several steps*: a session in four stores, a skill in
   memory, in a file and in codex's directory, an account in a record and the live file.
   Any step may fail, and other requests work with what they read before.
7. *Goroutines that wait for each other*: the process manager's lock during a probe, the
   pipes of an app-server call, runners of jobs that were cancelled.

`PROJECT.json` lists each place under "hazards" with the properties that would catch it
going wrong.

## 2. Modules and plan

Every module stands for one component and can be read by itself. The instances for TLC
put several of them side by side: their components share no state in the code, so
a behaviour of such an instance is one of a single part, chosen in the initial state
(the variable `part`).

| Module | What it is | Checked in |
|---|---|---|
| `ChatRuntime`, `TurnLedger`, `MCChatRuntime`, `MCTurns` | the life of one session; what it promises about its turns; instances | `turns`, `restart`, `delete`, `progress` |
| `ChatRuntimeProofs`, `ChatRuntimeHistoryProofs` | type correctness, deletion and turns; what turns say, and that they outlive the process | TLAPS |
| `RuntimeSupervisor`, `MCRuntimeSupervisor`, `RuntimeSupervisorProofs` | the parent process | `supervisor`, TLAPS |
| `UpdateBroker`, `MCUpdateBroker`, `UpdateBrokerProofs` | the feed | `progress`, TLAPS |
| `WorkspaceServices`, `AppServer`, `JobManager`, `MCProgress` | what must come to an end | `progress` |
| `TaskStore`, `SessionCleanup`, `TurnTrace`, `MemoryLayers`, `SessionWorkspace`, `SessionTitles`, `UpdateSource`, `ControlPlane`, `MCSessions` | what is kept around a session, in a checkout and among the skills | `sessions` |
| `SessionHistory`, `CodexAccounts`, `ModelProviders`, `Schedule`, `MCRecords` | what overlapping requests submit and rewrite, and failures cut | `records` |
| `ProcessProofs` | jobs and services | TLAPS |
| `StoreProofs` | updates, tasks, workspaces, providers, skills, deletions | TLAPS |
| `RecordProofs` | accounts, session history, what is stored of a job | TLAPS |
| `SessionProofs` | the trace of the turns, titles, memory | TLAPS |

Still worth doing, in this order:

1. The publications of `TurnTrace` composed with the window of `UpdateBroker`, and the
   fetches of the page after a resync.
2. Channels and environments of the control plane, and the settings read and written
   through an app-server call.

## 3. ChatRuntime

### State

| TLA+ | Code |
|---|---|
| `sess`, `heap`, `used` | `s.sessions[id]` and the `*runtimeSession` objects that were ever behind it. Deletion unmaps an object while goroutines still hold it, so several exist |
| `disk`, `tmp` | `<id>.json` and `<id>.json.tmp`: absent, empty, a record, or bytes that do not decode |
| `g[r]` | a goroutine: where it is, the object it holds, the record it is about to write, whether its context is cancelled, and where its open descriptor points after a rename or removal |
| `rootDone` | `rootCtx` has ended |
| `feed` | the last turn event published for each prompt |
| `acked`, `gone`, `overlapped`, `sent`, `restarts` | history of the environment: inputs answered, how the last deletion went, whether two file operations met; bounds |

`active` is a position in `turns` (0 for the empty id). Time stamps, titles, entries
and the contents of events are left out; a turn carries its prompt, its status and
how many runtime events it has recorded. Sessions with different ids share only the
lock of the map, so one id is modelled; the same repository is meant by all inputs
that name one.

### Actions

A step is one critical section or one system call on the file.

| Actions | Code |
|---|---|
| `Open`; `Lookup`, `LoadRecord`, `Adopt` | `Create`/`Recover`; `getOwnedSession`, `restorePersistedOwnedSession`, `syncMissingPersistedSessions`: the map, then the file without a lock, then the map again |
| `Reconcile` | `reconcileOrphanedRuntimeSession` |
| `CheckRepository`, `Accept`, `Retry`, `Pin` | the unlocked check and the critical section of `InputWithAttachments`; `RetryRepository`; `SetPinned` |
| `Drop`, `Unlink` | the critical section of `Delete` and the removal of the file |
| `SnapshotRecord`, `OpenTemp`, `WriteTemp`, `VerifyNotDeleted`, `CommitTemp`, `SaveFails` | `persistSession`; `os.WriteFile` truncates and then writes, so the two are separate steps and a second writer in between leaves a mixture when its record is shorter |
| `Announce`, `PrepareRepository`, `CodexEvent`, `CodexExit` | `turn.started`; `prepareRepositoryForTurn`; `applyCodexEvent`; the end of the process in `runTurn` |
| `FinishActive`, `FinishSuperseded`, `FinishLate`, `Conclude` | the branches of `finishTurn` and the event it publishes |
| `CancelRoot`, `Sweep`, `Mark`, `Restart` | the signal, `shutdown`, and a crash at any point followed by `loadPersistedSessions` |

An accepted request goes on as the goroutine that drives the turn. `Lookup` with
`"list"` reads the file whatever the map holds, as `List` does.

### Properties

* `OneTurnAtATime`: no object has two goroutines that drive a turn.
* `BusyIsDriven`: a busy session has a goroutine that will conclude it, and the lazy
  reconciliation never takes a live turn for an orphan.
* `OutcomeStays`: an outcome changes only by a retry of a failed repository.
* `OneLiveObject`, `DeletedStaysAway`: restores do not duplicate or revive.
* `AckedIsDurable`, `RestartKeepsHistory`: when no two saves met and no system call
  failed, what was answered survives a crash and is not shown as running.
* `TurnsEnd`: what was announced to clients is concluded to them, and a busy session
  becomes usable again.
* `ImplementsLedger`: the session implements `TurnLedger`, with the object in the
  map as the ledger, the number of restarts and the object's number as its
  incarnation.

`OneTurnAtATime` and the second half of `BusyIsDriven` are claimed until the process is told to stop:
after that `shutdown` clears `turnRunning` of sessions whose turns still unwind, and
a request that is still served may begin a second turn, which ends at once because
its context is cancelled.

`DeletedStaysAway` is claimed for deletions that found no goroutine between its
check of the deleted flag and its rename, or between reading the file and adopting
it. That the others can bring the session back is shown by the run `deletedback`.

## 4. RuntimeSupervisor

The parent process of `cmd/alter0/runtime_supervisor.go`, with its children, the
requests to its control server and the signal that stops it as environment.

| TLA+ | Code |
|---|---|
| `proc`, `started` | the `managedChild` objects, numbered as they are started: running or gone (`done` closed), answering `/readyz` or not, and which executable they run (0 the original, n the candidate of update n) |
| `child`, `updating`, `shuttingDown`, `status` | the fields under `s.mu` (0 for nil) |
| `changed` | the token in the channel `childChanged` |
| `run` | the loop `Run`: where it is, the child it read last, what it returns |
| `upd[h]` | a goroutine of the control server and the `cutover` it starts: where it is, the previous and the new child, the version |

| Actions | Code |
|---|---|
| `Boot`, `Watch`, `Select`, `Check`, `Confirm`, `StopCurrent`, `Close`, `Leave` | `Run`: `Check` and `Confirm` are `isCurrentChild` and `isUpdating`, two critical sections; `Leave` is the return after `shutdownControlServer` waited |
| `RequestRestart`, `Prepare` | `RequestRestart`: its critical section; `prepareCandidate` (git and the build succeed or fail) and the status after it |
| `StopPrevious`, `StartCandidate`, `ProbeCandidate`, `RejectCandidate`, `StopCandidate`, `SwitchChild`, `Complete` | `cutover` |
| `ReportFailure`, `RestorePrevious`, `Settle`, `Notify` | `restorePrevious`, `clearChild`, `setChild` |
| `Release`, `Wake` | the deferred `finishUpdate` |
| `BecomeReady`, `Exit`, `Signal` | a child listens, crashes or obeys; the signal to the parent |

`stopChild` is one step: nothing else acts on the child it stops, and it returns only
after `done` is closed (by itself, or after the kill). The readiness probe asks a
configured *address*, so `ProbeCandidate` is satisfied by any child that answers; that
it is the candidate's answer is a consequence (`SwitchIsReady`), not part of the
model. Two children cannot listen at once because they share that address.

Properties:

* `AtMostOneChild`: through updates, roll-backs, crashes and signals, never two
  children at once, which would compete for the port.
* `SwitchIsReady`: another executable takes over only when it was started by the
  update in progress and answered `/readyz`.
* `StatusIsTrue`: after `completed` the child is the candidate of the last update,
  after `failed` it is anything but that.
* `WatchedChildIsGone`: the loop never returns while the child it looked at last is
  alive. It is what the code guarantees of the stronger `NeverDeserts`.
* `UpdateEnds`, `DeathIsNoticed`: an update comes to an end, so the next is not refused
  for ever; a dead child is replaced or ends the parent.

## 5. UpdateBroker

`server_session_events.go`: `recent` and `nextEventID` are the broker's fields, `log`
everything the process published, `told[o]` what the browser of owner `o` was told.
Polls do not change the broker, so one browser per owner is enough, and the answer and
its reception are one step: a lost answer changes nothing. Process events that the
handler takes out of an answer (`pruneSessionUpdateEvents`: hidden, or listed as known)
count as told, since the cursor passes them.

| Actions | Code |
|---|---|
| `Publish`, `Keep` | `publishWithTurnID`: the critical section, with the trimming of the window |
| `MustResync`, `Lasts`, `Answer`, `CursorAfter` | `poll`: the comparisons, the cut by limit and bytes (after any event but not before the first), the cursor |
| `Deliver`, `Resync` | the handler `chatRuntimeSessionUpdatesHandler`, and the browser that takes the answer's cursor (`ConversationRuntimeProvider.tsx:3677-3703`). On resync it fetches the sessions |
| `Join`, `BrokerRestart` | a page is opened, with cursor 0; a new process with an empty feed |

Properties:

* `NothingSkipped`: a reader that follows its cursor knows of every event of its owner
  up to it, through cuts, other owners' events and an overflowing window.
* `LossIsTold`: when events it does not know of have left the window, its next answer
  says so.
* `CatchesUp`: a reader that keeps polling gets to the end of the feed.

The first two leave out a reader that was handed a gap at cursor 0 or with a cursor of an
earlier process (`doubtful`): see finding 4.

## 6. Sessions: trace, workspace, title

`TurnTrace`: codex's items become events of the running turn (`CommandStarted`,
`CommandCompleted`, `TextCompleted`, from `applyCodexEvent`), the last message is promoted to
the final output and the turn ends (`FinishTurn`). After each change the goroutine reads a
payload under the session lock again (`ReadPayload`) and appends it to the feed after it was
released (`AppendUpdate`), while the next turn's goroutine and the shutdown (`SweepTurn`) are
at work. A turn may run more than once: while the repository of the session could not be
prepared (`repo`, `EndPreparation`), `RetryRepository` takes the last failed or interrupted turn back to
running and announces it again, in a goroutine of its own. A run is a turn with the number of its
attempt, and drivers and what they publish are counted by runs. A page polls with a list of the
events it has (`Poll`), merges what it is sent by id as `ConversationRuntimeProvider.tsx` does
(`Merged`), opens details (`OpenDetail`) and follows `turn_before` (`ReadPage`).
`StoryInOrder` says that the feed tells the story of each *run* from its start to its end, and
that one run at a time is at work (`OneAtATime`). Of a whole turn it would be wrong: a retry
announces a turn that was told as ended, and may do so before the goroutine of the former run has
published that end. `TraceIsTrue` says that an id leads to the event asked
for, that a command is one event, that an interrupted turn shows nothing as running, and that
a reader gets every turn once. Texts are kinds, and `Shown` the categories the page asks for.

`SessionWorkspace`: the goroutine of a turn clones into a staging directory, checks the
clone and renames it into place (`StartClone`, `EndClone`, `Publish`, `MarkReady`), or reuses
a checkout (`ReuseCheckout`), then writes the attached files (`WriteFile`) and starts the agent.
Failures, `CrashRestart`, `Retry`, deletion and changes on GitHub happen anywhere.
`RepositoriesAreTrue`: the agent never works in less than a whole clone of the bound
repository, the files it is told of have what was attached (other names provided), the picker
shows every repository once. `WorkIsKept`: nothing but a deletion takes a checkout that the
agent has worked in.

`Service.Delete` removes the workspace even when the state file could not be removed, and a late
save may put that file back, so a chat can come back without its workspace (`ComesBack`,
`emptied`). Both properties are about chats that are `InUse`, which this one is not.

`SessionTitles`: every branch of `session_title.go`'s scoring over clauses that carry the
classes of words it looks for; flags as the service keeps and restores them. `TitlesAreKept`:
a name that a user or codex gave stays through inputs and restarts, and a title that follows
the inputs says as much as any of them, but for those that only add a constraint and unless one
of them gave the chat its id for a title (see the observations).

## 7. Stores: history, tasks, deletion, accounts, skills, providers

`SessionHistory`: records are appended at the place that a bisection finds for their time
(`AppendLocked` with `SearchFirst`), indexes are rebuilt by removals, every change rewrites
the files and may fail or be cut, the older layout is moved at the start.
`HistoryIsSound`: the index names exactly a session's records, lists them in order until a
rebuild, the bisection returns exactly the span, the directory holds what memory holds after a
save, no record is kept twice, and no answer comes before its question. `ordered` remembers how the
indexes were built: by time, in the order of the slice by a removal, or by appending to such ones;
what is said of their order depends on it. `CleanupSparesTheActive`: no pinned or active
session is cleaned up. The sorts and filters of the code are lists by rank (`Ranked`): the sort of
the load is stable, because records of one time, session and id may come from two files.

`TaskStore`: the program only loads tasks of an earlier version and deletes them with their
session; each file write is a step that may fail or be the last. `TasksAreKept`: the index
never names what is gone, deleted tasks stay away, contents survive their move to a file.

`SessionCleanup`: the DELETE handlers, overlapping clean-up runs and uploads over the four stores
of a session, each call of a store one step that succeeds or fails; `since` remembers who
used a session meanwhile. `DeletionsAreComplete`: success means that nothing is left, only
expired chats go, an attachment with a manifest has its image.

`CodexAccounts`: each request reads records and `auth.json` and writes them steps later, in
the order of the code; a switch backs up, writes a temporary file and renames; codex
refreshes credentials at any time, and only the newest one is accepted.
`AccountsAreKept`: no step drops the only copy of an accepted credential unless another writer
overtook its request, or it meets the temporary or the backup file of a switch that was
overtaken; nothing is replaced unasked, an answered switch took effect. `alone` remembers
who was overtaken. Every opening, writing and renaming of a file may fail (`Fails`), the undoing
rename included; removing a file is taken not to fail. A listing or a status query that cannot
write the very credential it has just got loses it (`service.go:442-444`, `497-499`), and the
property names that case (`NotSaved`), as it names a replacement on request and a refresh
without a quota. So what it claims is that every other failing write loses nothing: of a
backup, of each of the steps of a switch (`610-616`), of an import, of other accounts' records.

`ControlPlane`: a change is made in memory, stored, installed by moving directories aside and
into place, and undone when a step fails; the start registers the built-in skills. A skill is
wanted by codex when its entry is enabled, owned by alter0, has a file and is not private
(`Wanted`). Directories carry the version they were copied from. A rename that fails is
followed by a rename back, which may fail as well and leaves the skill in its backup directory.
`ChangesAreWhole` has four safety parts. *Answered*: in memory, in the file and in the
directories, each wanted skill in the version there was when the installation began or a later
one, nothing left of the others (`DoneIsInstalled`). *Refused*: taken back in memory, and, when
the installation refused it, in the file and the directories as well, but for what failed once more
(`RefusedLeavesNothing`); a change whose save fails never comes to the directories, and may leave
a torn file. *Meanwhile*: of each wanted skill that was there a whole copy stays, in place, in a
backup directory or set aside, through failures and crashes (`WantedSkillsStay`).
*Always*: a directory of the user is never touched.

`ModelProviders`: handlers clone the registry, change the clone, validate and save;
validation, default and flags as `Normalized` computes them. `RegistryIsKept`: the registry
is sound whatever overlaps, a restart loads it, no default is replaced on its own.

`MemoryLayers`: three layers with budgets and lifetimes; each message reads the mandatory file,
recalls into its prompt, executes and then remembers, overlapping others. The scope is a set of
entries whose ids are their order in the slice. The eviction loops are stated by what they
leave: an entry goes exactly if what is left when its turn comes is still too much (`Overflow`,
`Surplus`), in the order of the code's comparisons (`UsedBefore`, `Below`); the selection for a
prompt as the one set of positions that the loop picks (`Picked`). `MemoryIsKept`: layers
fit, nothing is forgotten without need, what was taken back is in no later prompt, the recall
fits its budget or is one entry.

## 8. Processes and jobs

`WorkspaceServices`: a handler reads the registry, later takes the manager's lock, starts a
process and probes its port with the lock held, and may put back what it read. Deaths are
noticed late, a port may be answered by another process, a crash leaves processes behind.
`ServicesRunAsBound`: no process is forgotten, what was acknowledged is bound, what runs is what
is bound. `RequestsAreAnswered`: every request ends, and a reported start is its own.

`AppServer`: the caller, two copying goroutines of `os/exec`, the process, and the goroutine
that waits for them, joined by unbuffered pipes; the deadline kills the process only. `manner`
says how the process behaves. `AnsweredCallsEnd`: with its answer, a call ends.

`JobManager`: the jobs with their runner goroutines and store; every change cancels a runner and
starts another one, a failing save puts the old job back with a third.
`scheduler.json` is written in place, so a failing save may leave it as it was, cut, or complete.
`ackedJobs` is what the API answered, `doubtful` the jobs whose change met such a save since
the last complete one; of these a restart may find either definition.
`JobsAreRunOnce`: an enabled job has one live runner with its present definition, what was
acknowledged survives restarts, the built-in job is never sent as a prompt.
`CancelledRunnersEnd`: none of the others stays.

`Schedule`: the ways to give a schedule, their normal form as cron, parsing, and the search
for the next run, with minutes, hours, days and months of parametric length and zones that
may change their offset. `RunsWhenAsked`: no wait is longer than the interval asked
for, nothing is due twice, daily and weekly jobs keep their time, a stored job is accepted again.

`UpdateSource`: the git steps of an update and of the list of versions in one checkout in which
somebody edits and commits; the answers through parent, child and page. `UpdateIsAsAsked`: the
candidate is what was asked for; the confirmation is asked when it can be given; edits are
discarded only for a request that confirmed it, or were made after it had looked
(`EditsAreAskedFor`, with `looked` and `work` as history); the list is whole. A `git log` that fails
or takes too long ends the list, which is answered as a success (`relaunch.go:324-326`,
`339-341`): `logs` remembers which answered, and `ListIsWhole` is about the part that they told.

## 9. Runs

| Run | Instance | States | Shows |
|---|---|---|---|
| `turns` | 2 requests and one of two instances: 1 object with 3 prompts, or 2 objects with 2 prompts, deletions and the stop of the process | 1.4 M | what turns promise, and that the session implements the ledger |
| `restart` | 2 requests, 2 objects, 2 prompts, 1 runtime event, 1 crash at any step | 1.6 M | what was answered survives |
| `delete` | 2 requests, 3 objects, 2 prompts, a failing system call anywhere | 1.8 M | deletion |
| `progress` | the chat with 1 object and 2 prompts; the feed with 2 owners, a window of 3, 5 events and 1 restart; 1 service with 2 commands, one of which forks, 2 requests and 2 processes; a call with a process of each of 6 manners; 4 jobs, two with ids that share a key, and 4 runners. Fair | 0.2 M | what must come to an end, with the safety of the feed, the services and the jobs |
| `supervisor` | 2 handlers, 5 children, 2 updates. Fair | 0.4 M | the parent process |
| `sessions` | 3 tasks of 2 sessions; 1 session, 1 chat, 2 overlapping clean-ups; 3 turns, 2 runs of a turn, 3 events, 4 updates; 3 messages, 3 values of different cost, 3 layers; 2 repositories, 2 turns, 2 failures; 2 inputs and 1 restart of a title; 2 update requests; 2 skills with 3 kinds of entry, 2 versions, 2 changes and 1 failure or crash | 1.4 M | what is kept around a session, in a checkout and among the skills |
| `records` | 2 messages of 2 sessions at 3 times and 2 incidents (deletions, pins, touches, clean-ups, at most 1 fault); 2 accounts, 2 requests and 1 failing call; 3 providers, 2 requests and 1 failing save; schedules over a calendar of parametric lengths | 0.7 M | what overlapping requests submit and rewrite |
| `deletedback`, `ackedlost`, `deserted`, `feed_restarted`, `staleevent` | small | | the findings below |

In `progress`, `sessions` and `records` the components do not interact, and the variable
`part` says which of them a behaviour is about: the run is the union of the
state spaces, not their product, and every property is one of a single part.

*Why the bounds are enough.* Each hazard of the chat needs two goroutines that meet (the
reaper is a third one), one object before a deletion and one after it (a third is
there for a restore that races a recovery), one turn to be superseded and one that
supersedes it; a third prompt lets a retry pick between two turns that failed. `MaxSteps`
is 0 where runtime events change nothing the properties look at and 1 where a save in
the middle of a turn matters. Five children of the supervisor are the original, and two
updates that each start a candidate and restore. A window of 3 is the least in which
an answer can be cut at a cursor that asks for no resync, and five events overflow
it. The stores need two requests (or two runs) that read before either writes, one
failure between any two steps, and one more record than the one that is worked on, to see
whether it stays. Constants that are lengths or limits in the code (a title, a
page, the audit log, the calendar) are shortened until one step more or less is over
the limit.

*Bounds that are not constants.* `SavesApart` stops exploring at the first moment
two saves or deletions of the session met; it is used where the properties do not read the
file except through what restores from it, while `restart` and `delete` go on from there.
`KeepsToOne` (`MCTurns`) keeps every step to the operations of one of the two instances.
`FewAtOnce`, `ShortTurns`, `EditedFirst`, `CameBackOnce` (`MCSessions`) and
`FirstIsOfOne` (`MCRecords`) leave out combinations that only repeat what smaller ones show;
each says in a comment which. `Requests`, the update requests of `sessions` and the handlers of `records` are
interchangeable and declared symmetric; no liveness property is checked with symmetry.
The violation runs start from a session that was created and saved (`Created`, a state
that `Spec` reaches) to keep their traces short. Deadlock is not checked: a server that has
served all requests within the bounds rightly stops.

*Fairness.* `WF` of the steps of each goroutine that serves a request or a turn (`Serve`,
`Persist`; `Step` of the services; the runner of a job), because the Go scheduler runs every
goroutine, file calls return, and the preparation of a repository and codex end or are
killed through their context. `WF` of the supervisor's loop and of each update, because git,
the build, the probe and `stopChild` have time-outs (`relaunch.go`,
`runtime_supervisor.go`). `WF` of a poll, because a page that shows a running session polls
again and again (`ConversationRuntimeProvider.tsx`). `WF` of the steps of an app-server call, of
its deadline, of the end of the process, and of its answer when its manner is to
answer. No fairness is assumed of requests, of signals, of `shutdown`, of
publications, of failures, or of crashes and restarts.

*Mutants.* Every property of every passing run has a mutant in `PROJECT.json`: an operator of the
module, marked "mutant" in a comment and used nowhere, that changes one definition the way
a plausible bug would (a dropped guard, a flag not reset, a check made too early), and with
which TLC finds the property violated under the run's own configuration.

### Findings

1. `deletedback`: `persistSession` checks the deleted flag and renames without a
   lock (`store.go:181-185`), so a deletion in between is undone, against what
   `service_test.go:1470` expects.
2. `ackedlost`: all saves of a session write through one temporary file
   (`store.go:176`). The save of a new input truncates it after the save of the turn that
   ended has filled it and before that one renames it (`store.go:185`), so the state file is
   empty and an input that was answered is in no file until the other save has written, against
   `docs/technical-solution.md:136`. (The same saves may leave a mixture that no start decodes, and
   may commit their snapshots in the other order; the trace of the run does not show these.)
3. `deserted`: an update that finishes between `isCurrentChild` and `isUpdating`
   (`runtime_supervisor.go:284-287`) makes the parent end while the new child runs
   on by itself, against `README.md:389`.
4. `feed_restarted`: a cursor of an earlier process that the new numbers have reached is
   taken for one of this process (`server_session_events.go:152`), so events are
   missed without a resync, against `docs/technical-solution.md:135`.
5. `staleevent`: an update of an event that the page lists is taken out of the answer although
   the event has changed (`server_session_events.go:417`), so the page goes on showing a
   command as running, against `docs/technical-solution.md:134`.

### Observations

What the models contain and the properties leave out, or state with a proviso:

* *Supervisor.* On a signal during a cut-over, the parent stops the child it knew and
  leaves the candidate running (`runtime_supervisor.go:278-282`).
* *Feed.* Cursor 0, which the server itself answers on an empty feed, is never before the
  window: `GapIsTold` also fails without a restart when the window is smaller than the number
  of events.
* *Trace.* Events closed by an interruption are not published. A command that still runs when its
  turn fails or completes stays "running". An older update may be appended after the newer one.
  A retry may announce a turn before the end of its former run is published.
* *History.* After a removal has rebuilt the indexes in the order of the slice, listing and bisection
  may miss the order; with five records and more an answer may then be listed before its
  question (of times 1, 1, 2, 9, 2: a question at 3 goes to the end, and then its answer at 4 before
  the 9). Sessions whose ids are sanitised to one file name overwrite each
  other. A move from the older layout that is cut leaves records twice.
* *Tasks.* A deletion that fails after directories are gone puts memory back without files. One task
  that cannot be decoded refuses every start.
* *Clean-up.* The history goes first, so that what a failure leaves is not found by the next run.
  A chat used between listing and deletion is lost.
* *Jobs.* An old runner may still be in a run while the new one fires. A stored built-in job that is
  due during the start is sent as a prompt. Nothing reads `RetryLimit`. An interval that does not
  divide the hour runs sooner at its end; a change of the offset skips or doubles a run.
* *Workspace services.* Replacing a command by a directory leaves its process running, and a
  later DELETE does not stop it. A visitor with an older binding may replace the new process.
  The roll-back uses what was read before the lock. Commands survive a crash and keep the port.
* *Accounts.* A refreshed credential is lost when the quota cannot be fetched after the refresh,
  and when it cannot be written then (`service.go:442-444`, `497-499`).
  Concurrent switches share the temporary and the backup file, so one of them may remove the
  backup that holds the only copy of what the other set aside. A crash between the
  renames leaves no `auth.json`.
* *App-server.* A process that keeps writing holds a call up after its answer
  (`service.go:1136`), the reason for the proviso of `AnsweredCallsEnd`.
* *Control plane.* A skill that cannot be installed refuses every change of another one. A rename back that
  fails leaves a skill in a backup directory, where codex does not look, until it is installed
  again. A refused
  change stays in the audit log once that is full. A torn `control.json` refuses the start.
* *Memory.* Eviction goes by recency or score and not by size: it may drop a small entry that
  would have fitted beside the larger one that stays, and an entry larger than its layer empties
  the layer and then goes itself. Important entries go to the layer with the shortest life. The last message that
  ends wins. A promotion into a full layer evicts. Invalidated entries never leave.
  `memory_text_helpers.go:8` escapes `\p{Han}` twice.
* *Providers.* Of two overlapping handlers one loses its acknowledged change. A PUT without a key
  that races another writes the old key back. A handler whose provider is deleted meanwhile
  dereferences nil (`server.go`).
* *Workspace.* A binding that is ready is never prepared again when its checkout is gone.
  That happens to a chat whose record outlives the removal of its workspace: it comes back ready,
  without a checkout, and the clean-up of the deletion may still take what it makes. Two
  attachments of a turn with one name overwrite each other (`service.go:2072`). A crash
  between the removal of the state file and of the directory leaves the directory.
* *Titles.* An input that gives the chat its own id for a title is followed by any other:
  `nextAutoSessionTitle` (`session_title.go:180`) takes the id for the default title.
  Records of older versions have no flags; a name in them may be taken for a generated title.
* *Updates.* A list of versions that a `git log` cut short is not told from a whole one. Edits made between the inspection and `git reset --hard`, and commits that were not
  pushed, are discarded without a question (`relaunch.go:280`). A confirmed discard followed by a
  failing fetch loses the edits without an update. The client waits five minutes, the build may
  take ten.

## 10. Proofs

Theorems are about the specification of a module for every value of its constants that
satisfies the named assumptions of that module: bounds are naturals, sets that stand for
different kinds of things are disjoint, some are finite, a window, a page and the audit log are
not empty, and what an earlier version left is a file that can be read, if it is not torn,
whatever it says (`RegistriesAssumption`, the stored jobs of `JobAssumption`). TLC evaluates all
of them. Fairness is not used. Each safety theorem has an inductive invariant with the same
three lemmas: it holds at the start, every step keeps it, and the property follows.

### The chat runtime

* `TypeCorrect` (`ChatRuntimeProofs`). `TypeOK` alone is not inductive: that a step indexes the
  heap with an object, or the turns with a position, needs `GoroutinesInv` (a goroutine at a
  label that works on an object holds an allocated one; it resumes somewhere only from
  a save; a request that starts a turn carries a prompt). `TypeInv` is the conjunction,
  proved action by action.
* `OneLiveObjectAlways`, `DeletedStaysAwayAlways` (`ChatRuntimeProofs`). `RemovalInv`
  adds to `TypeInv` that every object off the map is deleted, and, after a clean deletion,
  that nobody is past the check that would stop it and no open descriptor refers to the
  state file. To bring the file back a goroutine must rename, hence pass the check, hence
  hold an undeleted object, hence the one in the map, and there is none.
* `OneTurnAtATimeAlways`, `BusyIsDrivenAlways` (`ChatRuntimeProofs`). `WorkInv` says what a
  driver implies of its object (`DriverInv`: busy, its turn active, and running unless the
  session was closed) and what an object implies of its driver (`ActiveHasDriver`,
  `BusyHasDriver`). Neither direction is inductive alone: that `Accept` adds no second driver
  follows from the first, that `finishTurn` concludes the right turn from the second. Deletion
  clears `turnRunning` but also sets `closedByUser`, and `Busy` tests the status too, which
  is why a deleted object cannot be given a second turn.
* `OutcomeStaysAlways`, `LedgerImplemented` (`ChatRuntimeHistoryProofs`). Between two restarts
  every step moves the turns of every object in one of four ways (`Moves`): it keeps
  them, begins one, runs one again, or settles one. Outcomes stay because only `RunsAgain`
  touches a settled turn before the stop. The refinement maps the four ways to the steps of
  `TurnLedger`; that a restore or a restart opens a sound ledger needs `LedgerInv`: in an
  object that was not deleted only the active turn is unsettled, also after the process was
  told to stop; no record, in a file or on its way to one, says that its session is closed;
  the map never leads to a deleted object.
* `AckedIsDurableAlways`, `RestartKeepsHistoryAlways` (`ChatRuntimeHistoryProofs`).
  `DurableInv`: while no two file operations overlapped and none failed, at most one is
  in flight; what is owed (answered, or saved and about to be announced) is in the
  object of the map, in the file, and in the record that is under way; when a file is being
  removed nothing is owed.

### The parent process and the feed

* `SupervisorTypeCorrect`, `AtMostOneChildAlways`, `StatusIsTrueAlways`,
  `WatchedChildIsGoneAlways`, `SwitchIsReadyAlways` (`RuntimeSupervisorProofs`).
  `SupervisorInv` says that only one update is under way (`UpdateInv`), that it leaves
  `s.child` alone until it is settled, that a child that runs and is not `s.child` belongs to
  it, and which executables its children run (`VersionInv`). A second child would belong
  to the update, which started it after `s.child` was gone. The process that answered the
  probe can only be the candidate, since only one runs.
* `BrokerTypeCorrect`, `NothingSkippedAlways`, `LossIsToldAlways` (`UpdateBrokerProofs`).
  `BrokerInv` adds that the window is the end of the log, numbered without gaps
  (`WindowInv`), and that no cursor of this process is ahead of the feed (`ReaderInv`). A
  cursor that `poll` accepts is not before the window (`CursorInWindow`), hence what is later is
  in it, and the cut leaves the cursor at the last event sent (`NothingBetween`).

### Jobs and services (`ProcessProofs`)

* `JobsAreRunOnceAlways`. The manager's state changes by three moves, `Putting` a job, and a runner
  `Stopped` or `Started`; each keeps runners and jobs linked (a runner that is not
  cancelled is the one its job's entry names), and after the last one they agree. `AckedInv`:
  what was acknowledged is in the program once it has loaded the store, and in the file where it
  can be read, except for jobs that are `doubtful`. Without that exception it is not
  inductive, and for a reason that lies in the code: a failing save may have written a
  change that is then taken back and answered with an error, and a restart finds it.
* `ServicesRunAsBoundAlways`. A handler works with what it read and the holder of the manager's
  lock replaces what is kept. `NoProcessIsForgotten` follows from who holds the lock.
  `BindingInv` says what a request that is alone in changing its service knows of memory, file and promise, and
  `RunInv` that what runs for a command is what is bound, unless a PUT waits for the lock
  to replace it; both leave out services whose changes overlapped, were not saved or
  were cut (`unclear`), and visitors with an older binding (`astray`).

### Stores (`StoreProofs`)

* `UpdateIsAsAskedAlways`. Among the updates the checkout is exclusive; pages that list and people
  who edit and commit are not kept out, but nobody takes a commit away from
  the local or the remote branch, so how far the checkout was `Brought` stays. `Seen` says what a
  request that goes on unconfirmed knows of edits: there are none but those made since it looked.
* `TasksAreKeptAlways`. `CallInv` and `WrittenInv` say what the holder of the locks has read and
  written so far; `MemoryInv` compares memory with the index, `ContentInv` says where the
  content of an artifact is. A crash may cut every one of these steps.
* `RepositoriesAreTrueAlways`, `WorkIsKeptAlways`. `CheckoutInv` is what the checkout and the
  staging directory are at the step a turn has come to, `FilesInv` which of the
  attached files are written. The picker needs that two adjacent pages are one stretch of
  the listing (`ConcatAdjacentSubSeq`). The attempt without `emptied` failed: a chat whose
  state file outlives the removal of its workspace comes back with a binding that is ready
  and nothing under it, which is now in the model and excluded by `InUse`.
* `RegistryIsKeptAlways`. `SoundRegistry` holds of the registry in memory and of every clone that is
  about to be saved (`GoodChange` of what its handler read); at most one saver is in the
  file, which is torn only meanwhile or after a failure. `Normal` of any list without two
  equal ids or names, in which what is enabled has a key, is sound, and a sound
  registry loads as it is.
* `ChangesAreWholeAlways`. `ChangeInv`: a change can be taken back, or was, and the file equals
  memory unless a save failed. `InstallInv`: at each step of an installation, where
  the copy of the skill is (in place, in a staging directory, or set aside) and that its version
  is not before the one there was at the beginning (`Placed`); the wanted skills that are no
  longer to do, and of which no error was reported, are placed; none of the steps starts from a
  directory of the user. What an installation leaves after a refused change is the same
  invariant, of the installation that takes the change back.
* `DeletionsAreCompleteAlways`. Nobody adds records, files or directories to a session, or uses a chat,
  without this being noted for every deletion and run under way (`OthersKeep`); so
  what a deletion has removed at its stage (`DeletionInv`) and what a run has removed
  and listed (`CleanedInv`) stays removed, or idle, or is noted. `UploadInv`: the files of an
  attachment are written in the order in which a reader relies on them.

### Accounts and the session history (`RecordProofs`)

* `AccountsAreKeptAlways`. `AccountsInv` has four parts. `FilesInTime`: no credential, in a record,
  a file or the hands of a request, is newer than what the provider accepts.
  `ReadsHold`: what a request that nobody overtook has read is still so at each of its steps, so
  what it is about to overwrite is saved, superseded or backed up. `GoodAsk`: it carries a
  credential when it has one to write. `Leftovers`: a credential in the temporary file is
  that of a switch between writing and moving it, and an open file is that of a request that
  writes; so whatever else is dropped with such a file was put there by a request that was
  overtaken. Failing writes add no part: where one may fail, what is dropped is also in a record, in
  `auth.json` or among the backups by `ReadsHold`, or it is the credential just queried. The proof
  attempt corrected the model twice: a request that has ended has nothing left to be overtaken in, and a
  rename that takes away the file another request writes into overtakes that request.

* `HistoryIsSoundAlways`, `CleanupSparesTheActiveAlways`. `HistoryInv` says of the slice in
  memory and of every file of the directory that each of their records is `Known`, that is made from
  a message that got so far, of its session and time (or is the one of the older layout); that an
  answer comes after its question and nothing is there twice (`Savable`, `Asked`); that the indexes
  are exact (`GoodIndex`) and as `ordered` says; and what is in a file, torn ones included, after
  a save that stopped anywhere (`GoodFiles`). The property needs the disk because a load makes
  memory of it, and the messages because nothing else keeps an answer from being stored twice.
  The data is where the work is, by inductions over sets of numbers that are each stated once
  (`SetInduction`, from the well-foundedness of the naturals): the bisection
  ends and finds the first place when what it asks for is monotone (`SearchFinds`), lists by rank
  are permutations in order (`RankedLists`), and appending, removing, saving and loading keep what is
  said of a slice (`AppendLockedKeeps`, `WithoutKeeps`, `LayoutShapes`, `IndexedIs`). The attempt
  showed `QuestionFirst` to be too strong (see *History* above): the run had too few records to
  meet it. It holds until something is appended after a removal.

* `StoredJobIsKeptAlways`. The stored job is what `Normalized` makes of a submitted one
  (the inductive invariant), so the theorem is about data: `Normalized` is
  idempotent on what it accepts. It goes by the form of the schedule, through
  parsing, checking and writing the expression again, and through the older intervals, which
  become a schedule only in whole minutes.

### Trace, titles and memory (`SessionProofs`)

* `TraceIsTrueAlways`, `StoryInOrderAlways`. `TraceInv` has one part per actor. `TurnsGood`: in every
  turn the ids of the events grow, none is below its place and none above the last id given
  (`GoodTurn`), and a command that codex named is there once. The look-up (`PlaceOf`) takes the first event
  that has the id or whose place is that number; since no id is below its place, the event itself
  comes first. That a new id is not below its place needs that no turn has more events
  than ids were given, which goes on to hold when the final message is taken out of the
  middle and the places behind it go down. `DriversGood`: which
  goroutine drives which turn, and that an interrupted turn whose goroutine is over shows nothing as
  running. `ApartGood`: until the shutdown has visited the session, the run at work is the one the
  session is busy with, so a retry, which asks for a session that is not busy, finds none.
  `FeedGood` (`TellsInOrder`): what the feed has told of a run and what its goroutine
  is still about to tell, by how far the goroutine is; a payload is read under the lock and
  appended outside, so the order in the feed follows from what a goroutine may have in its
  hands and not from the lock. `ReaderGood`: a reader has the turns from one on without
  gaps; that a page begins before what the reader has, and holds something, is the lemma
  `BeginsIn` about the cut by size (a recursive function over the sizes).
* `TitlesAreKeptAlways`. `TitlesInv`: whoever gave the name holds the flag that protects it
  (`Named`), and until a restart a title that follows the inputs says what each of them did
  (`SaysTheMost`). The second is not inductive as the property states it: a title that is still
  the default gives way to anything, so the invariant adds that no input said anything yet while the
  title is "New", and that a title is the id only while it is "New" or nothing was
  put in. The second addition is false when an input gave the id for a title, which is how
  the exception was found. The lemmas are about how a title is built: one that
  was cut ends with dots and is not "New" (`CutEndsWithDots`), and what is called "New" says nothing
  (`NewIsNothing`).
* `MemoryIsKeptAlways`, the whole property. `MemoryInv`: ids are unique and not ahead of the sequence, times
  not ahead of the clock, layers and the scope fit, and so does every prompt. The data is in one
  lemma about eviction (`EvictionIs`): along any strict total order of a finite set, with
  any upward closed set of what is too much, removing what is still too much when its turn
  comes leaves something that is not too much, and leaves too much with the last one removed put back. Layers are
  an instance of it with the tokens, the scope one with the number of entries. From it follow
  both that layers fit and that nothing goes without need (`ForRoom`). Two conjuncts had to be
  corrected for it: `RecallFitsBudget` asked an oversized prompt to cost as much as every value
  instead of one, and `NothingLostWithoutNeed` took only lack of room for the lost entry itself for a
  reason, while eviction by recency also drops entries that would have fitted beside the rest.
  The instance had met neither and has now values of three costs.

### Only model-checked

* Liveness: `TurnsEnd`, `CatchesUp`, `RequestsAreAnswered`, `AnsweredCallsEnd`,
  `CancelledRunnersEnd`, `UpdateEnds`, `DeathIsNoticed`. The prover has no rules for
  fairness and `ENABLED`.
* `RunsWhenAsked`, but for what it says of the stored job (`StoredJobIsKeptAlways`): how long a
  job waits depends on a search through the calendar, whose result for every calendar, zone and
  change of the clock would need an induction over the days and the shape of a year.
* `StoresTypeOK`, which puts type invariants side by side and adds bounds of the instance
  (`TitlesTypeOK` bounds the length of a title by that of the instance's texts). What the other
  proofs need of the types of a component is part of its inductive invariant; `SourceInv`,
  `TasksInv`, `TraceInv` and `MemoryInv` imply the type invariants of their modules as they stand.
* The violations.

## 11. Not modelled

*Components.* `execution` (running codex for the other channels: a subprocess and
its output), task summaries (texts derived from tasks that nothing creates any more), the command line
and shared code. `PROJECT.json` has the reason for each, and for what the other
components leave out.

*Within a module.* `ChatRuntime`: entries, titles and time stamps, the structure of runtime events
(`TurnTrace` has it), conflicts between two repositories, the publication of
`session.updated`. `RuntimeSupervisor`: the client side of the control server and the fallback without
a supervisor in `relaunch.go`; git and the build succeed or fail (`UpdateSource` has
their steps). `UpdateBroker`: the payloads, and the fetches of the page after a resync, which
are one step with its answer. `SessionWorkspace`: two drivers of one chat, after a chat
came back while the goroutine of its deleted object still runs. A state file that
cannot be removed is modelled in `SessionWorkspace` only. Channels and environments of the
control plane are changed and saved like skills, without an installation, and are left out.
