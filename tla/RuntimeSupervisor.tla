-------------------------- MODULE RuntimeSupervisor --------------------------
(***************************************************************************)
(* The parent process of cmd/alter0 (runtime_supervisor.go): the loop Run  *)
(* that watches the child runtime, the handlers of the control server that *)
(* prepare an update, and the goroutine cutover that replaces the child    *)
(* and falls back to the previous executable.                              *)
(*                                                                         *)
(* A step is one critical section of s.mu, one operation on a child        *)
(* process, or one choice of a select.  A handler whose update is accepted *)
(* goes on, in the model, as the goroutine cutover.                        *)
(***************************************************************************)
EXTENDS Naturals, FiniteSets

CONSTANTS
  Handlers,     \* goroutines of the control server
  MaxChildren,  \* bound: child processes started
  MaxUpdates    \* bound: updates accepted

ASSUME SupervisorAssumption == MaxChildren \in Nat /\ MaxUpdates \in Nat

Child   == 1 .. MaxChildren
Version == 0 .. MaxUpdates   \* 0: s.executable; n: the candidate of update n

VARIABLES
  proc,      \* the child processes
  started,   \* how many were started
  child,     \* s.child, 0 for nil
  updating,  \* s.updating
  shuttingDown,
  status,    \* s.restartStatus.Status
  changed,   \* the channel childChanged, which holds one token
  signalled, \* the context of Run is done
  run,       \* Run: its place, the child it watches, what it returns
  upd,       \* the handlers and their updates
  updates    \* updates accepted so far

svars == <<proc, started, child, updating, shuttingDown, status, changed,
           signalled, run, upd, updates>>

-----------------------------------------------------------------------------
(* The data *)

\* A process that is gone has closed done; ready: it has answered readyz.
Process == [st : {"none", "up", "gone"}, ready : BOOLEAN, exe : Version]

RunLabel == {"boot", "watch", "select", "check", "confirm", "stop", "close",
             "drain", "returned"}
UpdLabel == {"idle", "prepare", "switch", "start", "probe", "undo", "report",
             "restore", "settle", "notify", "adopt", "complete", "release", "wake"}

Update == [pc : UpdLabel, prev : 0 .. MaxChildren, next : 0 .. MaxChildren,
           version : Version]

NoUpdate == [pc |-> "idle", prev |-> 0, next |-> 0, version |-> 0]

SupervisorTypeOK ==
  /\ proc \in [Child -> Process]
  /\ started \in 0 .. MaxChildren
  /\ child \in 0 .. MaxChildren
  /\ updating \in BOOLEAN /\ shuttingDown \in BOOLEAN
  /\ changed \in BOOLEAN /\ signalled \in BOOLEAN
  /\ status \in {"idle", "preparing", "switching", "completed", "failed"}
  /\ run \in [pc : RunLabel, cur : 0 .. MaxChildren, res : {"none", "stopped", "error"}]
  /\ upd \in [Handlers -> Update]
  /\ \A h \in Handlers : upd[h].pc # "idle" => upd[h].prev # 0
  /\ updates \in Version

SupervisorInit ==
  /\ proc = [c \in Child |-> [st |-> "none", ready |-> FALSE, exe |-> 0]]
  /\ started = 0 /\ child = 0
  /\ updating = FALSE /\ shuttingDown = FALSE
  /\ status = "idle"
  /\ changed = FALSE /\ signalled = FALSE
  /\ run = [pc |-> "boot", cur |-> 0, res |-> "none"]
  /\ upd = [h \in Handlers |-> NoUpdate]
  /\ updates = 0

Gone(c)    == proc[c].st = "gone"
Alive(c)   == proc[c].st = "up"
Answers(c) == Alive(c) /\ proc[c].ready

-----------------------------------------------------------------------------
(* Child processes *)

\* A child listens once no other child holds the port.
BecomeReady(c) ==
  /\ Alive(c) /\ \A d \in Child : ~Answers(d)
  /\ proc' = [proc EXCEPT ![c].ready = TRUE]
  /\ UNCHANGED <<started, child, updating, shuttingDown, status, changed,
                 signalled, run, upd, updates>>

\* A child crashes, or obeys a signal.
Exit(c) ==
  /\ Alive(c)
  /\ proc' = [proc EXCEPT ![c].st = "gone"]
  /\ UNCHANGED <<started, child, updating, shuttingDown, status, changed,
                 signalled, run, upd, updates>>

\* startChild, when the executable can be started
StartChild(v) ==
  /\ started < MaxChildren
  /\ started' = started + 1
  /\ proc' = [proc EXCEPT ![started + 1] = [st |-> "up", ready |-> FALSE, exe |-> v]]

\* stopChild: a signal, then the exit or, after the timeout, the kill.  It
\* returns when the process is gone.
StopSignalled(c) == UNCHANGED proc   \* mutant: it does not wait for the exit
StopChild(c) == proc' = [proc EXCEPT ![c].st = "gone"]

-----------------------------------------------------------------------------
(* Run *)

RunAt(label) == run.pc = label
RunTo(label) == run' = [run EXCEPT !.pc = label]
ReturnWith(res)  == run' = [run EXCEPT !.pc = "close", !.res = res]

\* The first child, set and announced; the loop has not begun.
Boot ==
  /\ RunAt("boot")
  /\ \/ StartChild(0) /\ child' = started' /\ changed' = TRUE /\ RunTo("watch")
     \/ ReturnWith("error") /\ UNCHANGED <<proc, started, child, changed>>
  /\ UNCHANGED <<updating, shuttingDown, status, signalled, upd, updates>>

Watch ==
  /\ RunAt("watch")
  /\ IF child = 0 THEN ReturnWith("error")
     ELSE run' = [run EXCEPT !.pc = "select", !.cur = child]
  /\ UNCHANGED <<proc, started, child, updating, shuttingDown, status, changed,
                 signalled, upd, updates>>

Select ==
  /\ RunAt("select")
  /\ \/ /\ signalled
        /\ shuttingDown' = TRUE
        /\ RunTo("stop")
        /\ UNCHANGED changed
     \/ /\ Gone(run.cur)
        /\ RunTo("check")
        /\ UNCHANGED <<changed, shuttingDown>>
     \/ /\ changed
        /\ changed' = FALSE
        /\ RunTo("watch")
        /\ UNCHANGED shuttingDown
  /\ UNCHANGED <<proc, started, child, updating, status, signalled, upd, updates>>

\* isCurrentChild and isUpdating lock s.mu one after the other.
Check ==
  /\ RunAt("check")
  /\ RunTo(IF child = run.cur THEN "confirm" ELSE "watch")
  /\ UNCHANGED <<proc, started, child, updating, shuttingDown, status, changed,
                 signalled, upd, updates>>

Confirm ==
  /\ RunAt("confirm")
  /\ IF updating THEN RunTo("watch") ELSE ReturnWith("error")
  /\ UNCHANGED <<proc, started, child, updating, shuttingDown, status, changed,
                 signalled, upd, updates>>

StopCurrent ==
  /\ RunAt("stop")
  /\ StopChild(run.cur)
  /\ ReturnWith("stopped")
  /\ UNCHANGED <<started, child, updating, shuttingDown, status, changed,
                 signalled, upd, updates>>

\* shutdownControlServer closes the listener and waits a bounded time for the
\* requests in progress; Run returns and the process ends.
Close ==
  /\ RunAt("close")
  /\ RunTo("drain")
  /\ UNCHANGED <<proc, started, child, updating, shuttingDown, status, changed,
                 signalled, upd, updates>>

Leave ==
  /\ RunAt("drain")
  /\ RunTo("returned")
  /\ UNCHANGED <<proc, started, child, updating, shuttingDown, status, changed,
                 signalled, upd, updates>>

RunStep == \/ Boot \/ Watch \/ Select \/ Check \/ Confirm \/ StopCurrent
           \/ Close \/ Leave

-----------------------------------------------------------------------------
(* An update *)

Running    == ~RunAt("returned")
UpdAt(h, label)   == Running /\ upd[h].pc = label
UpdTo(h, label)   == upd' = [upd EXCEPT ![h].pc = label]

\* The first critical section of RequestRestart.  A request that it refuses
\* changes nothing.
AnotherUpdate  == ~shuttingDown /\ child # 0   \* mutant: one is in progress
ChildlessUpdate == ~shuttingDown /\ ~updating  \* mutant: there is no child
MayUpdate == ~shuttingDown /\ ~updating /\ child # 0

RequestRestart(h) ==
  /\ UpdAt(h, "idle") /\ ~RunAt("drain")
  /\ MayUpdate
  /\ updates < MaxUpdates
  /\ updates' = updates + 1
  /\ updating' = TRUE
  /\ status' = "preparing"
  /\ upd' = [upd EXCEPT ![h] = [pc |-> "prepare", prev |-> child, next |-> 0,
                                version |-> updates + 1]]
  /\ UNCHANGED <<proc, started, child, shuttingDown, changed, signalled, run>>

\* prepareCandidate and the status that follows it.
Prepare(h) ==
  /\ UpdAt(h, "prepare")
  /\ \/ status' = "failed" /\ UpdTo(h, "release")
     \/ status' = "switching" /\ UpdTo(h, "switch")
  /\ UNCHANGED <<proc, started, child, updating, shuttingDown, changed,
                 signalled, run, updates>>

StopPrevious(h) ==
  /\ UpdAt(h, "switch")
  /\ StopChild(upd[h].prev)
  /\ UpdTo(h, "start")
  /\ UNCHANGED <<started, child, updating, shuttingDown, status, changed,
                 signalled, run, updates>>

StartCandidate(h) ==
  /\ UpdAt(h, "start")
  /\ \/ /\ StartChild(upd[h].version)
        /\ upd' = [upd EXCEPT ![h].pc = "probe", ![h].next = started']
     \/ UpdTo(h, "report") /\ UNCHANGED <<proc, started>>
  /\ UNCHANGED <<child, updating, shuttingDown, status, changed, signalled,
                 run, updates>>

\* waitUntilReady asks whoever answers at the configured address.
ProbeCandidate(h) ==
  /\ UpdAt(h, "probe")
  /\ ~Gone(upd[h].next)
  /\ \E c \in Child : Answers(c)
  /\ UpdTo(h, "adopt")
  /\ UNCHANGED <<proc, started, child, updating, shuttingDown, status, changed,
                 signalled, run, updates>>

\* The candidate exited, its address cannot be resolved, or time is up.
RejectCandidate(h) ==
  /\ UpdAt(h, "probe")
  /\ UpdTo(h, "undo")
  /\ UNCHANGED <<proc, started, child, updating, shuttingDown, status, changed,
                 signalled, run, updates>>

StopCandidate(h) ==
  /\ UpdAt(h, "undo")
  /\ StopChild(upd[h].next)
  /\ UpdTo(h, "report")
  /\ UNCHANGED <<started, child, updating, shuttingDown, status, changed,
                 signalled, run, updates>>

SwitchChild(h) ==
  /\ UpdAt(h, "adopt")
  /\ child' = upd[h].next
  /\ UpdTo(h, "complete")
  /\ UNCHANGED <<proc, started, updating, shuttingDown, status, changed,
                 signalled, run, updates>>

\* setChild announces the candidate, then the status is set.
Complete(h) ==
  /\ UpdAt(h, "complete")
  /\ changed' = TRUE
  /\ status' = "completed"
  /\ UpdTo(h, "release")
  /\ UNCHANGED <<proc, started, child, updating, shuttingDown, signalled, run,
                 updates>>

\* restorePrevious
ReportFailure(h) ==
  /\ UpdAt(h, "report")
  /\ status' = "failed"
  /\ UpdTo(h, "restore")
  /\ UNCHANGED <<proc, started, child, updating, shuttingDown, changed,
                 signalled, run, updates>>

CandidateVersion(h) == upd[h].version   \* mutant: the candidate is started again
PreviousVersion(h)  == proc[upd[h].prev].exe

RestorePrevious(h) ==
  /\ UpdAt(h, "restore")
  /\ \/ /\ StartChild(PreviousVersion(h))
        /\ upd' = [upd EXCEPT ![h].pc = "settle", ![h].next = started']
        /\ UNCHANGED child
     \/ child' = 0 /\ UpdTo(h, "notify") /\ UNCHANGED <<proc, started>>
  /\ UNCHANGED <<updating, shuttingDown, status, changed, signalled, run, updates>>

\* Ready or not, the restored child is the child.
Settle(h) ==
  /\ UpdAt(h, "settle")
  /\ child' = upd[h].next
  /\ UpdTo(h, "notify")
  /\ UNCHANGED <<proc, started, updating, shuttingDown, status, changed,
                 signalled, run, updates>>

Notify(h) ==
  /\ UpdAt(h, "notify")
  /\ changed' = TRUE
  /\ UpdTo(h, "release")
  /\ UNCHANGED <<proc, started, child, updating, shuttingDown, status,
                 signalled, run, updates>>

\* finishUpdate
ReleaseNothing(h) ==   \* mutant: the update is never over
  /\ UpdAt(h, "release")
  /\ UpdTo(h, "wake")
  /\ UNCHANGED <<proc, started, child, updating, shuttingDown, status, changed,
                 signalled, run, updates>>

Release(h) ==
  /\ UpdAt(h, "release")
  /\ updating' = FALSE
  /\ UpdTo(h, "wake")
  /\ UNCHANGED <<proc, started, child, shuttingDown, status, changed,
                 signalled, run, updates>>

Wake(h) ==
  /\ UpdAt(h, "wake")
  /\ changed' = TRUE
  /\ upd' = [upd EXCEPT ![h] = NoUpdate]
  /\ UNCHANGED <<proc, started, child, updating, shuttingDown, status,
                 signalled, run, updates>>

UpdateStep(h) ==
  \/ Prepare(h) \/ StopPrevious(h) \/ StartCandidate(h) \/ ProbeCandidate(h)
  \/ RejectCandidate(h) \/ StopCandidate(h) \/ SwitchChild(h) \/ Complete(h)
  \/ ReportFailure(h) \/ RestorePrevious(h) \/ Settle(h) \/ Notify(h) \/ Release(h) \/ Wake(h)

-----------------------------------------------------------------------------
(* The specification *)

Signal ==
  /\ Running /\ ~signalled
  /\ signalled' = TRUE
  /\ UNCHANGED <<proc, started, child, updating, shuttingDown, status, changed,
                 run, upd, updates>>

SupervisorNext == \/ RunStep \/ Signal
                  \/ \E h \in Handlers : RequestRestart(h) \/ UpdateStep(h)
                  \/ \E c \in Child : BecomeReady(c) \/ Exit(c)

SupervisorSpec == SupervisorInit /\ [][SupervisorNext]_svars

\* The scheduler runs the loop and every update; git, the build, the probe and
\* stopChild have timeouts.
SupervisorFairSpec == /\ SupervisorSpec
                      /\ WF_svars(RunStep)
                      /\ \A h \in Handlers : WF_svars(UpdateStep(h))

-----------------------------------------------------------------------------
(* Properties *)

\* The port has room for one: whatever is updated, rolled back, killed or
\* signalled, no two children run at the same time.
AtMostOneChild == \A c, d \in Child : Alive(c) /\ Alive(d) => c = d

\* Another executable takes over only when it was started by the update that
\* is in progress and answered readyz.
SwitchIsReady ==
  [][child # 0 /\ child' # 0 /\ proc'[child'].exe # proc[child].exe =>
       updating /\ proc[child'].ready /\ proc[child'].exe = updates]_svars

\* What GET /restart reports is what runs: after "completed" the candidate of
\* the last update, after "failed" anything but it.
StatusIsTrue ==
  /\ status = "completed" => child # 0 /\ proc[child].exe = updates
  /\ status = "failed" /\ child # 0 => proc[child].exe # updates

\* The loop never returns while the child it looked at last is alive.
WatchedChildIsGone ==
  run.pc \in {"close", "drain", "returned"} => run.cur = 0 \/ Gone(run.cur)

\* An update ends, so the next one is not refused for ever.
UpdateEnds == updating ~> ~updating \/ ~Running

\* A child that died is replaced by the update in progress, or ends the parent.
DeathIsNoticed ==
  (child # 0 /\ Gone(child)) ~> (~Running \/ child = 0 \/ Alive(child))

-----------------------------------------------------------------------------
(* Why they hold: a strengthening that every step preserves *)

NoCandidateYet == {"prepare", "switch", "start"}      \* no candidate yet
During == {"probe", "adopt", "undo"}          \* the candidate runs, the child is gone
After  == {"report", "restore", "settle"}     \* the candidate failed
Active(h) == upd[h].pc \notin {"idle", "wake"}

\* Processes are numbered as they are started, and everybody refers to one of
\* them.
NumberingInv ==
  /\ \A c \in Child : proc[c].st # "none" <=> c <= started
  /\ child <= started /\ run.cur <= started
  /\ \A h \in Handlers : upd[h].prev <= started /\ upd[h].next <= started
  /\ RunAt("boot") => started = 0 /\ status = "idle" /\ \A h \in Handlers : upd[h].pc = "idle"

\* One update at a time, which leaves s.child alone until it is settled; a
\* child that runs and is not s.child belongs to it.
UpdateInv ==
  /\ \A h \in Handlers : Active(h) => updating /\ upd[h].version = updates
  /\ \A h, k \in Handlers : Active(h) /\ Active(k) => h = k
  /\ \A h \in Handlers :
       upd[h].pc \in NoCandidateYet \cup During \cup After => upd[h].prev = child /\ child # 0
  /\ \A h \in Handlers :
       upd[h].pc \in {"start"} \cup During \cup After => Gone(upd[h].prev)
  /\ \A c \in Child : Alive(c) =>
       \/ c = child
       \/ \E h \in Handlers : upd[h].pc \in During \cup {"settle"} /\ upd[h].next = c

\* What is known of the executables at each point of an update.
VersionInv ==
  /\ \A c \in Child : c <= started => proc[c].exe <= updates
  /\ \A h \in Handlers :
       /\ upd[h].pc \in NoCandidateYet =>
            \A c \in Child : c <= started => proc[c].exe < updates
       /\ upd[h].pc \in During \cup After => proc[upd[h].prev].exe < updates
       /\ upd[h].pc \in During \cup {"complete"} =>
            upd[h].next # 0 /\ proc[upd[h].next].exe = updates
       /\ upd[h].pc = "settle" =>
            upd[h].next # 0 /\ proc[upd[h].next].exe = proc[upd[h].prev].exe
       /\ upd[h].pc = "adopt" => proc[upd[h].next].ready
       /\ upd[h].pc = "complete" => child = upd[h].next
       /\ upd[h].pc = "notify" => child = 0 \/ proc[child].exe < updates
       /\ upd[h].pc \in NoCandidateYet \cup During \cup {"report", "complete"} =>
            status \in {"preparing", "switching"}
       /\ upd[h].pc \in {"restore", "settle", "notify"} => status = "failed"

\* A child that the loop watches and that was replaced is gone.
RunInv ==
  /\ run.cur \notin {0, child} => Gone(run.cur)
  /\ run.pc \in {"check", "confirm", "select", "stop"} => run.cur # 0
  /\ run.pc \in {"check", "confirm"} => Gone(run.cur)
  /\ WatchedChildIsGone

SupervisorInv == /\ NumberingInv
                 /\ UpdateInv
                 /\ VersionInv
                 /\ RunInv
                 /\ StatusIsTrue

-----------------------------------------------------------------------------
(* What the repository says of the program, and the runs refute *)

\* The parent process manages the running child (README.md): it gives up only
\* when the child it has by now is not running.
NeverDeserts ==
  [][run.res = "none" /\ run'.res = "error" => child = 0 \/ ~Alive(child)]_svars

=============================================================================
