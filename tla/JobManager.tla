------------------------------ MODULE JobManager ------------------------------
(***************************************************************************)
(* The scheduler: internal/scheduler/application/manager.go, its store     *)
(* (storage/infrastructure/localfile/scheduler_store.go), the cron job     *)
(* handlers of internal/interfaces/web/server.go and the registration of   *)
(* the built-in maintenance job.                                           *)
(*                                                                         *)
(* Every enabled job has a goroutine, its runner, with a copy of the job   *)
(* and a context to cancel it; a change of the job cancels the runner and  *)
(* starts another one, and a save that fails puts the old job back with a  *)
(* third.  A cancelled runner may still fire once, and may be in the       *)
(* middle of a run.                                                        *)
(***************************************************************************)
EXTENDS Naturals, FiniteSets

CONSTANTS
  JobId,          \* as they are written in the store and the URLs
  KeyOf,          \* the lower-case form of an id
  BuiltinJob,     \* system-session-cleanup
  RetiredJob,     \* system-memory-maintenance
  StoredJobs,     \* what an earlier run may have left in the store
  MaxJobVersion,  \* bound: definitions given by PUT
  MaxRunners,     \* bound: runners started since the boot
  MaxJobFaults,   \* bound: failing saves and crashes
  MaxFirings      \* bound: runs of jobs

JobVersion == 0 .. MaxJobVersion
NoJob == [ver |-> 0, enabled |-> FALSE, builtin |-> FALSE, there |-> FALSE]
Job == [ver : JobVersion, enabled : BOOLEAN, builtin : BOOLEAN, there : BOOLEAN]
UnknownJob == [NoJob EXCEPT !.builtin = TRUE]   \* nothing acknowledged yet
NoRunner == [job |-> BuiltinJob, ver |-> 0, at |-> "free", cancelled |-> FALSE, late |-> FALSE]

ASSUME JobAssumption ==
  /\ IsFiniteSet(JobId) /\ KeyOf \in [JobId -> JobId]
  /\ BuiltinJob \in JobId /\ RetiredJob \in JobId \ {BuiltinJob}
  /\ KeyOf[BuiltinJob] = BuiltinJob
  /\ StoredJobs \subseteq [JobId -> Job]
  /\ \A js \in StoredJobs : \A i \in JobId :
       /\ ~js[i].there => js[i] = NoJob
       /\ js[i].builtin => i \in {BuiltinJob, RetiredJob}
  /\ MaxJobVersion \in Nat /\ MaxRunners \in Nat /\ MaxJobFaults \in Nat /\ MaxFirings \in Nat

VARIABLES
  phase,        \* how far the program has started
  jobs,         \* Manager.jobs
  jobRunner,    \* Manager.runners: a runner's number, or 0
  runner,       \* the goroutines
  usedRunners,  \* the number of runners started
  handled,      \* the keys with a handler
  jobStore,     \* scheduler.json
  jobFaults, firings,
              \* history of the run, read by the properties only
  ackedJobs,  \* the jobs as the API acknowledged them, where it did
  doubtful,   \* those whose change met a save that was cut, since the last complete one
  lastVersion

jobVars == <<phase, jobs, jobRunner, runner, usedRunners, handled, jobStore, jobFaults, firings,
             ackedJobs, doubtful, lastVersion>>

Stored(js) == [st |-> "ok", jobs |-> js]
TornStore == [st |-> "torn", jobs |-> [i \in JobId |-> NoJob]]

IsStarted == phase \notin {"off", "loaded"}

(***************************************************************************)
(* startRunnerLocked and stopRunnerLocked, on the manager's state m        *)
(***************************************************************************)

Current == [jobs |-> jobs, map |-> jobRunner, run |-> runner, used |-> usedRunners]

Stopped(m, i) ==
  IF m.map[i] = 0 THEN m
  ELSE [m EXCEPT !.map[i] = 0, !.run[m.map[i]].cancelled = TRUE]

StartedRunner(m, i) ==
  [m EXCEPT !.map[i] = m.used + 1, !.used = m.used + 1,
            !.run[m.used + 1] = [NoRunner EXCEPT !.job = i, !.ver = m.jobs[i].ver, !.at = "waiting"]]

Restarted(m, i) ==
  IF IsStarted /\ m.jobs[i].enabled THEN StartedRunner(m, i) ELSE m

Putting(m, i, job) == [m EXCEPT !.jobs[i] = job]

\* What Upsert, SetEnabled and RegisterBuiltinJobs do to one job.
Replaced(m, i, job) == Restarted(Stopped(Putting(m, i, job), i), i)

\* Their way back, and that of Delete, when the save failed.
PutBack(m, i, job) == Restarted(Putting(Stopped(m, i), i, job), i)

\* delete(m.jobs, id)
Removed(i) == NoJob

MayStartTwo == usedRunners + 2 <= MaxRunners

CallBecomes(m) ==
  /\ jobs' = m.jobs /\ jobRunner' = m.map /\ runner' = m.run /\ usedRunners' = m.used

(***************************************************************************)
(* storeLocked                                                             *)
(***************************************************************************)

SaveSucceeds(js) == jobStore' = Stored(js) /\ doubtful' = {} /\ UNCHANGED jobFaults

\* scheduler.json is written in place: it may stay, be cut, or be complete.
JobSaveFails(js) ==
  /\ jobFaults < MaxJobFaults /\ jobFaults' = jobFaults + 1
  /\ jobStore' \in {jobStore, TornStore, Stored(js)}
  /\ doubtful' = doubtful \cup {i \in JobId : js[i] # jobs[i]}

(***************************************************************************)
(* The boot: NewManagerWithStore, Start, registerMaintenanceSchedulerJobs  *)
(***************************************************************************)

Load ==
  /\ phase = "off" /\ jobStore.st = "ok"
  /\ phase' = "loaded" /\ jobs' = jobStore.jobs
  /\ UNCHANGED <<jobRunner, runner, usedRunners, handled, jobStore, jobFaults, firings, ackedJobs, doubtful,
                 lastVersion>>

\* Start: one runner for every enabled job.
StartAll ==
  /\ phase = "loaded"
  /\ LET enabled == {i \in JobId : jobs[i].enabled}
     IN /\ Cardinality(enabled) <= MaxRunners
        /\ LET f == CHOOSE f \in [enabled -> 1 .. Cardinality(enabled)] :
                      \A i, k \in enabled : f[i] = f[k] => i = k
           IN /\ jobRunner' = [i \in JobId |-> IF i \in enabled THEN f[i] ELSE 0]
              /\ runner' = [n \in 1 .. MaxRunners |->
                   IF n > Cardinality(enabled) THEN NoRunner
                   ELSE LET i == CHOOSE i \in enabled : f[i] = n
                        IN [NoRunner EXCEPT !.job = i, !.ver = jobs[i].ver, !.at = "waiting"]]
        /\ usedRunners' = Cardinality(enabled)
  /\ phase' = "started"
  /\ UNCHANGED <<jobs, handled, jobStore, jobFaults, firings, ackedJobs, doubtful, lastVersion>>

\* RetireBuiltinJobs; an error is logged.
Retire ==
  /\ phase = "started"
  /\ LET m == IF jobs[RetiredJob].builtin
              THEN Stopped(Putting(Current, RetiredJob, Removed(RetiredJob)), RetiredJob) ELSE Current
     IN CallBecomes(m) /\ (SaveSucceeds(m.jobs) \/ JobSaveFails(m.jobs))
  /\ handled' = handled \ (IF jobs[RetiredJob].builtin THEN {KeyOf[RetiredJob]} ELSE {})
  /\ phase' = "retired"
  /\ UNCHANGED <<firings, ackedJobs, lastVersion>>

RegisterJobHandler ==
  /\ phase = "retired"
  /\ phase' = "handling" /\ handled' = {KeyOf[BuiltinJob]}
  /\ UNCHANGED <<jobs, jobRunner, runner, usedRunners, jobStore, jobFaults, firings, ackedJobs,
                 doubtful, lastVersion>>

\* A job that is there keeps whether it is enabled.
AsRegistered(i) ==
  [ver |-> 0, enabled |-> (jobs[i].there => jobs[i].enabled), builtin |-> TRUE, there |-> TRUE]

UnhandledBuiltin == "retired"
BeforeBuiltin == "handling"

\* RegisterBuiltinJobs: an error is logged and memory stays as it is.
RegisterBuiltin ==
  /\ phase = BeforeBuiltin /\ MayStartTwo
  /\ LET m == Replaced(Current, BuiltinJob, AsRegistered(BuiltinJob))
     IN CallBecomes(m) /\ (SaveSucceeds(m.jobs) \/ JobSaveFails(m.jobs))
  /\ phase' = "serving"
  /\ UNCHANGED <<handled, firings, ackedJobs, lastVersion>>

(***************************************************************************)
(* The API: cronJobItemHandler                                             *)
(***************************************************************************)

Ack(i, job) == ackedJobs' = [ackedJobs EXCEPT ![i] = job]
IsBuiltin(i) == \E k \in JobId : KeyOf[k] = KeyOf[i] /\ jobs[k].there /\ jobs[k].builtin

\* A change of job i: made, saved, and acknowledged or put back.
Change(i, job, m) ==
  /\ phase = "serving" /\ MayStartTwo
  /\ \/ CallBecomes(m) /\ SaveSucceeds(m.jobs) /\ Ack(i, job)
     \/ CallBecomes(PutBack(m, i, jobs[i])) /\ JobSaveFails(m.jobs) /\ UNCHANGED ackedJobs
  /\ UNCHANGED <<phase, handled, firings>>

\* PUT of a job that is not built in: Upsert with a new definition.
Put(i, enabled) ==
  /\ ~IsBuiltin(i) /\ lastVersion < MaxJobVersion
  /\ lastVersion' = lastVersion + 1
  /\ LET job == [ver |-> lastVersion + 1, enabled |-> enabled, builtin |-> FALSE, there |-> TRUE]
     IN Change(i, job, Replaced(Current, i, job))

\* PUT of the built-in job: SetEnabled, which looks for the lower-case id.
SetEnabled(i, enabled) ==
  /\ IsBuiltin(i)
  /\ LET k == KeyOf[i]
         job == [jobs[k] EXCEPT !.enabled = enabled]
     IN /\ jobs[k].there /\ jobs[k].enabled # enabled
        /\ Change(k, job, Replaced(Current, k, job))
  /\ UNCHANGED lastVersion

\* DELETE: Delete, which looks for the lower-case id as well.
DeleteJob(i) ==
  /\ ~IsBuiltin(i)
  /\ LET k == KeyOf[i]
     IN jobs[k].there /\ Change(k, Removed(k), Stopped(Putting(Current, k, Removed(k)), k))
  /\ UNCHANGED lastVersion

(***************************************************************************)
(* The runners                                                             *)
(***************************************************************************)

Runner == 1 .. MaxRunners
RunnerStep(n, r) ==
  /\ runner' = [runner EXCEPT ![n] = r]
  /\ UNCHANGED <<phase, jobs, jobRunner, usedRunners, handled, jobStore, jobFaults, ackedJobs, doubtful,
                 lastVersion>>

\* The timer runs out; that of a cancelled runner's next round does not, for a
\* schedule leaves it at least until the next minute.
TimerRunsOut(n) ==
  /\ runner[n].at = "waiting" /\ ~runner[n].late /\ firings < MaxFirings
  /\ RunnerStep(n, [runner[n] EXCEPT !.at = "ready"]) /\ UNCHANGED firings

AtTimer(n) == runner[n].at = "ready"
AtSelect(n) == runner[n].at \in {"waiting", "ready"}

\* select: with both channels ready either is taken.
RunnerLeaves(n) ==
  /\ runner[n].cancelled /\ AtSelect(n)
  /\ RunnerStep(n, [NoRunner EXCEPT !.at = "ended"]) /\ UNCHANGED firings

\* triggerJob: the handler of the id's key, else a message to the orchestrator.
Route(n) == IF KeyOf[runner[n].job] \in handled THEN "handler" ELSE "prompt"

TriggerJob(n) ==
  /\ runner[n].at = "ready" /\ firings < MaxFirings
  /\ RunnerStep(n, [runner[n] EXCEPT !.at = Route(n)]) /\ firings' = firings + 1

FinishJob(n) ==
  /\ runner[n].at \in {"handler", "prompt"}
  /\ RunnerStep(n, [runner[n] EXCEPT !.at = "waiting", !.late = runner[n].cancelled])
  /\ UNCHANGED firings

\* The process dies, possibly in the middle of a save: of a job whose change was
\* answered with an error, either definition may be in the store.
JobCrash ==
  /\ phase # "off" /\ jobFaults < MaxJobFaults /\ jobFaults' = jobFaults + 1
  /\ phase' = "off" /\ jobs' = [i \in JobId |-> NoJob] /\ handled' = {}
  /\ jobRunner' = [i \in JobId |-> 0] /\ runner' = [n \in Runner |-> NoRunner] /\ usedRunners' = 0
  /\ ackedJobs' = [i \in JobId |-> IF i \in doubtful THEN UnknownJob ELSE ackedJobs[i]]
  /\ doubtful' = {}
  /\ UNCHANGED <<jobStore, firings, lastVersion>>

JobInit ==
  /\ phase = "off" /\ jobs = [i \in JobId |-> NoJob] /\ handled = {}
  /\ jobRunner = [i \in JobId |-> 0] /\ runner = [n \in Runner |-> NoRunner] /\ usedRunners = 0
  /\ \E js \in StoredJobs : jobStore = Stored(js)
  /\ jobFaults = 0 /\ firings = 0 /\ lastVersion = 0
  /\ ackedJobs = [i \in JobId |-> UnknownJob] /\ doubtful = {}

JobNext ==
  \/ Load \/ StartAll \/ Retire \/ RegisterJobHandler \/ RegisterBuiltin \/ JobCrash
  \/ \E i \in JobId :
       \/ \E e \in BOOLEAN : Put(i, e) \/ SetEnabled(i, e)
       \/ DeleteJob(i)
  \/ \E n \in Runner : TimerRunsOut(n) \/ RunnerLeaves(n) \/ TriggerJob(n) \/ FinishJob(n)

\* The Go scheduler runs every goroutine that can run, and a run of a job
\* comes to an end.
JobFairness == \A n \in Runner : WF_jobVars(RunnerLeaves(n)) /\ WF_jobVars(FinishJob(n))

JobSpec == JobInit /\ [][JobNext]_jobVars /\ JobFairness

(***************************************************************************)
(* Properties                                                              *)
(***************************************************************************)

RunnerAlive(n) == runner[n].at \notin {"free", "ended"}

\* Everything has its type.
JobTypeOK ==
  /\ phase \in {"off", "loaded", "started", "retired", "handling", "serving"}
  /\ jobs \in [JobId -> Job] /\ \A i \in JobId : ~jobs[i].there => jobs[i] = NoJob
  /\ jobRunner \in [JobId -> 0 .. MaxRunners]
  /\ runner \in [Runner -> [job : JobId, ver : JobVersion,
                            at : {"free", "waiting", "ready", "handler", "prompt", "ended"},
                            cancelled : BOOLEAN, late : BOOLEAN]]
  /\ usedRunners \in 0 .. MaxRunners /\ handled \subseteq JobId
  /\ jobStore \in [st : {"ok", "torn"}, jobs : [JobId -> Job]]
  /\ jobFaults \in 0 .. MaxJobFaults /\ firings \in 0 .. MaxFirings
  /\ ackedJobs \in [JobId -> Job] /\ doubtful \subseteq JobId
  /\ lastVersion \in JobVersion

\* After every change and every rollback an enabled job has exactly one runner
\* that is not cancelled, with the job's present definition, and a job that is
\* disabled or gone has none.
OneLiveRunner ==
  IsStarted =>
    /\ \A i \in JobId :
         /\ jobRunner[i] # 0 <=> jobs[i].enabled
         /\ jobRunner[i] # 0 =>
              LET r == runner[jobRunner[i]]
              IN RunnerAlive(jobRunner[i]) /\ ~r.cancelled /\ r.job = i /\ r.ver = jobs[i].ver
    /\ \A n \in Runner : RunnerAlive(n) /\ ~runner[n].cancelled => jobRunner[runner[n].job] = n

\* What the API acknowledged, the switch of the built-in job included, is what
\* the program has after any number of restarts and registrations; a change
\* that failed, and was answered so, may come back with a restart.
AckedJobsAreKept ==
  phase = "serving" =>
    \A i \in JobId : ackedJobs[i] # UnknownJob => jobs[i] = ackedJobs[i]

\* The built-in job is run by its handler, never sent to the orchestrator as a
\* prompt, once the program serves; before that, a built-in job that the store
\* still held may be, when its time falls into the start.
BuiltinHasItsHandler ==
  [][\A n \in Runner :
       TriggerJob(n) /\ phase = "serving" /\ jobs[runner[n].job].builtin =>
         runner'[n].at = "handler"]_jobVars

\* Runners that were cancelled, in whatever state, come to their end: when the
\* jobs are not changed any more, none is left.
CancelledRunnersEnd ==
  []<>(\A n \in Runner : runner[n].cancelled => runner[n].at \in {"ended", "free"})

\* A job that was acknowledged is run as it is now, once, by what should run it.
JobsAreRunOnce ==
  BuiltinHasItsHandler /\ []OneLiveRunner /\ []AckedJobsAreKept /\ []JobTypeOK

=============================================================================
