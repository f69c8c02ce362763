---------------------------- MODULE ProcessProofs ----------------------------
(***************************************************************************)
(* The processes that run beside the chat: the runners of the scheduler    *)
(* and the jobs that it acknowledged (JobManager), and the services of a   *)
(* workspace (WorkspaceServices).                                          *)
(*                                                                         *)
(* Every change of a job is made of three moves on the manager's state:    *)
(* a definition is put, the runner of the job is stopped, and another one  *)
(* is started.  Each keeps the runners and the jobs linked; the three      *)
(* together, in the order of the change and in that of its way back, leave *)
(* them in agreement.                                                      *)
(***************************************************************************)
EXTENDS JobManager, WorkspaceServices, FiniteSetTheorems, FunctionTheorems, TLAPS

-----------------------------------------------------------------------------
(* The manager's state *)

RunnerState == [job : JobId, ver : JobVersion,
                at : {"free", "waiting", "ready", "handler", "prompt", "ended"},
                cancelled : BOOLEAN, late : BOOLEAN]

Manager == [jobs : [JobId -> Job], map : [JobId -> 0 .. MaxRunners],
            run : [Runner -> RunnerState], used : 0 .. MaxRunners]

Alive(r) == r.at \notin {"free", "ended"} /\ ~r.cancelled

\* The map and the runners name each other.
Linked(m) ==
  /\ \A n \in Runner : n > m.used => m.run[n] = NoRunner
  /\ \A i \in JobId : m.map[i] <= m.used
  /\ \A i \in JobId : m.map[i] # 0 => Alive(m.run[m.map[i]]) /\ m.run[m.map[i]].job = i
  /\ \A n \in Runner : Alive(m.run[n]) => m.map[m.run[n].job] = n

\* The runner of job i is there when it should be, with the present definition.
Agrees(m, i) ==
  /\ m.map[i] # 0 <=> m.jobs[i].enabled
  /\ m.map[i] # 0 => m.run[m.map[i]].ver = m.jobs[i].ver

GoodManager(m) == m \in Manager /\ Linked(m) /\ \A i \in JobId : Agrees(m, i)

\* What a move on job i does not touch.
OthersAgree(m, z, i) == \A k \in JobId \ {i} : Agrees(m, k) => Agrees(z, k)

LEMMA JobTypes ==
  /\ NoJob \in Job /\ UnknownJob \in Job /\ NoRunner \in RunnerState
  /\ ~Alive(NoRunner) /\ MaxRunners \in Nat /\ NoRunner.job = BuiltinJob
  /\ NoJob # UnknownJob
<1>1. 0 \in JobVersion /\ MaxRunners \in Nat /\ BuiltinJob \in JobId
  BY JobAssumption DEF JobVersion
<1>2. NoJob \in Job /\ UnknownJob \in Job /\ NoJob # UnknownJob
  BY <1>1 DEF NoJob, UnknownJob, Job
<1>3. NoRunner \in RunnerState /\ ~Alive(NoRunner) /\ NoRunner.job = BuiltinJob
  BY <1>1 DEF NoRunner, RunnerState, Alive
<1> QED
  BY <1>1, <1>2, <1>3

\* Putting a definition touches the agreement on that job only.
LEMMA PuttingGood ==
  ASSUME NEW m \in Manager, Linked(m), NEW i \in JobId, NEW job \in Job
  PROVE  LET z == Putting(m, i, job)
         IN  /\ z \in Manager /\ Linked(z) /\ OthersAgree(m, z, i)
             /\ z.jobs = [m.jobs EXCEPT ![i] = job] /\ z.map = m.map /\ z.used = m.used
<1> DEFINE z == Putting(m, i, job)
<1>1. /\ z.jobs = [m.jobs EXCEPT ![i] = job] /\ z.map = m.map /\ z.used = m.used
      /\ z.run = m.run /\ z = [jobs |-> z.jobs, map |-> m.map, run |-> m.run, used |-> m.used]
  BY DEF Putting, Manager
<1>2. z.jobs \in [JobId -> Job] /\ \A k \in JobId \ {i} : z.jobs[k] = m.jobs[k]
  BY <1>1 DEF Manager
<1> HIDE DEF z
<1>3. z \in Manager
  BY <1>1, <1>2 DEF Manager
<1>4. Linked(z)
  BY <1>1 DEF Linked
<1>5. OthersAgree(m, z, i)
  BY <1>1, <1>2 DEF OthersAgree, Agrees
<1> QED
  BY <1>1, <1>3, <1>4, <1>5 DEF z

\* stopRunnerLocked: the job has no runner then, the others keep theirs.
LEMMA StoppedGood ==
  ASSUME NEW m \in Manager, Linked(m), NEW i \in JobId
  PROVE  LET z == Stopped(m, i)
         IN  /\ z \in Manager /\ Linked(z) /\ OthersAgree(m, z, i)
             /\ z.map[i] = 0 /\ z.jobs = m.jobs /\ z.used = m.used
<1> DEFINE z == Stopped(m, i)
           n == m.map[i]
<1>1. CASE n = 0
  <2>1. z = m
    BY <1>1 DEF Stopped
  <2> QED
    BY <1>1, <2>1 DEF OthersAgree
<1>2. CASE n # 0
  <2> DEFINE map == [m.map EXCEPT ![i] = 0]
             run == [m.run EXCEPT ![n] = [@ EXCEPT !.cancelled = TRUE]]
  <2>1. n \in Runner /\ m.map \in [JobId -> 0 .. MaxRunners] /\ m.run \in [Runner -> RunnerState]
        /\ m.run[n] \in RunnerState
    BY <1>2, JobTypes DEF Manager, Runner
  <2>2. z.map = map /\ z.run = run /\ z.jobs = m.jobs /\ z.used = m.used
        /\ z = [jobs |-> m.jobs, map |-> map, run |-> run, used |-> m.used]
    BY <1>2, <2>1 DEF Stopped, Manager
  <2>3. map \in [JobId -> 0 .. MaxRunners] /\ map[i] = 0
        /\ \A k \in JobId \ {i} : map[k] = m.map[k]
    BY <2>1, JobTypes
  <2>4. /\ run \in [Runner -> RunnerState] /\ \A q \in Runner \ {n} : run[q] = m.run[q]
        /\ ~Alive(run[n])
    <3>1. [m.run[n] EXCEPT !.cancelled = TRUE] \in RunnerState
          /\ ~Alive([m.run[n] EXCEPT !.cancelled = TRUE])
      BY <2>1 DEF RunnerState, Alive
    <3> QED
      BY <2>1, <3>1
  <2>5. Alive(m.run[n]) /\ m.run[n].job = i
    BY <1>2 DEF Linked
  <2>6. \A k \in JobId \ {i} : m.map[k] # 0 => m.map[k] \in Runner \ {n}
    BY <2>1, <2>5, JobTypes DEF Linked, Runner, Manager
  <2> HIDE DEF z, map, run
  <2>7. z \in Manager
    BY <2>2, <2>3, <2>4 DEF Manager
  <2>8. OthersAgree(m, z, i)
    BY <2>2, <2>3, <2>4, <2>6 DEF OthersAgree, Agrees
  <2>9. Linked(z)
    <3>1. \A q \in Runner : q > z.used => z.run[q] = NoRunner
      <4>1. n <= m.used /\ m.used \in Nat
        BY JobTypes DEF Linked, Manager
      <4> QED
        BY <2>1, <2>2, <2>4, <4>1 DEF Linked, Runner
    <3>2. \A k \in JobId : z.map[k] <= z.used
      BY <2>2, <2>3, JobTypes DEF Linked, Manager
    <3>3. \A k \in JobId : z.map[k] # 0 => Alive(z.run[z.map[k]]) /\ z.run[z.map[k]].job = k
      BY <2>2, <2>3, <2>4, <2>6 DEF Linked
    <3>4. ASSUME NEW q \in Runner, Alive(z.run[q]) PROVE z.map[z.run[q].job] = q
      <4>1. q # n /\ z.run[q] = m.run[q]
        BY <2>2, <2>4, <3>4
      <4>2. m.map[m.run[q].job] = q /\ m.run[q].job \in JobId
        BY <2>1, <3>4, <4>1 DEF Linked, RunnerState
      <4>3. m.run[q].job # i
        BY <4>1, <4>2
      <4> QED
        BY <2>2, <2>3, <4>1, <4>2, <4>3
    <3> QED
      BY <3>1, <3>2, <3>3, <3>4 DEF Linked
  <2> QED
    BY <2>2, <2>3, <2>7, <2>8, <2>9 DEF z
<1> QED
  BY <1>1, <1>2

\* startRunnerLocked on a job that has no runner.
LEMMA StartedGood ==
  ASSUME NEW m \in Manager, Linked(m), NEW i \in JobId, m.map[i] = 0, m.used < MaxRunners
  PROVE  LET z == StartedRunner(m, i)
         IN  /\ z \in Manager /\ Linked(z) /\ OthersAgree(m, z, i)
             /\ z.map[i] = m.used + 1 /\ z.run[m.used + 1].ver = m.jobs[i].ver
             /\ z.jobs = m.jobs /\ z.used = m.used + 1
<1> DEFINE z == StartedRunner(m, i)
           n == m.used + 1
           new == [NoRunner EXCEPT !.job = i, !.ver = m.jobs[i].ver, !.at = "waiting"]
           map == [m.map EXCEPT ![i] = n]
           run == [m.run EXCEPT ![n] = new]
<1>1. n \in Runner /\ m.used \in Nat /\ m.map \in [JobId -> 0 .. MaxRunners]
      /\ m.run \in [Runner -> RunnerState] /\ m.jobs[i] \in Job
  BY JobTypes DEF Manager, Runner
<1>2. new \in RunnerState /\ Alive(new) /\ new.job = i /\ new.ver = m.jobs[i].ver
  BY <1>1, JobTypes DEF NoRunner, RunnerState, Alive, Job
<1>3. z.map = map /\ z.run = run /\ z.jobs = m.jobs /\ z.used = n
      /\ z = [jobs |-> m.jobs, map |-> map, run |-> run, used |-> n]
  <2>1. \A q, r : [m EXCEPT !.map[i] = q, !.used = q, !.run[q] = r] =
                   [jobs |-> m.jobs, map |-> [m.map EXCEPT ![i] = q],
                    run |-> [m.run EXCEPT ![q] = r], used |-> q]
    <3> TAKE q, r
    <3> DEFINE a == [m EXCEPT !.map[i] = q, !.used = q, !.run[q] = r]
    <3>1. a.jobs = m.jobs /\ a.map = [m.map EXCEPT ![i] = q] /\ a.run = [m.run EXCEPT ![q] = r]
          /\ a.used = q
      BY DEF Manager
    <3>2. a \in [jobs : {a.jobs}, map : {a.map}, run : {a.run}, used : {a.used}]
      BY DEF Manager
    <3> HIDE DEF a
    <3>3. a = [jobs |-> a.jobs, map |-> a.map, run |-> a.run, used |-> a.used]
      BY <3>2
    <3> QED
      BY <3>1, <3>3 DEF a
  <2>2. z = [m EXCEPT !.map[i] = n, !.used = n, !.run[n] = new]
    BY Zenon DEF StartedRunner
  <2>3. z = [jobs |-> m.jobs, map |-> map, run |-> run, used |-> n]
    BY <2>1, <2>2, Zenon
  <2> HIDE DEF map, run, n, z
  <2> QED
    BY <2>3
<1>4. map \in [JobId -> 0 .. MaxRunners] /\ map[i] = n
      /\ \A k \in JobId \ {i} : map[k] = m.map[k]
  BY <1>1, JobTypes DEF Runner
<1> HIDE DEF new, n
<1>5. /\ run \in [Runner -> RunnerState] /\ run[n] = new
      /\ \A q \in Runner \ {n} : run[q] = m.run[q]
  BY <1>1, <1>2
<1> USE DEF n
<1>6. \A k \in JobId : m.map[k] <= m.used /\ m.map[k] \in Nat /\ m.map[k] # n
      /\ (m.map[k] # 0 => m.map[k] \in Runner)
  BY <1>1, JobTypes DEF Linked, Runner
<1> HIDE DEF z, map, run
<1>7. z \in Manager
  BY <1>1, <1>3, <1>4, <1>5, JobTypes DEF Manager, Runner
<1>8. OthersAgree(m, z, i)
  BY <1>3, <1>4, <1>5, <1>6 DEF OthersAgree, Agrees
<1>9. Linked(z)
  <2>1. \A q \in Runner : q > z.used => z.run[q] = NoRunner
    BY <1>1, <1>3, <1>5 DEF Linked, Runner
  <2>2. \A k \in JobId : z.map[k] <= z.used
    BY <1>1, <1>3, <1>4, <1>6
  <2>3. ASSUME NEW k \in JobId, z.map[k] # 0
        PROVE  Alive(z.run[z.map[k]]) /\ z.run[z.map[k]].job = k
    <3>1. CASE k = i
      BY <1>2, <1>3, <1>4, <1>5, <3>1
    <3>2. CASE k # i
      BY <1>3, <1>4, <1>5, <1>6, <2>3, <3>2 DEF Linked
    <3> QED
      BY <3>1, <3>2
  <2>4. ASSUME NEW q \in Runner, Alive(z.run[q]) PROVE z.map[z.run[q].job] = q
    <3>1. CASE q = n
      BY <1>2, <1>3, <1>4, <1>5, <3>1
    <3>2. CASE q # n
      <4>1. m.map[m.run[q].job] = q /\ m.run[q].job \in JobId /\ z.run[q] = m.run[q]
        BY <1>1, <1>3, <1>5, <2>4, <3>2 DEF Linked, RunnerState
      <4>2. m.run[q].job # i
        BY <4>1 DEF Runner
      <4> QED
        BY <1>3, <1>4, <4>1, <4>2
    <3> QED
      BY <3>1, <3>2
  <2> QED
    BY <2>1, <2>2, <2>3, <2>4 DEF Linked
<1> QED
  BY <1>2, <1>3, <1>4, <1>5, <1>7, <1>8, <1>9 DEF z

LEMMA RestartedGood ==
  ASSUME NEW m \in Manager, Linked(m), NEW i \in JobId, m.map[i] = 0, m.used < MaxRunners,
         IsStarted, \A k \in JobId \ {i} : Agrees(m, k)
  PROVE  LET z == Restarted(m, i)
         IN  GoodManager(z) /\ z.jobs = m.jobs /\ z.used \in {m.used, m.used + 1}
<1>1. CASE m.jobs[i].enabled
  <2> DEFINE z == StartedRunner(m, i)
  <2>1. Restarted(m, i) = z
    BY <1>1 DEF Restarted
  <2>2. /\ z \in Manager /\ Linked(z) /\ OthersAgree(m, z, i)
        /\ z.map[i] = m.used + 1 /\ z.run[m.used + 1].ver = m.jobs[i].ver
        /\ z.jobs = m.jobs /\ z.used = m.used + 1
    BY StartedGood
  <2> HIDE DEF z
  <2>3. Agrees(z, i)
    BY <1>1, <2>2, JobTypes DEF Agrees, Manager
  <2> QED
    BY <2>1, <2>2, <2>3 DEF GoodManager, OthersAgree
<1>2. CASE ~m.jobs[i].enabled
  <2>1. Restarted(m, i) = m
    BY <1>2 DEF Restarted
  <2> QED
    BY <1>2, <2>1 DEF GoodManager, Agrees
<1> QED
  BY <1>1, <1>2

\* A change, and its way back, leave the runners in agreement with the jobs.
LEMMA ChangedGood ==
  ASSUME NEW m, GoodManager(m), NEW i \in JobId, NEW job \in Job, m.used < MaxRunners, IsStarted
  PROVE  /\ GoodManager(Replaced(m, i, job)) /\ GoodManager(PutBack(m, i, job))
         /\ Replaced(m, i, job).jobs = [m.jobs EXCEPT ![i] = job]
         /\ PutBack(m, i, job).jobs = [m.jobs EXCEPT ![i] = job]
         /\ Replaced(m, i, job).used \in {m.used, m.used + 1}
<1>1. m \in Manager /\ Linked(m) /\ \A k \in JobId : Agrees(m, k)
  BY DEF GoodManager
<1>2. /\ GoodManager(Replaced(m, i, job)) /\ Replaced(m, i, job).jobs = [m.jobs EXCEPT ![i] = job]
      /\ Replaced(m, i, job).used \in {m.used, m.used + 1}
  <2> DEFINE put == Putting(m, i, job)
             stopped == Stopped(put, i)
  <2>1. /\ put \in Manager /\ Linked(put) /\ OthersAgree(m, put, i)
        /\ put.jobs = [m.jobs EXCEPT ![i] = job] /\ put.used = m.used
    BY <1>1, PuttingGood
  <2> HIDE DEF put
  <2>2. /\ stopped \in Manager /\ Linked(stopped) /\ OthersAgree(put, stopped, i)
        /\ stopped.map[i] = 0 /\ stopped.jobs = put.jobs /\ stopped.used = put.used
    BY <2>1, StoppedGood
  <2>3. Replaced(m, i, job) = Restarted(stopped, i)
    BY DEF Replaced, put
  <2> HIDE DEF stopped
  <2>4. \A k \in JobId \ {i} : Agrees(stopped, k)
    BY <1>1, <2>1, <2>2 DEF OthersAgree
  <2> QED
    BY <2>1, <2>2, <2>3, <2>4, RestartedGood
<1>3. GoodManager(PutBack(m, i, job)) /\ PutBack(m, i, job).jobs = [m.jobs EXCEPT ![i] = job]
  <2> DEFINE stopped == Stopped(m, i)
             put == Putting(stopped, i, job)
  <2>1. /\ stopped \in Manager /\ Linked(stopped) /\ OthersAgree(m, stopped, i)
        /\ stopped.map[i] = 0 /\ stopped.jobs = m.jobs /\ stopped.used = m.used
    BY <1>1, StoppedGood
  <2> HIDE DEF stopped
  <2>2. /\ put \in Manager /\ Linked(put) /\ OthersAgree(stopped, put, i) /\ put.map = stopped.map
        /\ put.jobs = [stopped.jobs EXCEPT ![i] = job] /\ put.used = stopped.used
    BY <2>1, PuttingGood
  <2>3. PutBack(m, i, job) = Restarted(put, i)
    BY DEF PutBack, stopped
  <2> HIDE DEF put
  <2>4. \A k \in JobId \ {i} : Agrees(put, k)
    BY <1>1, <2>1, <2>2 DEF OthersAgree
  <2> QED
    BY <2>1, <2>2, <2>3, <2>4, RestartedGood
<1> QED
  BY <1>2, <1>3

\* A job that goes with its runner.
LEMMA RemovedGood ==
  ASSUME NEW m, GoodManager(m), NEW i \in JobId
  PROVE  LET z == Stopped(Putting(m, i, Removed(i)), i)
         IN  GoodManager(z) /\ z.jobs = [m.jobs EXCEPT ![i] = NoJob] /\ z.used = m.used
<1> DEFINE put == Putting(m, i, Removed(i))
           z == Stopped(put, i)
<1>1. m \in Manager /\ Linked(m) /\ \A k \in JobId : Agrees(m, k)
  BY DEF GoodManager
<1>2. /\ put \in Manager /\ Linked(put) /\ OthersAgree(m, put, i)
      /\ put.jobs = [m.jobs EXCEPT ![i] = NoJob] /\ put.used = m.used
  BY <1>1, PuttingGood, JobTypes DEF Removed
<1> HIDE DEF put
<1>3. /\ z \in Manager /\ Linked(z) /\ OthersAgree(put, z, i)
      /\ z.map[i] = 0 /\ z.jobs = put.jobs /\ z.used = put.used
  BY <1>2, StoppedGood
<1> HIDE DEF z
<1>4. ~z.jobs[i].enabled
  BY <1>1, <1>2, <1>3 DEF Manager, NoJob
<1>5. \A k \in JobId : Agrees(z, k)
  BY <1>1, <1>2, <1>3, <1>4 DEF Agrees, OthersAgree
<1> QED
  BY <1>2, <1>3, <1>5 DEF GoodManager, z, put

-----------------------------------------------------------------------------
(* The inductive invariant *)

Serves == phase \in {"handling", "serving"}

\* The runners and the jobs: before the start there is no runner at all.
RunnersInv ==
  /\ Current \in Manager /\ Linked(Current)
  /\ IsStarted => \A i \in JobId : Agrees(Current, i)
  /\ ~IsStarted => usedRunners = 0 /\ \A i \in JobId : jobRunner[i] = 0

\* A built-in job has the name of one, and no other job is acknowledged as one.
BuiltinInv ==
  /\ \A i \in JobId : jobs[i].builtin \/ jobStore.jobs[i].builtin => i \in {BuiltinJob, RetiredJob}
  /\ Serves \/ phase = "retired" => \A i \in JobId : jobs[i].builtin => i = BuiltinJob
  /\ phase = "serving" => LET j == jobs[BuiltinJob] IN j.there /\ j.builtin /\ j.ver = 0
  /\ Serves => handled = {BuiltinJob}
  /\ \A i \in JobId : ackedJobs[i] # UnknownJob =>
       /\ ackedJobs[i].builtin <=> i = BuiltinJob
       /\ i = BuiltinJob => ackedJobs[i].there /\ ackedJobs[i].ver = 0

\* The store, where it is whole, has the acknowledged jobs that no cut save
\* made doubtful, and so has the program that has loaded it.
AckedInv ==
  /\ \A i \in JobId : ~jobStore.jobs[i].there => jobStore.jobs[i] = NoJob
  /\ jobStore.st = "ok" =>
       \A i \in JobId \ doubtful : ackedJobs[i] # UnknownJob => jobStore.jobs[i] = ackedJobs[i]
  /\ phase # "off" => \A i \in JobId : ackedJobs[i] # UnknownJob => jobs[i] = ackedJobs[i]
  /\ phase \in {"off", "loaded", "started"} => doubtful = {}

JobInv == JobTypeOK /\ RunnersInv /\ BuiltinInv /\ AckedInv

LEMMA JobInitInv == JobInit => JobInv
<1> SUFFICES ASSUME JobInit PROVE JobInv
  OBVIOUS
<1>1. PICK js \in StoredJobs : jobStore = Stored(js)
  BY DEF JobInit
<1>2. js \in [JobId -> Job] /\ \A i \in JobId : (~js[i].there => js[i] = NoJob)
      /\ (js[i].builtin => i \in {BuiltinJob, RetiredJob})
  BY JobAssumption
<1>3. jobStore.st = "ok" /\ jobStore.jobs = js
      /\ jobStore \in [st : {"ok", "torn"}, jobs : [JobId -> Job]]
  BY <1>1, <1>2 DEF Stored
<1>4. ~NoJob.there /\ ~NoJob.builtin /\ ~NoJob.enabled
  BY DEF NoJob
<1>5. JobTypeOK
  BY <1>3, JobTypes, JobAssumption DEF JobInit, JobTypeOK, RunnerState, JobVersion
<1>6. RunnersInv
  <2>1. Current \in Manager
    BY JobTypes DEF JobInit, Current, Manager
  <2>2. Linked(Current)
    BY JobTypes DEF JobInit, Current, Linked, Runner
  <2> QED
    BY <2>1, <2>2 DEF RunnersInv, JobInit, IsStarted
<1>7. BuiltinInv
  BY <1>2, <1>3, <1>4 DEF JobInit, BuiltinInv, Serves
<1>8. AckedInv
  BY <1>2, <1>3 DEF JobInit, AckedInv
<1> QED
  BY <1>5, <1>6, <1>7, <1>8 DEF JobInv

-----------------------------------------------------------------------------
(* The runners' own steps *)

\* A runner that stays what it is to the manager changes nothing there.
LEMMA RunnerStepInv ==
  ASSUME JobInv, NEW n \in Runner, NEW r \in RunnerState, RunnerStep(n, r),
         firings' \in 0 .. MaxFirings, runner[n].at # "free",
         Alive(r) <=> Alive(runner[n]),
         Alive(r) => r.job = runner[n].job /\ r.ver = runner[n].ver
  PROVE  JobInv'
<1>1. runner \in [Runner -> RunnerState] /\ Current \in Manager /\ Linked(Current)
  BY DEF JobInv, JobTypeOK, RunnersInv, RunnerState
<1>2. /\ runner' \in [Runner -> RunnerState] /\ runner'[n] = r
      /\ \A q \in Runner \ {n} : runner'[q] = runner[q]
  BY <1>1 DEF RunnerStep
<1>3. JobTypeOK'
  BY <1>2 DEF RunnerStep, JobInv, JobTypeOK, RunnerState
<1>4. RunnersInv'
  <2>1. /\ Current.jobs = jobs /\ Current.map = jobRunner
        /\ Current.run = runner /\ Current.used = usedRunners
    BY DEF Current
  <2>2. /\ Current'.jobs = jobs /\ Current'.map = jobRunner
        /\ Current'.run = runner' /\ Current'.used = usedRunners
    BY DEF Current, RunnerStep
  <2>3. /\ jobs \in [JobId -> Job] /\ jobRunner \in [JobId -> 0 .. MaxRunners]
        /\ usedRunners \in 0 .. MaxRunners
    BY <1>1, <2>1 DEF Manager
  <2>4. Current' \in Manager
    BY <1>2, <2>3 DEF Current, RunnerStep, Manager
  <2>5. \A i \in JobId : jobRunner[i] = 0 \/ jobRunner[i] \in Runner
    BY <2>3, JobTypes DEF Runner
  <2>6. \A i \in JobId : jobRunner[i] = n => Alive(runner[n])
    BY <1>1, <2>1, <2>5, JobTypes DEF Linked, Runner
  <2>7. Linked(Current')
    <3>1. \A q \in Runner : q > usedRunners => runner'[q] = NoRunner
      BY <1>1, <1>2, <2>1 DEF Linked, NoRunner
    <3>2. \A i \in JobId : jobRunner[i] # 0 =>
            Alive(runner'[jobRunner[i]]) /\ runner'[jobRunner[i]].job = i
      BY <1>1, <1>2, <2>1, <2>5, <2>6 DEF Linked
    <3>3. \A q \in Runner : Alive(runner'[q]) => jobRunner[runner'[q].job] = q
      BY <1>1, <1>2, <2>1 DEF Linked
    <3>4. \A i \in JobId : jobRunner[i] <= usedRunners
      BY <1>1, <2>1 DEF Linked
    <3> HIDE DEF Current
    <3> QED
      BY <2>2, <3>1, <3>2, <3>3, <3>4 DEF Linked
  <2>8. ASSUME NEW i \in JobId, Agrees(Current, i) PROVE Agrees(Current', i)
    <3>1. jobRunner[i] # 0 => runner'[jobRunner[i]].ver = runner[jobRunner[i]].ver
      BY <1>2, <2>5, <2>6
    <3> QED
      BY <2>1, <2>2, <2>8, <3>1 DEF Agrees
  <2>9. (phase' = phase) /\ (usedRunners' = usedRunners) /\ (jobRunner' = jobRunner)
    BY DEF RunnerStep
  <2>10. /\ IsStarted' => \A i \in JobId : Agrees(Current', i)
         /\ ~IsStarted' => usedRunners' = 0 /\ \A i \in JobId : jobRunner'[i] = 0
    BY <2>8, <2>9 DEF JobInv, RunnersInv, IsStarted
  <2> QED
    BY <2>4, <2>7, <2>10 DEF RunnersInv, Linked, Agrees, Manager
<1>5. BuiltinInv' /\ AckedInv'
  BY DEF RunnerStep, JobInv, BuiltinInv, AckedInv, Serves
<1> QED
  BY <1>3, <1>4, <1>5 DEF JobInv

LEMMA RunnerInv ==
  ASSUME JobInv, NEW n \in Runner,
         TimerRunsOut(n) \/ RunnerLeaves(n) \/ TriggerJob(n) \/ FinishJob(n)
  PROVE  JobInv'
<1> DEFINE old == runner[n]
<1>1. old \in RunnerState /\ firings \in 0 .. MaxFirings
  BY DEF JobInv, JobTypeOK, RunnerState
<1>2. CASE TimerRunsOut(n)
  <2> DEFINE r == [old EXCEPT !.at = "ready"]
  <2>1. r \in RunnerState /\ Alive(r) <=> Alive(old)
    BY <1>1, <1>2 DEF RunnerState, Alive, TimerRunsOut
  <2>2. r \in RunnerState /\ r.job = old.job /\ r.ver = old.ver
    BY <1>1 DEF RunnerState
  <2>3. RunnerStep(n, r) /\ firings' = firings /\ old.at # "free"
    BY <1>2 DEF TimerRunsOut
  <2> HIDE DEF r
  <2> QED
    BY <1>1, <2>1, <2>2, <2>3, RunnerStepInv
<1>3. CASE RunnerLeaves(n)
  <2> DEFINE r == [NoRunner EXCEPT !.at = "ended"]
  <2>1. r \in RunnerState /\ ~Alive(r)
    BY JobTypes DEF RunnerState, Alive, NoRunner
  <2>2. RunnerStep(n, r) /\ firings' = firings /\ old.at # "free" /\ ~Alive(old)
    BY <1>3 DEF RunnerLeaves, AtSelect, Alive
  <2> HIDE DEF r
  <2> QED
    BY <1>1, <2>1, <2>2, RunnerStepInv
<1>4. CASE TriggerJob(n)
  <2> DEFINE r == [old EXCEPT !.at = Route(n)]
  <2>1. Route(n) \in {"handler", "prompt"}
    BY DEF Route
  <2>2. r \in RunnerState /\ r.job = old.job /\ r.ver = old.ver /\ r.cancelled = old.cancelled
        /\ r.at = Route(n)
    BY <1>1, <2>1 DEF RunnerState
  <2>3. RunnerStep(n, r) /\ firings' = firings + 1 /\ old.at = "ready" /\ firings < MaxFirings
    BY <1>4 DEF TriggerJob
  <2>4. firings' \in 0 .. MaxFirings
    BY <1>1, <2>3, JobAssumption
  <2> HIDE DEF r
  <2>5. Alive(r) <=> Alive(old)
    BY <2>1, <2>2, <2>3 DEF Alive
  <2> QED
    BY <2>2, <2>3, <2>4, <2>5, RunnerStepInv
<1>5. CASE FinishJob(n)
  <2> DEFINE r == [old EXCEPT !.at = "waiting", !.late = old.cancelled]
  <2>1. r \in RunnerState /\ r.job = old.job /\ r.ver = old.ver /\ r.cancelled = old.cancelled
        /\ r.at = "waiting"
    BY <1>1 DEF RunnerState
  <2>2. RunnerStep(n, r) /\ firings' = firings /\ old.at \in {"handler", "prompt"}
    BY <1>5 DEF FinishJob
  <2> HIDE DEF r
  <2>3. Alive(r) <=> Alive(old)
    BY <2>1, <2>2 DEF Alive
  <2> QED
    BY <1>1, <2>1, <2>2, <2>3, RunnerStepInv
<1> QED
  BY <1>2, <1>3, <1>4, <1>5

-----------------------------------------------------------------------------
(* The boot *)

LEMMA LoadInv == ASSUME JobInv, Load PROVE JobInv'
<1>1. /\ jobs' = jobStore.jobs /\ phase = "off" /\ phase' = "loaded" /\ jobStore.st = "ok"
      /\ jobStore \in [st : {"ok", "torn"}, jobs : [JobId -> Job]]
      /\ UNCHANGED <<jobRunner, runner, usedRunners, handled, jobStore, jobFaults, firings,
                     ackedJobs, doubtful, lastVersion>>
  BY DEF Load, JobInv, JobTypeOK
<1>2. JobTypeOK'
  BY <1>1 DEF JobInv, JobTypeOK, AckedInv
<1>3. RunnersInv'
  <2>1. Current' = [Current EXCEPT !.jobs = jobStore.jobs]
    BY <1>1 DEF Current
  <2>2. Current' \in Manager
    BY <1>1, <2>1 DEF JobInv, RunnersInv, Manager
  <2>3. Linked(Current)'
    BY <1>1 DEF JobInv, RunnersInv, Linked, Current
  <2>4. ~IsStarted /\ ~IsStarted'
    BY <1>1 DEF IsStarted
  <2> QED
    BY <1>1, <2>2, <2>3, <2>4 DEF JobInv, RunnersInv, Manager
<1>4. BuiltinInv'
  BY <1>1 DEF JobInv, BuiltinInv, Serves
<1>5. AckedInv'
  BY <1>1 DEF JobInv, AckedInv
<1> QED
  BY <1>2, <1>3, <1>4, <1>5 DEF JobInv

\* A numbering of a finite set from one, which is a bijection as its values go
\* no further than the number of its members.
LEMMA Numbering ==
  ASSUME NEW S, IsFiniteSet(S)
  PROVE  LET c == Cardinality(S)
             f == CHOOSE f \in [S -> 1 .. c] : \A i, k \in S : f[i] = f[k] => i = k
         IN  /\ c \in Nat /\ f \in [S -> 1 .. c]
             /\ \A i, k \in S : f[i] = f[k] => i = k
             /\ \A n \in 1 .. c : \E i \in S : f[i] = n
<1> DEFINE c == Cardinality(S)
           f == CHOOSE f \in [S -> 1 .. c] : \A i, k \in S : f[i] = f[k] => i = k
<1>1. c \in Nat /\ ExistsBijection(S, 1 .. c)
  BY FS_CardinalityType, Fun_ExistsBijSymmetric
<1>2. PICK g \in Bijection(S, 1 .. c) : TRUE
  BY <1>1, Fun_ExistsBij
<1>3. g \in [S -> 1 .. c] /\ \A i, k \in S : g[i] = g[k] => i = k
  BY Fun_BijectionProperties
<1>4. f \in [S -> 1 .. c] /\ \A i, k \in S : f[i] = f[k] => i = k
  BY <1>3
<1>5. IsFiniteSet(1 .. c) /\ Cardinality(1 .. c) = c
  BY <1>1, FS_Interval
<1> HIDE DEF f
<1>6. f \in Injection(S, 1 .. c)
  BY <1>4 DEF Injection, IsInjective
<1>7. f \in Surjection(S, 1 .. c)
  BY <1>5, <1>6, FS_Injection
<1>8. \A n \in 1 .. c : \E i \in S : f[i] = n
  BY <1>7 DEF Surjection
<1> QED
  BY <1>1, <1>4, <1>8 DEF f

\* Start: the enabled jobs and the runners that are used number each other.
LEMMA StartAllInv == ASSUME JobInv, StartAll PROVE JobInv'
<1> DEFINE S == {i \in JobId : jobs[i].enabled}
           c == Cardinality(S)
           f == CHOOSE f \in [S -> 1 .. c] : \A i, k \in S : f[i] = f[k] => i = k
           New(i) == [NoRunner EXCEPT !.job = i, !.ver = jobs[i].ver, !.at = "waiting"]
           map == [i \in JobId |-> IF i \in S THEN f[i] ELSE 0]
           run == [n \in 1 .. MaxRunners |->
                     IF n > c THEN NoRunner ELSE New(CHOOSE i \in S : f[i] = n)]
<1>1. /\ phase = "loaded" /\ phase' = "started" /\ c <= MaxRunners
      /\ jobRunner' = map /\ runner' = run /\ usedRunners' = c
      /\ UNCHANGED <<jobs, handled, jobStore, jobFaults, firings, ackedJobs, doubtful, lastVersion>>
  BY DEF StartAll
<1>2. IsFiniteSet(S)
  BY JobAssumption, FS_Subset
<1>3. /\ c \in Nat /\ f \in [S -> 1 .. c] /\ \A i, k \in S : f[i] = f[k] => i = k
      /\ \A n \in 1 .. c : \E i \in S : f[i] = n
  BY <1>2, Numbering
<1>4. jobs \in [JobId -> Job] /\ S \subseteq JobId /\ \A i \in JobId : i \in S <=> jobs[i].enabled
  BY DEF JobInv, JobTypeOK
<1>5. ASSUME NEW i \in JobId
      PROVE  New(i) \in RunnerState /\ Alive(New(i)) /\ New(i).job = i /\ New(i).ver = jobs[i].ver
  <2>1. jobs[i].ver \in JobVersion
    BY <1>4 DEF Job
  <2> QED
    BY <2>1, JobTypes DEF NoRunner, RunnerState, Alive
<1> HIDE DEF New, S, c, f
<1>6. \A i \in S : map[i] = f[i] /\ f[i] \in 1 .. c /\ f[i] \in Runner
  BY <1>1, <1>3, <1>4, JobTypes DEF Runner
<1>7. \A i \in JobId \ S : map[i] = 0
  OBVIOUS
<1>8. ASSUME NEW n \in Runner
      PROVE  \/ n > c /\ run[n] = NoRunner
             \/ n \in 1 .. c /\ \E i \in S : run[n] = New(i) /\ f[i] = n
  <2>1. CASE n > c
    BY <2>1 DEF Runner
  <2>2. CASE ~(n > c)
    <3>1. n \in 1 .. c
      BY <1>3, <2>2, JobTypes DEF Runner
    <3>2. \E i \in S : f[i] = n
      BY <1>3, <3>1
    <3>3. run[n] = New(CHOOSE i \in S : f[i] = n)
      BY <2>2 DEF Runner
    <3> QED
      BY <3>1, <3>2, <3>3
  <2> QED
    BY <2>1, <2>2
<1> HIDE DEF run, map
<1>9. \A i \in S : run[f[i]] = New(i)
  BY <1>3, <1>6, <1>8, JobTypes
<1>10. map \in [JobId -> 0 .. MaxRunners] /\ run \in [Runner -> RunnerState] /\ c \in 0 .. MaxRunners
  <2>1. ASSUME NEW n \in Runner PROVE run[n] \in RunnerState
    <3>1. CASE run[n] = NoRunner
      BY <3>1, JobTypes
    <3>2. CASE \E i \in S : run[n] = New(i)
      BY <1>4, <1>5, <3>2
    <3>3. run[n] = NoRunner \/ \E i \in S : run[n] = New(i)
      BY <1>8, Zenon
    <3> QED
      BY <3>1, <3>2, <3>3
  <2>2. \A i \in JobId : map[i] \in 0 .. MaxRunners
    BY <1>1, <1>3, <1>6, <1>7, JobTypes DEF Runner
  <2>3. run = [n \in Runner |-> run[n]] /\ map = [i \in JobId |-> map[i]]
    BY DEF run, map, Runner
  <2>4. c \in 0 .. MaxRunners
    BY <1>1, <1>3, JobTypes
  <2> QED
    BY <2>1, <2>2, <2>3, <2>4
<1>11. JobTypeOK'
  BY <1>1, <1>10 DEF JobInv, JobTypeOK, RunnerState
<1>12. Current' = [jobs |-> jobs, map |-> map, run |-> run, used |-> c]
  BY <1>1 DEF Current
<1>13. (Current \in Manager)'
  BY <1>4, <1>10, <1>12 DEF Manager
<1>14. Linked(Current')
  <2> DEFINE m == [jobs |-> jobs, map |-> map, run |-> run, used |-> c]
  <2>1. \A n \in Runner : n > c => run[n] = NoRunner
    BY <1>3, <1>8 DEF Runner
  <2>2. \A i \in JobId : map[i] <= c
    BY <1>3, <1>6, <1>7
  <2>3. \A i \in JobId : map[i] # 0 => Alive(run[map[i]]) /\ run[map[i]].job = i
    BY <1>5, <1>6, <1>7, <1>9
  <2>4. \A n \in Runner : Alive(run[n]) => map[run[n].job] = n
    <3> SUFFICES ASSUME NEW n \in Runner, Alive(run[n]) PROVE map[run[n].job] = n
      OBVIOUS
    <3>1. PICK i \in S : run[n] = New(i) /\ f[i] = n
      BY <1>8, JobTypes
    <3> QED
      BY <1>4, <1>5, <1>6, <3>1
  <2> QED
    BY <1>12, <2>1, <2>2, <2>3, <2>4 DEF Linked
<1>15. \A i \in JobId : Agrees(Current', i)
  <2>1. \A i \in S : map[i] # 0
    BY <1>6, JobTypes DEF Runner
  <2> QED
    BY <1>4, <1>5, <1>6, <1>7, <1>9, <1>12, <2>1 DEF Agrees
<1>16. RunnersInv'
  BY <1>1, <1>13, <1>14, <1>15 DEF RunnersInv, IsStarted, Agrees, Linked
<1>17. BuiltinInv' /\ AckedInv'
  BY <1>1 DEF JobInv, BuiltinInv, AckedInv, Serves
<1> QED
  BY <1>11, <1>16, <1>17 DEF JobInv

LEMMA HandlerInv == ASSUME JobInv, RegisterJobHandler PROVE JobInv'
<1>1. /\ phase = "retired" /\ phase' = "handling" /\ handled' = {BuiltinJob}
      /\ UNCHANGED <<jobs, jobRunner, runner, usedRunners, jobStore, jobFaults, firings, ackedJobs,
                     doubtful, lastVersion>>
  BY JobAssumption DEF RegisterJobHandler
<1>2. JobTypeOK'
  BY <1>1, JobTypes, JobAssumption DEF JobInv, JobTypeOK
<1>3. RunnersInv'
  BY <1>1 DEF JobInv, RunnersInv, Linked, Agrees, Current, IsStarted
<1>4. BuiltinInv' /\ AckedInv'
  BY <1>1 DEF JobInv, BuiltinInv, AckedInv, Serves
<1> QED
  BY <1>2, <1>3, <1>4 DEF JobInv

LEMMA JobCrashInv == ASSUME JobInv, JobCrash PROVE JobInv'
<1>1. /\ phase' = "off" /\ jobs' = [i \in JobId |-> NoJob] /\ handled' = {}
      /\ jobRunner' = [i \in JobId |-> 0] /\ runner' = [n \in Runner |-> NoRunner] /\ usedRunners' = 0
      /\ jobFaults < MaxJobFaults /\ jobFaults' = jobFaults + 1 /\ doubtful' = {}
      /\ \A i \in JobId : ackedJobs'[i] = IF i \in doubtful THEN UnknownJob ELSE ackedJobs[i]
      /\ UNCHANGED <<jobStore, firings, lastVersion>>
  BY DEF JobCrash
<1>2. ackedJobs' \in [JobId -> Job]
  BY JobTypes DEF JobCrash, JobInv, JobTypeOK
<1>3. ~NoJob.there /\ ~NoJob.builtin /\ ~NoJob.enabled
  BY DEF NoJob
<1>4. JobTypeOK'
  <2>1. jobFaults' \in 0 .. MaxJobFaults
    BY <1>1, JobAssumption DEF JobInv, JobTypeOK
  <2>2. runner' \in [Runner -> RunnerState]
    BY <1>1, JobTypes
  <2> QED
    BY <1>1, <1>2, <2>1, <2>2, JobTypes DEF JobInv, JobTypeOK, RunnerState
<1>5. RunnersInv'
  <2>1. (Current \in Manager)'
    BY <1>1, JobTypes DEF Current, Manager
  <2>2. Linked(Current)'
    BY <1>1, JobTypes DEF Linked, Current, Runner
  <2> QED
    BY <1>1, <2>1, <2>2 DEF RunnersInv, IsStarted
<1>6. BuiltinInv'
  BY <1>1, <1>3 DEF JobInv, BuiltinInv, Serves
<1>7. AckedInv'
  BY <1>1 DEF JobInv, AckedInv
<1> QED
  BY <1>4, <1>5, <1>6, <1>7 DEF JobInv

-----------------------------------------------------------------------------
(* Changes and saves *)

\* A manager's state in agreement is what the program has after the call.
LEMMA CallRunners ==
  ASSUME NEW m, GoodManager(m), CallBecomes(m), IsStarted'
  PROVE  /\ RunnersInv' /\ jobs' = m.jobs
         /\ jobs' \in [JobId -> Job] /\ jobRunner' \in [JobId -> 0 .. MaxRunners]
         /\ runner' \in [Runner -> RunnerState] /\ usedRunners' \in 0 .. MaxRunners
<1>1. m \in Manager /\ Linked(m) /\ \A i \in JobId : Agrees(m, i)
  BY DEF GoodManager
<1>2. Current' = m
  <2>1. Current' = [jobs |-> m.jobs, map |-> m.map, run |-> m.run, used |-> m.used]
    BY DEF Current, CallBecomes
  <2> QED
    BY <1>1, <2>1 DEF Manager
<1>3. (Current \in Manager)' /\ Linked(Current)' /\ (\A i \in JobId : Agrees(Current, i))'
  <2> HIDE DEF Current
  <2> QED
    BY <1>1, <1>2 DEF Manager, Linked, Agrees
<1>4. RunnersInv'
  BY <1>3 DEF RunnersInv
<1> QED
  BY <1>1, <1>4 DEF CallBecomes, Manager

\* What a save leaves in the store, whole or cut.
StoreInv ==
  /\ jobStore \in [st : {"ok", "torn"}, jobs : [JobId -> Job]]
  /\ jobFaults \in 0 .. MaxJobFaults /\ doubtful \subseteq JobId
  /\ \A i \in JobId : /\ ~jobStore.jobs[i].there => jobStore.jobs[i] = NoJob
                      /\ jobStore.jobs[i].builtin => i \in {BuiltinJob, RetiredJob}
  /\ jobStore.st = "ok" =>
       \A i \in JobId \ doubtful : ackedJobs[i] # UnknownJob => jobStore.jobs[i] = ackedJobs[i]

\* Definitions as the program may save them.
Sound(js) ==
  /\ js \in [JobId -> Job]
  /\ \A i \in JobId : /\ ~js[i].there => js[i] = NoJob
                      /\ js[i].builtin => i \in {BuiltinJob, RetiredJob}

LEMMA SavedInv ==
  ASSUME JobInv, NEW js, Sound(js), SaveSucceeds(js),
         \A i \in JobId : ackedJobs'[i] # UnknownJob => js[i] = ackedJobs'[i]
  PROVE  StoreInv'
<1>1. jobStore' = [st |-> "ok", jobs |-> js] /\ doubtful' = {} /\ jobFaults' = jobFaults
  BY DEF SaveSucceeds, Stored
<1>2. jobStore' \in [st : {"ok", "torn"}, jobs : [JobId -> Job]]
      /\ jobStore'.jobs = js /\ jobStore'.st = "ok"
  BY <1>1 DEF Sound
<1> QED
  BY <1>1, <1>2 DEF StoreInv, Sound, JobInv, JobTypeOK

\* A save that is cut leaves the old store, no store, or the new one: the jobs
\* that differ between the old and the new are doubtful from now on.
LEMMA CutInv ==
  ASSUME JobInv, phase # "off", NEW js, Sound(js), JobSaveFails(js), ackedJobs' = ackedJobs
  PROVE  StoreInv'
<1>1. /\ jobFaults < MaxJobFaults /\ jobFaults' = jobFaults + 1
      /\ jobStore' \in {jobStore, TornStore, Stored(js)}
      /\ doubtful' = doubtful \cup {i \in JobId : js[i] # jobs[i]}
  BY DEF JobSaveFails
<1>2. jobFaults' \in 0 .. MaxJobFaults /\ doubtful' \subseteq JobId
  BY <1>1, JobAssumption DEF JobInv, JobTypeOK
<1>3. CASE jobStore' = jobStore
  BY <1>1, <1>2, <1>3 DEF StoreInv, JobInv, JobTypeOK, AckedInv, BuiltinInv
<1>4. CASE jobStore' = TornStore
  <2>1. jobStore'.st = "torn" /\ (\A i \in JobId : jobStore'.jobs[i] = NoJob)
        /\ jobStore' \in [st : {"ok", "torn"}, jobs : [JobId -> Job]]
    BY <1>4, JobTypes DEF TornStore
  <2>2. ~NoJob.builtin
    BY DEF NoJob
  <2> QED
    BY <1>2, <2>1, <2>2 DEF StoreInv
<1>5. CASE jobStore' = Stored(js)
  <2>1. jobStore'.jobs = js /\ jobStore' \in [st : {"ok", "torn"}, jobs : [JobId -> Job]]
    BY <1>5 DEF Stored, Sound
  <2>2. \A i \in JobId \ doubtful' : ackedJobs[i] # UnknownJob => js[i] = ackedJobs[i]
    BY <1>1 DEF JobInv, AckedInv
  <2> QED
    BY <1>2, <2>1, <2>2 DEF StoreInv, Sound
<1> QED
  BY <1>1, <1>3, <1>4, <1>5

\* The invariant after a call, put together from the runners, the jobs and the store.
LEMMA CalledInv ==
  ASSUME JobInv, NEW m, GoodManager(m), CallBecomes(m), IsStarted', StoreInv', Sound(m.jobs),
         phase' \in {"retired", "serving"}, handled' \subseteq JobId,
         phase' = "serving" => handled' = {BuiltinJob},
         firings' = firings, lastVersion' \in JobVersion,
         \A i \in JobId : m.jobs[i].builtin => i = BuiltinJob,
         phase' = "serving" =>
           LET j == m.jobs[BuiltinJob] IN j.there /\ j.builtin /\ j.ver = 0,
         ackedJobs' \in [JobId -> Job],
         \A i \in JobId : ackedJobs'[i] # UnknownJob =>
           /\ m.jobs[i] = ackedJobs'[i]
           /\ ackedJobs'[i].builtin <=> i = BuiltinJob
           /\ i = BuiltinJob => ackedJobs'[i].there /\ ackedJobs'[i].ver = 0
  PROVE  JobInv'
<1>1. /\ RunnersInv' /\ jobs' = m.jobs
      /\ jobs' \in [JobId -> Job] /\ jobRunner' \in [JobId -> 0 .. MaxRunners]
      /\ runner' \in [Runner -> RunnerState] /\ usedRunners' \in 0 .. MaxRunners
  BY CallRunners
<1>2. JobTypeOK'
  BY <1>1 DEF JobTypeOK, JobInv, StoreInv, Sound, RunnerState
<1>3. BuiltinInv'
  BY <1>1 DEF BuiltinInv, StoreInv, Sound, Serves
<1>4. AckedInv'
  BY <1>1 DEF AckedInv, StoreInv, Sound
<1> QED
  BY <1>1, <1>2, <1>3, <1>4 DEF JobInv

LEMMA CurrentGood ==
  ASSUME JobInv, IsStarted
  PROVE  /\ GoodManager(Current) /\ Current.jobs = jobs /\ Current.used = usedRunners
         /\ usedRunners \in Nat /\ jobs \in [JobId -> Job] /\ Sound(jobs)
BY JobTypes DEF JobInv, RunnersInv, GoodManager, Current, JobTypeOK, BuiltinInv, Sound

LEMMA ReplacedGood ==
  ASSUME JobInv, IsStarted, usedRunners + 2 <= MaxRunners, NEW i \in JobId, NEW job \in Job
  PROVE  LET m == Replaced(Current, i, job)
         IN  /\ GoodManager(m) /\ m.jobs = [jobs EXCEPT ![i] = job]
             /\ m.used \in {usedRunners, usedRunners + 1}
<1>1. GoodManager(Current) /\ Current.jobs = jobs /\ Current.used = usedRunners /\ usedRunners \in Nat
  BY CurrentGood
<1>2. Current.used < MaxRunners
  BY <1>1, JobAssumption
<1> QED
  BY <1>1, <1>2, ChangedGood

LEMMA RetireInv == ASSUME JobInv, Retire PROVE JobInv'
<1> DEFINE m == IF jobs[RetiredJob].builtin
                THEN Stopped(Putting(Current, RetiredJob, Removed(RetiredJob)), RetiredJob)
                ELSE Current
<1>1. /\ phase = "started" /\ phase' = "retired" /\ CallBecomes(m)
      /\ SaveSucceeds(m.jobs) \/ JobSaveFails(m.jobs)
      /\ handled' \subseteq handled
      /\ UNCHANGED <<firings, ackedJobs, lastVersion>>
  BY DEF Retire
<1>2. IsStarted /\ IsStarted' /\ RetiredJob \in JobId
  BY <1>1, JobAssumption DEF IsStarted
<1>3. /\ GoodManager(Current) /\ Current.jobs = jobs /\ jobs \in [JobId -> Job] /\ Sound(jobs)
  BY <1>2, CurrentGood
<1>4. /\ GoodManager(m)
      /\ m.jobs = IF jobs[RetiredJob].builtin THEN [jobs EXCEPT ![RetiredJob] = NoJob] ELSE jobs
  BY <1>2, <1>3, RemovedGood
<1> HIDE DEF m
<1>5. /\ ~NoJob.builtin /\ NoJob \in Job
      /\ \A i \in JobId : \/ m.jobs[i] = jobs[i] /\ ~(i = RetiredJob /\ jobs[i].builtin)
                          \/ i = RetiredJob /\ jobs[i].builtin /\ m.jobs[i] = NoJob
  BY <1>2, <1>3, <1>4, JobTypes DEF NoJob
<1>6. Sound(m.jobs) /\ \A i \in JobId : m.jobs[i].builtin => i = BuiltinJob
  <2>1. m.jobs \in [JobId -> Job]
    BY <1>3, <1>4, <1>5
  <2> QED
    BY <1>3, <1>5, <2>1 DEF Sound
<1>7. \A i \in JobId : ackedJobs[i] # UnknownJob => m.jobs[i] = ackedJobs[i]
  <2> SUFFICES ASSUME NEW i \in JobId, ackedJobs[i] # UnknownJob PROVE m.jobs[i] = ackedJobs[i]
    OBVIOUS
  <2>1. jobs[i] = ackedJobs[i] /\ (ackedJobs[i].builtin <=> i = BuiltinJob)
    BY <1>1 DEF JobInv, AckedInv, BuiltinInv
  <2>2. RetiredJob # BuiltinJob
    BY JobAssumption
  <2> QED
    BY <1>5, <2>1, <2>2
<1>8. StoreInv'
  BY <1>1, <1>6, <1>7, SavedInv, CutInv
<1>9. ackedJobs \in [JobId -> Job] /\ handled \subseteq JobId /\ lastVersion \in JobVersion
      /\ \A i \in JobId : ackedJobs[i] # UnknownJob =>
           /\ ackedJobs[i].builtin <=> i = BuiltinJob
           /\ i = BuiltinJob => ackedJobs[i].there /\ ackedJobs[i].ver = 0
  BY DEF JobInv, BuiltinInv, JobTypeOK
<1> QED
  BY <1>1, <1>2, <1>4, <1>6, <1>7, <1>8, <1>9, CalledInv

\* The built-in job is registered as it was, where it was acknowledged.
LEMMA RegisterInv == ASSUME JobInv, RegisterBuiltin PROVE JobInv'
<1> DEFINE job == AsRegistered(BuiltinJob)
           m == Replaced(Current, BuiltinJob, job)
<1>1. /\ phase = "handling" /\ phase' = "serving" /\ CallBecomes(m) /\ usedRunners + 2 <= MaxRunners
      /\ SaveSucceeds(m.jobs) \/ JobSaveFails(m.jobs)
      /\ UNCHANGED <<handled, firings, ackedJobs, lastVersion>>
  BY DEF RegisterBuiltin, BeforeBuiltin, MayStartTwo
<1>2. IsStarted /\ IsStarted' /\ BuiltinJob \in JobId
  BY <1>1, JobAssumption DEF IsStarted
<1>3. /\ GoodManager(Current) /\ Current.jobs = jobs /\ Current.used = usedRunners
      /\ usedRunners \in Nat /\ jobs \in [JobId -> Job] /\ Sound(jobs)
  BY <1>2, CurrentGood
<1>4. job \in Job /\ job.there /\ job.builtin /\ job.ver = 0
  <2>1. 0 \in JobVersion
    BY JobAssumption DEF JobVersion
  <2> QED
    BY <2>1 DEF AsRegistered, Job
<1>5. job.enabled = (jobs[BuiltinJob].there => jobs[BuiltinJob].enabled)
  BY DEF AsRegistered
<1> HIDE DEF job
<1>6. GoodManager(m) /\ m.jobs = [jobs EXCEPT ![BuiltinJob] = job]
  BY <1>1, <1>2, <1>4, ReplacedGood
<1> HIDE DEF m
<1>7. /\ m.jobs \in [JobId -> Job] /\ m.jobs[BuiltinJob] = job
      /\ \A i \in JobId \ {BuiltinJob} : m.jobs[i] = jobs[i]
  BY <1>2, <1>3, <1>4, <1>6
<1>8. Sound(m.jobs)
  BY <1>3, <1>4, <1>7 DEF Sound
<1>9. \A i \in JobId : m.jobs[i].builtin => i = BuiltinJob
  BY <1>1, <1>7 DEF JobInv, BuiltinInv, Serves
<1>10. ackedJobs \in [JobId -> Job] /\ handled = {BuiltinJob} /\ lastVersion \in JobVersion
      /\ \A i \in JobId : ackedJobs[i] # UnknownJob =>
           /\ ackedJobs[i] = jobs[i]
           /\ ackedJobs[i].builtin <=> i = BuiltinJob
           /\ i = BuiltinJob => ackedJobs[i].there /\ ackedJobs[i].ver = 0
  BY <1>1 DEF JobInv, BuiltinInv, JobTypeOK, AckedInv, Serves
<1>11. ASSUME ackedJobs[BuiltinJob] # UnknownJob PROVE jobs[BuiltinJob] = job
  <2>1. LET j == jobs[BuiltinJob] IN j \in Job /\ j.builtin /\ j.there /\ j.ver = 0
    BY <1>2, <1>3, <1>10, <1>11
  <2>2. job.enabled = jobs[BuiltinJob].enabled
    BY <1>5, <2>1 DEF Job
  <2> QED
    BY <1>4, <2>1, <2>2 DEF Job
<1>12. \A i \in JobId : ackedJobs[i] # UnknownJob => m.jobs[i] = ackedJobs[i]
  BY <1>7, <1>10, <1>11
<1>13. StoreInv'
  BY <1>1, <1>8, <1>12, SavedInv, CutInv
<1> QED
  BY <1>1, <1>2, <1>4, <1>6, <1>7, <1>8, <1>9, <1>10, <1>12, <1>13, CalledInv

\* A change that is acknowledged, or put back.
LEMMA ChangeInv ==
  ASSUME JobInv, NEW i \in JobId, NEW job \in Job, NEW m, GoodManager(m), Change(i, job, m),
         lastVersion' \in JobVersion, ~job.there => job = NoJob,
         job.builtin <=> i = BuiltinJob, i = BuiltinJob => job.there /\ job.ver = 0
  PROVE  m.jobs = [jobs EXCEPT ![i] = job] /\ m.used \in {usedRunners, usedRunners + 1} => JobInv'
<1>1. /\ phase = "serving" /\ phase' = phase /\ handled' = handled /\ firings' = firings
      /\ usedRunners + 2 <= MaxRunners
  BY DEF Change, MayStartTwo
<1>2. IsStarted /\ IsStarted' /\ BuiltinJob \in JobId
  BY <1>1, JobAssumption DEF IsStarted
<1>3. /\ usedRunners \in Nat /\ jobs \in [JobId -> Job] /\ Sound(jobs)
  BY <1>2, CurrentGood
<1>4. ASSUME m.used < MaxRunners, jobs[i] \in Job
      PROVE  LET back == PutBack(m, i, jobs[i])
             IN  GoodManager(back) /\ back.jobs = [m.jobs EXCEPT ![i] = jobs[i]]
  BY <1>2, <1>4, ChangedGood
<1> HAVE m.jobs = [jobs EXCEPT ![i] = job] /\ m.used \in {usedRunners, usedRunners + 1}
<1>5. /\ m.jobs \in [JobId -> Job] /\ m.jobs[i] = job
      /\ \A k \in JobId \ {i} : m.jobs[k] = jobs[k]
  BY <1>3
<1>6. Sound(m.jobs)
  BY <1>2, <1>3, <1>5 DEF Sound
<1>7. /\ ackedJobs \in [JobId -> Job] /\ handled = {BuiltinJob}
      /\ \A k \in JobId : jobs[k].builtin => k = BuiltinJob
      /\ LET j == jobs[BuiltinJob] IN j.there /\ j.builtin /\ j.ver = 0
      /\ \A k \in JobId : ackedJobs[k] # UnknownJob =>
           /\ jobs[k] = ackedJobs[k]
           /\ ackedJobs[k].builtin <=> k = BuiltinJob
           /\ k = BuiltinJob => ackedJobs[k].there /\ ackedJobs[k].ver = 0
  BY <1>1 DEF JobInv, BuiltinInv, JobTypeOK, AckedInv, Serves
<1>8. CASE CallBecomes(m) /\ SaveSucceeds(m.jobs) /\ Ack(i, job)
  <2>1. /\ ackedJobs' \in [JobId -> Job] /\ ackedJobs'[i] = job
        /\ \A k \in JobId \ {i} : ackedJobs'[k] = ackedJobs[k]
    BY <1>7, <1>8 DEF Ack
  <2>2. \A k \in JobId : ackedJobs'[k] # UnknownJob =>
          /\ m.jobs[k] = ackedJobs'[k]
          /\ ackedJobs'[k].builtin <=> k = BuiltinJob
          /\ k = BuiltinJob => ackedJobs'[k].there /\ ackedJobs'[k].ver = 0
    BY <1>5, <1>7, <2>1
  <2>3. StoreInv'
    BY <1>6, <1>8, <2>2, SavedInv
  <2>4. /\ \A k \in JobId : m.jobs[k].builtin => k = BuiltinJob
        /\ LET j == m.jobs[BuiltinJob] IN j.there /\ j.builtin /\ j.ver = 0
    BY <1>2, <1>5, <1>7
  <2> QED
    BY <1>1, <1>2, <1>6, <1>7, <1>8, <2>1, <2>2, <2>3, <2>4, CalledInv
<1>9. CASE CallBecomes(PutBack(m, i, jobs[i])) /\ JobSaveFails(m.jobs) /\ UNCHANGED ackedJobs
  <2> DEFINE back == PutBack(m, i, jobs[i])
  <2>1. m.used < MaxRunners /\ jobs[i] \in Job
    BY <1>1, <1>3, JobAssumption
  <2>2. GoodManager(back) /\ back.jobs = [m.jobs EXCEPT ![i] = jobs[i]]
    BY <1>4, <2>1
  <2>3. back.jobs = jobs
    BY <1>3, <1>5, <2>2
  <2>4. StoreInv'
    BY <1>1, <1>6, <1>9, CutInv
  <2> HIDE DEF back
  <2>5. CallBecomes(back)
    BY <1>9 DEF back
  <2> QED
    BY <1>1, <1>2, <1>3, <1>7, <1>9, <2>2, <2>3, <2>4, <2>5, CalledInv
<1> QED
  BY <1>8, <1>9 DEF Change

-----------------------------------------------------------------------------
(* The API *)

\* While the program serves, the built-in jobs are those with the key of the one.
LEMMA ServedBuiltin ==
  ASSUME JobInv, phase = "serving", NEW i \in JobId
  PROVE  IsBuiltin(i) <=> KeyOf[i] = BuiltinJob
<1>1. BuiltinJob \in JobId /\ KeyOf[BuiltinJob] = BuiltinJob
  BY JobAssumption
<1>2. /\ \A k \in JobId : jobs[k].builtin => k = BuiltinJob
      /\ jobs[BuiltinJob].there /\ jobs[BuiltinJob].builtin
  BY DEF JobInv, BuiltinInv, Serves
<1> QED
  BY <1>1, <1>2 DEF IsBuiltin

LEMMA PutInv == ASSUME JobInv, NEW i \in JobId, NEW e \in BOOLEAN, Put(i, e) PROVE JobInv'
<1> DEFINE job == [ver |-> lastVersion + 1, enabled |-> e, builtin |-> FALSE, there |-> TRUE]
           m == Replaced(Current, i, job)
<1>1. /\ phase = "serving" /\ usedRunners + 2 <= MaxRunners /\ ~IsBuiltin(i)
      /\ lastVersion < MaxJobVersion /\ lastVersion' = lastVersion + 1 /\ Change(i, job, m)
  BY DEF Put, Change, MayStartTwo
<1>2. lastVersion' \in JobVersion
  BY <1>1, JobAssumption DEF JobInv, JobTypeOK, JobVersion
<1>3. job \in Job /\ job.there /\ ~job.builtin
  BY <1>1, <1>2 DEF Job
<1> HIDE DEF job
<1>4. i # BuiltinJob
  BY <1>1, ServedBuiltin, JobAssumption
<1>5. IsStarted
  BY <1>1 DEF IsStarted
<1>6. GoodManager(m) /\ m.jobs = [jobs EXCEPT ![i] = job] /\ m.used \in {usedRunners, usedRunners + 1}
  BY <1>1, <1>3, <1>5, ReplacedGood
<1> HIDE DEF m
<1> QED
  BY <1>1, <1>2, <1>3, <1>4, <1>6, ChangeInv

LEMMA SetEnabledInv ==
  ASSUME JobInv, NEW i \in JobId, NEW e \in BOOLEAN, SetEnabled(i, e) PROVE JobInv'
<1> DEFINE job == [jobs[BuiltinJob] EXCEPT !.enabled = e]
           m == Replaced(Current, BuiltinJob, job)
<1>1. phase = "serving" /\ usedRunners + 2 <= MaxRunners /\ IsBuiltin(i) /\ lastVersion' = lastVersion
  BY DEF SetEnabled, Change, MayStartTwo
<1>2. KeyOf[i] = BuiltinJob /\ BuiltinJob \in JobId
  BY <1>1, ServedBuiltin, JobAssumption
<1>3. jobs[BuiltinJob].there /\ Change(BuiltinJob, job, m)
  BY <1>2 DEF SetEnabled
<1>4. IsStarted
  BY <1>1 DEF IsStarted
<1>5. jobs \in [JobId -> Job]
  BY <1>4, CurrentGood
<1>6. jobs[BuiltinJob] \in Job /\ jobs[BuiltinJob].builtin /\ jobs[BuiltinJob].ver = 0
  BY <1>1, <1>2, <1>5 DEF JobInv, BuiltinInv
<1>7. job \in Job /\ job.there /\ job.builtin /\ job.ver = 0
  BY <1>6, <1>3 DEF Job
<1>8. lastVersion' \in JobVersion
  BY <1>1 DEF JobInv, JobTypeOK
<1> HIDE DEF job
<1>9. /\ GoodManager(m) /\ m.jobs = [jobs EXCEPT ![BuiltinJob] = job]
      /\ m.used \in {usedRunners, usedRunners + 1}
  BY <1>1, <1>2, <1>4, <1>7, ReplacedGood
<1> HIDE DEF m
<1> QED
  BY <1>2, <1>7, <1>8, <1>9, <1>3, ChangeInv

LEMMA DeleteJobInv == ASSUME JobInv, NEW i \in JobId, DeleteJob(i) PROVE JobInv'
<1> DEFINE k == KeyOf[i]
           m == Stopped(Putting(Current, k, Removed(k)), k)
<1>1. /\ phase = "serving" /\ ~IsBuiltin(i) /\ Change(k, Removed(k), m) /\ lastVersion' = lastVersion
  BY DEF DeleteJob, Change
<1>2. k # BuiltinJob /\ k \in JobId
  BY <1>1, ServedBuiltin, JobAssumption
<1>3. IsStarted
  BY <1>1 DEF IsStarted
<1>4. GoodManager(Current) /\ Current.jobs = jobs /\ Current.used = usedRunners
  BY <1>3, CurrentGood
<1> HIDE DEF k
<1>5. GoodManager(m) /\ m.jobs = [jobs EXCEPT ![k] = NoJob] /\ m.used = usedRunners
  BY <1>2, <1>4, RemovedGood
<1>6. NoJob \in Job /\ ~NoJob.builtin /\ Removed(k) = NoJob
  BY JobTypes DEF NoJob, Removed
<1>7. lastVersion' \in JobVersion
  BY <1>1 DEF JobInv, JobTypeOK
<1> HIDE DEF m
<1> QED
  BY <1>1, <1>2, <1>5, <1>6, <1>7, ChangeInv

LEMMA JobStutterInv == ASSUME JobInv, UNCHANGED jobVars PROVE JobInv'
<1>1. /\ phase' = phase /\ jobs' = jobs /\ jobRunner' = jobRunner /\ runner' = runner
      /\ usedRunners' = usedRunners /\ handled' = handled /\ jobStore' = jobStore
      /\ jobFaults' = jobFaults /\ firings' = firings /\ ackedJobs' = ackedJobs
      /\ doubtful' = doubtful /\ lastVersion' = lastVersion
  BY DEF jobVars
<1>2. JobTypeOK' /\ BuiltinInv' /\ AckedInv'
  BY <1>1 DEF JobInv, JobTypeOK, BuiltinInv, AckedInv, Serves
<1>3. RunnersInv'
  BY <1>1 DEF JobInv, RunnersInv, Current, Manager, Linked, Agrees, IsStarted
<1> QED
  BY <1>2, <1>3 DEF JobInv

LEMMA JobStepInv == JobInv /\ [JobNext]_jobVars => JobInv'
<1> SUFFICES ASSUME JobInv, [JobNext]_jobVars PROVE JobInv'
  OBVIOUS
<1>1. CASE UNCHANGED jobVars
  BY <1>1, JobStutterInv
<1>2. CASE \E n \in Runner : TimerRunsOut(n) \/ RunnerLeaves(n) \/ TriggerJob(n) \/ FinishJob(n)
  BY <1>2, RunnerInv
<1>3. CASE \E i \in JobId : \E e \in BOOLEAN : Put(i, e) \/ SetEnabled(i, e)
  BY <1>3, PutInv, SetEnabledInv
<1>4. CASE \E i \in JobId : DeleteJob(i)
  BY <1>4, DeleteJobInv
<1> QED
  BY <1>1, <1>2, <1>3, <1>4, LoadInv, StartAllInv, RetireInv, HandlerInv, RegisterInv, JobCrashInv
     DEF JobNext

-----------------------------------------------------------------------------
(* What it comes to *)

LEMMA OneLive == JobInv => OneLiveRunner
<1> SUFFICES ASSUME JobInv, IsStarted PROVE OneLiveRunner!2
  BY DEF OneLiveRunner
<1>1. /\ Current.jobs = jobs /\ Current.map = jobRunner /\ Current.run = runner
      /\ Linked(Current) /\ \A i \in JobId : Agrees(Current, i)
  BY DEF Current, JobInv, RunnersInv
<1> HIDE DEF Current
<1> QED
  BY <1>1 DEF Linked, Agrees, Alive, RunnerAlive

LEMMA AckedKept == JobInv => AckedJobsAreKept
BY DEF JobInv, AckedInv, AckedJobsAreKept

LEMMA HandlerRuns ==
  ASSUME JobInv, NEW n \in Runner, TriggerJob(n), phase = "serving", jobs[runner[n].job].builtin
  PROVE  runner'[n].at = "handler"
<1>1. runner \in [Runner -> RunnerState] /\ runner[n] \in RunnerState
  BY DEF JobInv, JobTypeOK, RunnerState
<1>2. runner[n].job = BuiltinJob /\ handled = {BuiltinJob}
  BY <1>1 DEF JobInv, BuiltinInv, Serves, RunnerState
<1>3. Route(n) = "handler"
  BY <1>2, JobAssumption DEF Route
<1> QED
  BY <1>1, <1>3 DEF TriggerJob, RunnerStep, RunnerState

\* The runners and the jobs of the scheduler agree, what its API acknowledged is
\* kept through failing saves, crashes and registrations, and the built-in job
\* goes to its handler: for every set of jobs, store and number of faults.
THEOREM JobsAreRunOnceAlways == JobSpec => JobsAreRunOnce
<1>1. JobSpec => []JobInv
  BY JobInitInv, JobStepInv, PTL DEF JobSpec
<1>2. JobInv => OneLiveRunner /\ AckedJobsAreKept /\ JobTypeOK
  BY OneLive, AckedKept DEF JobInv
<1>3. JobInv /\ [JobNext]_jobVars =>
        [\A n \in Runner :
           TriggerJob(n) /\ phase = "serving" /\ jobs[runner[n].job].builtin =>
             runner'[n].at = "handler"]_jobVars
  BY HandlerRuns
<1> QED
  BY <1>1, <1>2, <1>3, PTL DEF JobsAreRunOnce, BuiltinHasItsHandler, JobSpec

(***************************************************************************)
(* The workspace services.                                                 *)
(*                                                                         *)
(* A handler works with what it read of the registry some time ago, so the *)
(* invariant says what is still true of it.  A request that changes a      *)
(* service without another change of it in between knows what is bound,    *)
(* in memory and in the file.  The processes of a service are of its       *)
(* binding unless a PUT waits for the lock to replace them, or the last    *)
(* start went astray.                                                      *)
(***************************************************************************)

AtLabel == {"idle", "upsert", "lock", "start", "probe", "running", "rollback", "stop", "delete"}

RequestState ==
  [at : AtLabel, kind : {"none", "put", "delete", "visit"}, service : Service \cup {Unbound},
   cfg : Config \cup {Unbound}, prev : Config \cup {Unbound}, mine : 0 .. MaxProcesses,
   alone : BOOLEAN]

CommandState ==
  [service : Service \cup {Unbound}, cfg : Managed \cup {Unbound}, alive : BOOLEAN,
   ours : BOOLEAN, reaped : BOOLEAN]

Changes(q) == q.kind \in {"put", "delete"}

\* The shape of a request, from where it is.
Shaped(q) ==
  /\ q.at = "idle" => q = NoRequest
  /\ q.at # "idle" => q.service \in Service
  /\ q.at \in {"upsert", "rollback"} => q.kind = "put" /\ q.cfg \in Config
  /\ q.at \in {"stop", "delete"} => q.kind = "delete"
  /\ q.at \in {"lock", "start", "probe", "running"} => q.kind \in {"put", "visit"} /\ q.cfg \in Managed
  /\ q.at \notin {"probe", "running"} => q.mine = NoProcess

\* The one that holds the lock replaces what the manager keeps for its service.
Replaces(q) ==
  /\ q.at \in {"start", "probe"} => processes[q.service] = NoProcess
  /\ q.at = "probe" =>
       q.mine \in 1 .. launched /\ commands[q.mine].service = q.service /\ commands[q.mine].cfg = q.cfg

\* The types, of the registry, of the requests and of the processes.
RegistryTyped ==
  /\ entries \in [Service -> Config \cup {Unbound}]
  /\ wsFile \in [torn : BOOLEAN, entries : [Service -> Config \cup {Unbound}]]
  /\ promised \in [Service -> Config \cup {Unbound}] /\ unclear \subseteq Service
  /\ wsFaults \in 0 .. MaxWsFaults

RequestsTyped ==
  /\ request \in [WebRequest -> RequestState] /\ holder \in WebRequest \cup {Nobody}
  /\ \A r \in WebRequest :
       Shaped(request[r]) /\ (request[r].at \in {"start", "probe"} <=> holder = r)

CommandsTyped ==
  /\ processes \in [Service -> 0 .. MaxProcesses] /\ launched \in 0 .. MaxProcesses
  /\ commands \in [WsProcess -> CommandState] /\ listener \in [Port -> 0 .. MaxProcesses]
  /\ \A s \in Service : processes[s] # NoProcess => commands[processes[s]].service = s
  /\ \A p \in WsProcess : p > launched => commands[p] = NoProc
  /\ \A p \in WsProcess : commands[p].ours => commands[p].service \in Service

ProcessesTyped == CommandsTyped /\ \A r \in WebRequest : Replaces(request[r])

FileHas(s) == wsFile.torn \/ wsFile.entries[s] = entries[s]

\* What is bound, for a request that is the only one to change its service.
Knows(q) ==
  /\ q.kind = "put" /\ q.at # "upsert" => entries[q.service] = q.cfg /\ FileHas(q.service)
  /\ q.service \notin unclear =>
       /\ q.kind = "put" => q.prev = promised[q.service]
       /\ q.kind = "delete" \/ q.at = "upsert" => entries[q.service] = promised[q.service]

\* Some request changes the service.
Changed(s) == \E r \in WebRequest : Changes(request[r]) /\ request[r].service = s

BindingInv ==
  /\ \A r, o \in WebRequest :
       r # o /\ Changes(request[r]) /\ Changes(request[o]) /\ request[r].service = request[o].service
         => ~request[r].alone
  /\ \A r \in WebRequest : Changes(request[r]) /\ request[r].alone => Knows(request[r])
  /\ \A s \in Service \ unclear : FileHas(s) /\ (~Changed(s) => entries[s] = promised[s])

\* A PUT waits for the lock of the manager to replace what runs.
Waiting(s) ==
  \E r \in WebRequest : request[r].kind = "put" /\ request[r].at = "lock" /\ request[r].service = s

RunInv ==
  \A s \in Service \ astray : IsManaged(entries[s]) /\ ~Waiting(s) =>
    /\ \A p \in WsProcess : OursAlive(p) /\ commands[p].service = s => commands[p].cfg = entries[s]
    /\ holder # Nobody /\ request[holder].service = s => request[holder].cfg = entries[s]

\* No started process is forgotten, what is bound is known, and it is what runs.
ServicesInv ==
  RegistryTyped /\ RequestsTyped /\ ProcessesTyped /\ NoProcessIsForgotten /\ BindingInv /\ RunInv

LEMMA ChangedChanging ==
  ASSUME RequestsTyped, NEW s \in Service
  PROVE  Changing(s) <=> Changed(s)
<1>1. ASSUME NEW r \in WebRequest, request[r].service = s
      PROVE  request[r].kind # "visit" <=> Changes(request[r])
  <2>1. Shaped(request[r]) /\ request[r] \in RequestState
    BY DEF RequestsTyped
  <2>2. CASE request[r].at = "idle"
    <3>1. request[r].service = Unbound
      BY <2>1, <2>2 DEF Shaped, NoRequest
    <3> QED  BY <3>1, <1>1, WsAssumption
  <2>3. CASE request[r].at # "idle"
    BY <2>1, <2>3 DEF Shaped, Changes, RequestState, AtLabel
  <2> QED  BY <2>2, <2>3
<1> QED  BY <1>1 DEF Changing, Changed

LEMMA ServicesProperty ==
  ASSUME ServicesInv
  PROVE  ServicesRunAsBound
<1> USE DEF ServicesInv
<1>1. WsTypeOK
  <2>1. \A r \in WebRequest : request[r].at \in AtLabel
    BY DEF RequestsTyped, RequestState
  <2> QED  BY <2>1 DEF WsTypeOK, RegistryTyped, RequestsTyped, ProcessesTyped, CommandsTyped, AtLabel, CommandState
<1>2. AcknowledgedIsBound
  <2> SUFFICES ASSUME NEW s \in Service \ unclear, ~Changing(s)
               PROVE  entries[s] = promised[s] /\ (wsFile.torn \/ wsFile.entries[s] = promised[s])
    BY DEF AcknowledgedIsBound
  <2>1. ~Changed(s)
    BY ChangedChanging
  <2> QED  BY <2>1 DEF BindingInv, FileHas
<1>3. RunsWhatIsBound
  <2> SUFFICES ASSUME NEW s \in Service \ (unclear \cup astray), ~Changing(s), IsManaged(entries[s]),
                      NEW p \in WsProcess, OursAlive(p), commands[p].service = s
               PROVE  commands[p].cfg = entries[s]
    BY DEF RunsWhatIsBound
  <2>1. ~Waiting(s)
    BY DEF Waiting, Changing
  <2> QED  BY <2>1 DEF RunInv
<1> QED  BY <1>1, <1>2, <1>3 DEF ServicesRunAsBound

LEMMA ServicesInit ==
  ASSUME WsInit
  PROVE  ServicesInv
<1> USE WsAssumption DEF WsInit
<1>0. NoRequest \in RequestState /\ Shaped(NoRequest) /\ ~Changes(NoRequest)
  BY DEF NoRequest, RequestState, Shaped, Changes, AtLabel, NoProcess
<1>01. NoProc \in CommandState /\ ~NoProc.ours /\ ~NoProc.alive
  BY DEF NoProc, CommandState
<1>1. RegistryTyped
  BY DEF RegistryTyped, WholeRegistry
<1>2. RequestsTyped
  BY <1>0 DEF RequestsTyped, NoRequest
<1>3. ProcessesTyped
  <2>1. processes \in [Service -> 0 .. MaxProcesses] /\ listener \in [Port -> 0 .. MaxProcesses]
    BY DEF NoProcess
  <2>2. commands \in [WsProcess -> CommandState]
    BY <1>01
  <2>3. \A r \in WebRequest : Replaces(request[r])
    BY DEF Replaces, NoRequest
  <2> QED  BY <2>1, <2>2, <2>3, <1>01 DEF ProcessesTyped, CommandsTyped, NoProcess
<1>4. NoProcessIsForgotten
  BY <1>01 DEF NoProcessIsForgotten, OursAlive
<1>5. BindingInv
  BY <1>0 DEF BindingInv, FileHas, Changed, WholeRegistry
<1>6. RunInv
  BY <1>01 DEF RunInv, OursAlive
<1> QED  BY <1>1, <1>2, <1>3, <1>4, <1>5, <1>6 DEF ServicesInv

(***************************************************************************)
(* What the steps have in common.                                          *)
(***************************************************************************)

LEMMA BecomesGood ==
  ASSUME RequestsTyped, NEW r \in WebRequest, NEW q \in RequestState, Become(r, q)
  PROVE  /\ request' \in [WebRequest -> RequestState] /\ request'[r] = q
         /\ \A o \in WebRequest : o # r => request'[o] = request[o]
BY DEF Become, RequestsTyped

LEMMA NoRequestGood ==
  NoRequest \in RequestState /\ Shaped(NoRequest) /\ ~Changes(NoRequest) /\ NoRequest.at = "idle"
BY WsAssumption DEF NoRequest, RequestState, Shaped, Changes, AtLabel, NoProcess

LEMMA BoundGood ==
  ASSUME RegistryTyped, NEW s \in Service, NEW c \in Config \cup {Unbound}
  PROVE  /\ Bound(s, c) \in [Service -> Config \cup {Unbound}] /\ Bound(s, c)[s] = c
         /\ \A o \in Service : o # s => Bound(s, c)[o] = entries[o]
BY DEF Bound, RegistryTyped

\* A process that was started stays what it is; it may die.
CommandsKept ==
  \A p \in WsProcess :
    /\ commands'[p].service = commands[p].service /\ commands'[p].cfg = commands[p].cfg
    /\ commands'[p].ours = commands[p].ours /\ (commands'[p].alive => commands[p].alive)

LEMMA Killing ==
  ASSUME ProcessesTyped, NEW p \in WsProcess, Kill(p)
  PROVE  /\ commands' \in [WsProcess -> CommandState] /\ listener' \in [Port -> 0 .. MaxProcesses]
         /\ CommandsKept /\ ~commands'[p].alive
         /\ \A q \in WsProcess : q # p => commands'[q] = commands[q]
<1>1. commands[p] \in CommandState
  BY DEF ProcessesTyped, CommandsTyped
<1>2. listener' \in [Port -> 0 .. MaxProcesses]
  <2>1. PortFreed(p) \in [Port -> 0 .. MaxProcesses]
    BY WsAssumption DEF PortFreed, ProcessesTyped, CommandsTyped, NoProcess
  <2> QED  BY <2>1 DEF Kill, ProcessesTyped, CommandsTyped
<1> DEFINE dead == [commands[p] EXCEPT !.alive = FALSE]
<1>3. dead \in CommandState /\ ~dead.alive
  BY <1>1 DEF CommandState
<1>4. dead.service = commands[p].service /\ dead.cfg = commands[p].cfg /\ dead.ours = commands[p].ours
  BY <1>1 DEF CommandState
<1>5. commands' = [commands EXCEPT ![p] = dead]
  BY DEF Kill
<1> HIDE DEF dead
<1>6. commands' \in [WsProcess -> CommandState] /\ commands'[p] = dead
      /\ \A q \in WsProcess : q # p => commands'[q] = commands[q]
  BY <1>5, <1>3 DEF ProcessesTyped, CommandsTyped
<1> QED  BY <1>2, <1>3, <1>4, <1>6 DEF CommandsKept

\* What is fixed for a change while it lasts.
SameTask(q, p) ==
  /\ q.kind = p.kind /\ q.service = p.service /\ q.cfg = p.cfg /\ q.prev = p.prev
  /\ q.alone = p.alone /\ (q.at = "upsert" <=> p.at = "upsert")

LEMMA BindingKept ==
  ASSUME BindingInv, UNCHANGED <<entries, wsFile, promised, unclear>>,
         \A o \in WebRequest :
           /\ Changes(request'[o]) <=> Changes(request[o])
           /\ Changes(request[o]) => SameTask(request'[o], request[o])
  PROVE  BindingInv'
<1>1. ASSUME NEW r \in WebRequest, NEW o \in WebRequest, r # o, Changes(request'[r]),
             Changes(request'[o]), request'[r].service = request'[o].service
      PROVE  ~request'[r].alone
  BY <1>1 DEF BindingInv, SameTask
<1>2. ASSUME NEW r \in WebRequest, Changes(request'[r]), request'[r].alone
      PROVE  Knows(request[r])'
  <2>1. Knows(request[r]) /\ SameTask(request'[r], request[r])
    BY <1>2 DEF BindingInv, SameTask
  <2> QED  BY <2>1 DEF Knows, SameTask, FileHas
<1>3. ASSUME NEW s \in Service \ unclear'
      PROVE  FileHas(s)' /\ (~Changed(s)' => entries'[s] = promised'[s])
  <2>1. Changed(s)' <=> Changed(s)
    BY DEF Changed, SameTask
  <2> QED  BY <2>1 DEF BindingInv, FileHas
<1> QED  BY <1>1, <1>2, <1>3 DEF BindingInv, Changes

\* A change moves its service on: the others know what they knew.
LEMMA BindingMoved ==
  ASSUME RequestsTyped, BindingInv, NEW r \in WebRequest, Changes(request[r]),
         NEW s \in Service, request[r].service = s,
         \A o \in WebRequest : o # r => request'[o] = request[o],
         Changes(request'[r]) =>
           request'[r].service = s /\ request'[r].alone = request[r].alone,
         \A x \in Service : x # s =>
           /\ entries'[x] = entries[x] /\ promised'[x] = promised[x]
           /\ x \in unclear' <=> x \in unclear
           /\ FileHas(x) => FileHas(x)',
         Changes(request'[r]) /\ request'[r].alone => Knows(request[r])',
         s \notin unclear' => FileHas(s)' /\ (~Changed(s)' => entries'[s] = promised'[s])
  PROVE  BindingInv'
<1>1. ASSUME NEW q \in WebRequest, NEW o \in WebRequest, q # o, Changes(request'[q]),
             Changes(request'[o]), request'[q].service = request'[o].service
      PROVE  ~request'[q].alone
  <2>1. /\ Changes(request[q]) /\ request'[q].service = request[q].service
        /\ request'[q].alone = request[q].alone
        /\ Changes(request[o]) /\ request'[o].service = request[o].service
    BY <1>1
  <2> QED  BY <2>1, <1>1 DEF BindingInv
<1>2. ASSUME NEW o \in WebRequest, Changes(request'[o]), request'[o].alone
      PROVE  Knows(request[o])'
  <2>1. CASE o = r
    BY <2>1, <1>2
  <2>2. CASE o # r
    <3>1. request'[o] = request[o]
      BY <2>2
    <3>2. Knows(request[o])
      BY <3>1, <1>2 DEF BindingInv
    <3>3. request[o].service # s
      BY <3>1, <1>2, <2>2 DEF BindingInv
    <3>4. request[o].service \in Service
      <4>1. request[o].at # "idle"
        BY <3>1, <1>2, NoRequestGood DEF RequestsTyped, Shaped
      <4> QED  BY <4>1 DEF RequestsTyped, Shaped
    <3> DEFINE x == request[o].service
    <3>5. /\ entries'[x] = entries[x] /\ promised'[x] = promised[x]
          /\ x \in unclear' <=> x \in unclear
      BY <3>3, <3>4
    <3>6. FileHas(request[o].service) => FileHas(request[o].service)'
      <4>1. PICK y \in Service : y = request[o].service
        BY <3>4
      <4>2. FileHas(y) => FileHas(y)'
        BY <4>1, <3>3
      <4> QED  BY <4>1, <4>2, <3>1 DEF FileHas
    <3> QED  BY <3>1, <3>2, <3>5, <3>6 DEF Knows
  <2> QED  BY <2>1, <2>2
<1>3. ASSUME NEW x \in Service \ unclear'
      PROVE  FileHas(x)' /\ (~Changed(x)' => entries'[x] = promised'[x])
  <2>1. CASE x = s
    BY <2>1
  <2>2. CASE x # s
    <3>1. Changed(x) => Changed(x)'
      BY <2>2 DEF Changed
    <3> QED  BY <3>1, <2>2 DEF BindingInv
  <2> QED  BY <2>1, <2>2
<1> QED  BY <1>1, <1>2, <1>3 DEF BindingInv, Changes

\* Nothing is bound anew where nobody waits, and nothing new is run.
LEMMA RunKept ==
  ASSUME RunInv, CommandsKept,
         holder' # Nobody => /\ holder' = holder /\ request'[holder].service = request[holder].service
                             /\ request'[holder].cfg = request[holder].cfg,
         \A s \in Service : s \notin astray' /\ IsManaged(entries'[s]) /\ ~Waiting(s)' =>
           s \notin astray /\ entries'[s] = entries[s] /\ ~Waiting(s)
  PROVE  RunInv'
<1> SUFFICES ASSUME NEW s \in Service, s \notin astray', IsManaged(entries'[s]), ~Waiting(s)'
             PROVE  /\ \A p \in WsProcess : OursAlive(p)' /\ commands'[p].service = s =>
                         commands'[p].cfg = entries'[s]
                    /\ holder' # Nobody /\ request'[holder'].service = s =>
                         request'[holder'].cfg = entries'[s]
  BY DEF RunInv, IsManaged
<1>1. s \notin astray /\ entries'[s] = entries[s] /\ ~Waiting(s)
  OBVIOUS
<1>2. \A p \in WsProcess : OursAlive(p)' /\ commands'[p].service = s => commands'[p].cfg = entries'[s]
  BY <1>1 DEF RunInv, CommandsKept, OursAlive, IsManaged
<1>3. holder' # Nobody /\ request'[holder'].service = s => request'[holder'].cfg = entries'[s]
  BY <1>1 DEF RunInv, IsManaged
<1> QED  BY <1>2, <1>3

LEMMA ManagerKept ==
  ASSUME ProcessesTyped, UNCHANGED manager,
         \A o \in WebRequest : request'[o].at \in {"start", "probe"} => request'[o] = request[o]
  PROVE  ProcessesTyped' /\ CommandsKept
<1>1. CommandsKept
  BY DEF manager, CommandsKept
<1>2. \A o \in WebRequest : Replaces(request[o])'
  BY DEF manager, ProcessesTyped, CommandsTyped, Replaces
<1> QED  BY <1>1, <1>2 DEF manager, ProcessesTyped, CommandsTyped

LEMMA ForgottenKept ==
  ASSUME NoProcessIsForgotten, CommandsKept, processes' = processes, holder' = holder,
         holder # Nobody => request'[holder].mine = request[holder].mine
  PROVE  NoProcessIsForgotten'
BY DEF NoProcessIsForgotten, CommandsKept, OursAlive

(***************************************************************************)
(* A request begins.                                                       *)
(***************************************************************************)

\* It differs at most in not being alone any more.
Told(q, p) ==
  /\ q.at = p.at /\ q.kind = p.kind /\ q.service = p.service /\ q.cfg = p.cfg /\ q.prev = p.prev
  /\ q.mine = p.mine /\ (q.alone => p.alone)

LEMMA OthersChange ==
  ASSUME RequestsTyped, NEW r \in WebRequest, NEW s \in Service, NEW o \in WebRequest, o # r
  PROVE  o \in Others(r, s) <=> Changes(request[o]) /\ request[o].service = s
<1>1. Shaped(request[o]) /\ request[o] \in RequestState
  BY DEF RequestsTyped
<1>2. CASE request[o].at = "idle"
  <2>1. request[o].service = Unbound /\ ~Changes(request[o])
    BY <1>1, <1>2, NoRequestGood DEF Shaped, NoRequest
  <2> QED  BY <2>1, WsAssumption DEF Others
<1>3. CASE request[o].at # "idle"
  BY <1>1, <1>3 DEF Shaped, Changes, RequestState, AtLabel, Others
<1> QED  BY <1>2, <1>3

LEMMA Entered ==
  ASSUME RequestsTyped, NEW r \in WebRequest, NEW q \in RequestState, NEW s \in Service,
         q.service = s, q.kind \in {"put", "delete", "visit"}, Enter(r, q)
  PROVE  /\ request' \in [WebRequest -> RequestState]
         /\ \A o \in WebRequest : o # r => Told(request'[o], request[o])
         /\ \A o \in WebRequest :
              o # r /\ Changes(q) /\ Changes(request[o]) /\ request[o].service = s => ~request'[o].alone
         /\ Told([request'[r] EXCEPT !.alone = q.alone], q)
         /\ request'[r].alone => \A o \in WebRequest : o # r => ~(Changes(request[o]) /\ request[o].service = s)
<1> DEFINE alone == Others(r, s) = {}
           mine == [q EXCEPT !.alone = alone]
           told(o) == [request[o] EXCEPT !.alone = FALSE]
<1>1. mine \in RequestState /\ mine.alone = alone /\ Told([mine EXCEPT !.alone = q.alone], q)
  BY DEF RequestState, Told
<1>2. ASSUME NEW o \in WebRequest
      PROVE  told(o) \in RequestState /\ ~told(o).alone /\ Told(told(o), request[o])
             /\ Told(request[o], request[o]) /\ request[o] \in RequestState
  <2>1. request[o] \in RequestState
    BY DEF RequestsTyped
  <2> QED  BY <2>1 DEF RequestState, Told
<1>3. request' = [o \in WebRequest |->
         IF o = r THEN mine
         ELSE IF o \in Others(r, s) /\ q.kind # "visit" THEN told(o) ELSE request[o]]
  BY DEF Enter
<1> HIDE DEF mine, told
<1>4. request' \in [WebRequest -> RequestState]
  BY <1>1, <1>2, <1>3
<1>5. request'[r] = mine
  BY <1>3
<1>6. ASSUME NEW o \in WebRequest, o # r
      PROVE  /\ Told(request'[o], request[o])
             /\ Changes(q) /\ Changes(request[o]) /\ request[o].service = s => ~request'[o].alone
  <2>1. request'[o] = IF o \in Others(r, s) /\ q.kind # "visit" THEN told(o) ELSE request[o]
    BY <1>3, <1>6
  <2> QED  BY <2>1, <1>2, <1>6, OthersChange DEF Changes
<1>7. alone => \A o \in WebRequest : o # r => ~(Changes(request[o]) /\ request[o].service = s)
  BY OthersChange
<1> QED  BY <1>1, <1>4, <1>5, <1>6, <1>7

LEMMA EnterKeeps ==
  ASSUME ServicesInv, NEW r \in WebRequest, NEW q \in RequestState, NEW s \in Service,
         request[r].at = "idle", q.service = s, q.kind \in {"put", "delete", "visit"},
         Enter(r, q), Shaped(q), q.at \in {"upsert", "lock", "stop", "delete"},
         q.kind = "put" => q.at = "upsert" /\ q.prev = entries[s],
         UNCHANGED <<entries, wsFile, wsFaults, manager, promised, unclear, astray>>
  PROVE  ServicesInv'
<1> DEFINE new == request'[r]
<1>1. /\ request' \in [WebRequest -> RequestState]
      /\ \A o \in WebRequest : o # r => Told(request'[o], request[o])
      /\ \A o \in WebRequest :
           o # r /\ Changes(q) /\ Changes(request[o]) /\ request[o].service = s => ~request'[o].alone
      /\ Told([new EXCEPT !.alone = q.alone], q)
      /\ new.alone => \A o \in WebRequest : o # r => ~(Changes(request[o]) /\ request[o].service = s)
  BY Entered DEF ServicesInv
<1>2. new \in RequestState
  BY <1>1
<1>3. /\ new.at = q.at /\ new.kind = q.kind /\ new.service = s /\ new.cfg = q.cfg
      /\ new.prev = q.prev /\ new.mine = q.mine
  BY <1>1, <1>2 DEF Told, RequestState
<1>4. Shaped(new)
  BY <1>3 DEF Shaped
<1>5. request[r] = NoRequest /\ ~Changes(request[r])
  BY NoRequestGood DEF ServicesInv, RequestsTyped, Shaped
<1> HIDE DEF new
<1>6. RegistryTyped'
  BY DEF ServicesInv, RegistryTyped
<1>7. RequestsTyped'
  <2>1. ASSUME NEW o \in WebRequest
        PROVE  Shaped(request'[o]) /\ (request'[o].at \in {"start", "probe"} <=> holder = o)
    <3>1. CASE o = r
      <4>1. holder # r
        BY DEF ServicesInv, RequestsTyped
      <4> QED  BY <4>1, <3>1, <1>3, <1>4 DEF new
    <3>2. CASE o # r
      <4>1. Told(request'[o], request[o]) /\ Shaped(request[o])
            /\ (request[o].at \in {"start", "probe"} <=> holder = o)
        BY <3>2, <1>1 DEF ServicesInv, RequestsTyped
      <4>2. CASE request[o].at = "idle"
        <5>1. request[o] = NoRequest
          BY <4>1, <4>2 DEF Shaped
        <5>2. request'[o] = request[o]
          <6>1. ~(o \in Others(r, s))
            BY <5>1, <3>2, OthersChange, NoRequestGood DEF ServicesInv
          <6> QED  BY <6>1, <3>2 DEF Enter
        <5> QED  BY <5>2, <4>1
      <4>3. CASE request[o].at # "idle"
        BY <4>1, <4>3 DEF Told, Shaped
      <4> QED  BY <4>2, <4>3
    <3> QED  BY <3>1, <3>2
  <2> QED  BY <2>1, <1>1 DEF RequestsTyped, ServicesInv, manager
<1>8. ProcessesTyped' /\ CommandsKept
  <2>1. CommandsKept
    BY DEF manager, CommandsKept
  <2>2. ASSUME NEW o \in WebRequest
        PROVE  Replaces(request[o])'
    <3>1. CASE o = r
      BY <3>1, <1>3 DEF Replaces, new
    <3>2. CASE o # r
      BY <3>2, <1>1 DEF Replaces, Told, ServicesInv, ProcessesTyped, CommandsTyped, manager
    <3> QED  BY <3>1, <3>2
  <2> QED  BY <2>1, <2>2 DEF ServicesInv, ProcessesTyped, CommandsTyped, manager
<1>9. holder # r /\ holder' = holder /\ (holder # Nobody => holder \in WebRequest)
  BY DEF ServicesInv, RequestsTyped, manager
<1>10. NoProcessIsForgotten'
  <2>1. holder # Nobody => request'[holder].mine = request[holder].mine
    BY <1>9, <1>1 DEF Told
  <2> QED  BY <2>1, <1>8, <1>9, ForgottenKept DEF ServicesInv, manager
<1>11. \A o \in WebRequest : o # r => (Changes(request'[o]) <=> Changes(request[o]))
  BY <1>1 DEF Told, Changes
<1>12. Changes(new) <=> Changes(q)
  BY <1>3 DEF Changes
<1>13. BindingInv'
  <2>1. ASSUME NEW p \in WebRequest, NEW o \in WebRequest, p # o, Changes(request'[p]),
               Changes(request'[o]), request'[p].service = request'[o].service
        PROVE  ~request'[p].alone
    <3>1. CASE p = r
      <4>1. Changes(request[o]) /\ request[o].service = s
        BY <3>1, <2>1, <1>1, <1>3, <1>11 DEF Told, new
      <4> QED  BY <4>1, <3>1, <2>1, <1>1 DEF new
    <3>2. CASE o = r
      <4>1. Changes(request[p]) /\ request[p].service = s /\ Changes(q)
        BY <3>2, <2>1, <1>1, <1>3, <1>11, <1>12 DEF Told, new
      <4> QED  BY <4>1, <3>2, <2>1, <1>1
    <3>3. CASE p # r /\ o # r
      <4>1. Changes(request[p]) /\ Changes(request[o]) /\ request[p].service = request[o].service
        BY <3>3, <2>1, <1>1, <1>11 DEF Told
      <4>2. ~request[p].alone
        BY <4>1, <2>1 DEF ServicesInv, BindingInv
      <4> QED  BY <4>2, <3>3, <1>1 DEF Told
    <3> QED  BY <3>1, <3>2, <3>3
  <2>2. ASSUME NEW o \in WebRequest, Changes(request'[o]), request'[o].alone
        PROVE  Knows(request[o])'
    <3>1. CASE o = r
      <4>1. ~Changed(s)
        BY <3>1, <2>2, <1>1, <1>5 DEF Changed, new
      <4>2. s \notin unclear => entries[s] = promised[s]
        BY <4>1 DEF ServicesInv, BindingInv
      <4> QED  BY <4>2, <3>1, <1>3, <1>12, <2>2 DEF Knows, new, Changes
    <3>2. CASE o # r
      <4>1. Told(request'[o], request[o]) /\ Changes(request[o]) /\ request[o].alone
        BY <3>2, <2>2, <1>1, <1>11 DEF Told
      <4>2. Knows(request[o])
        BY <4>1 DEF ServicesInv, BindingInv
      <4> QED  BY <4>1, <4>2 DEF Knows, Told, FileHas
    <3> QED  BY <3>1, <3>2
  <2>3. ASSUME NEW x \in Service \ unclear'
        PROVE  FileHas(x)' /\ (~Changed(x)' => entries'[x] = promised'[x])
    <3>1. Changed(x) => Changed(x)'
      <4> SUFFICES ASSUME NEW o \in WebRequest, Changes(request[o]), request[o].service = x
                   PROVE  Changes(request'[o]) /\ request'[o].service = x
        BY DEF Changed
      <4>1. o # r
        BY <1>5
      <4> QED  BY <4>1, <1>1, <1>11 DEF Told
    <3> QED  BY <3>1 DEF ServicesInv, BindingInv, FileHas
  <2> QED  BY <2>1, <2>2, <2>3 DEF BindingInv, Changes
<1>14. RunInv'
  <2>1. holder' # Nobody => /\ holder' = holder /\ request'[holder].service = request[holder].service
                            /\ request'[holder].cfg = request[holder].cfg
    BY <1>9, <1>1 DEF Told
  <2>2. ASSUME NEW x \in Service, Waiting(x)
        PROVE  Waiting(x)'
    <3>1. PICK o \in WebRequest : request[o].kind = "put" /\ request[o].at = "lock" /\ request[o].service = x
      BY <2>2 DEF Waiting
    <3>2. o # r
      BY <3>1
    <3> QED  BY <3>1, <3>2, <1>1 DEF Waiting, Told
  <2> QED  BY <2>1, <2>2, <1>8, RunKept DEF ServicesInv
<1> QED  BY <1>6, <1>7, <1>8, <1>10, <1>13, <1>14 DEF ServicesInv

LEMMA BeginPutKeeps ==
  ASSUME ServicesInv, NEW r \in WebRequest, NEW s \in Service, NEW c \in Config, BeginPut(r, s, c)
  PROVE  ServicesInv'
<1>1. entries[s] \in Config \cup {Unbound}
  BY DEF ServicesInv, RegistryTyped
<1>2. PICK q \in RequestState :
        /\ q = [NoRequest EXCEPT !.at = "upsert", !.kind = "put", !.service = s, !.cfg = c,
                                !.prev = entries[s]]
        /\ q.at = "upsert" /\ q.kind = "put" /\ q.service = s /\ q.cfg = c
        /\ q.prev = entries[s] /\ q.mine = NoProcess
  <2> DEFINE x == [NoRequest EXCEPT !.at = "upsert"]
             y == [x EXCEPT !.kind = "put"]
             z == [y EXCEPT !.service = s]
             z1 == [z EXCEPT !.cfg = c]
             q == [z1 EXCEPT !.prev = entries[s]]
  <2>1. x \in RequestState /\ x.at = "upsert" /\ x.mine = NoProcess
    BY NoRequestGood DEF RequestState, NoRequest, AtLabel
  <2> HIDE DEF x
  <2>2. y \in RequestState /\ y.at = "upsert" /\ y.mine = NoProcess /\ y.kind = "put"
    BY <2>1 DEF RequestState
  <2> HIDE DEF y
  <2>3. z \in RequestState /\ z.at = "upsert" /\ z.mine = NoProcess /\ z.kind = "put" /\ z.service = s
    BY <2>2 DEF RequestState
  <2> HIDE DEF z
  <2>4. z1 \in RequestState /\ z1.at = "upsert" /\ z1.mine = NoProcess /\ z1.kind = "put"
        /\ z1.service = s /\ z1.cfg = c
    BY <2>3, <1>1 DEF RequestState
  <2> HIDE DEF z1
  <2>5. q \in RequestState /\ q.at = "upsert" /\ q.mine = NoProcess /\ q.kind = "put"
        /\ q.service = s /\ q.cfg = c /\ q.prev = entries[s]
    BY <2>4, <1>1 DEF RequestState
  <2> HIDE DEF q
  <2>6. q = [NoRequest EXCEPT !.at = "upsert", !.kind = "put", !.service = s, !.cfg = c,
                              !.prev = entries[s]]
    BY Zenon DEF x, y, z, z1, q
  <2> QED  BY <2>5, <2>6
<1>3. Enter(r, q) /\ request[r].at = "idle"
      /\ UNCHANGED <<entries, wsFile, wsFaults, manager, promised, unclear, astray>>
  BY <1>2 DEF BeginPut, Enter, RequestAt
<1>4. Shaped(q)
  BY <1>1, <1>2 DEF Shaped
<1>5. /\ q.kind \in {"put", "delete", "visit"} /\ q.at \in {"upsert", "lock", "stop", "delete"}
      /\ q.kind = "put" => q.at = "upsert" /\ q.prev = entries[s]
  BY <1>2
<1> QED  BY ONLY ServicesInv, r \in WebRequest, s \in Service, <1>2, <1>3, <1>4, <1>5, EnterKeeps

LEMMA BeginDeleteKeeps ==
  ASSUME ServicesInv, NEW r \in WebRequest, NEW s \in Service, BeginDelete(r, s)
  PROVE  ServicesInv'
<1>1. entries[s] \in Config \cup {Unbound}
  BY DEF ServicesInv, RegistryTyped
<1>2. PICK q \in RequestState :
        /\ q = [NoRequest EXCEPT !.at = IF IsManaged(entries[s]) THEN "stop" ELSE "delete",
                                !.kind = "delete", !.service = s, !.cfg = entries[s]]
        /\ q.at \in {"stop", "delete"} /\ q.kind = "delete" /\ q.service = s /\ q.mine = NoProcess
  <2> DEFINE x == [NoRequest EXCEPT !.at = IF IsManaged(entries[s]) THEN "stop" ELSE "delete"]
             y == [x EXCEPT !.kind = "delete"]
             z == [y EXCEPT !.service = s]
             q == [z EXCEPT !.cfg = entries[s]]
  <2>1. x \in RequestState /\ x.at \in {"stop", "delete"} /\ x.mine = NoProcess
    BY NoRequestGood DEF RequestState, NoRequest, AtLabel
  <2> HIDE DEF x
  <2>2. y \in RequestState /\ y.at \in {"stop", "delete"} /\ y.mine = NoProcess /\ y.kind = "delete"
    BY <2>1 DEF RequestState
  <2> HIDE DEF y
  <2>3. z \in RequestState /\ z.at \in {"stop", "delete"} /\ z.mine = NoProcess /\ z.kind = "delete" /\ z.service = s
    BY <2>2 DEF RequestState
  <2> HIDE DEF z
  <2>4. q \in RequestState /\ q.at \in {"stop", "delete"} /\ q.mine = NoProcess /\ q.kind = "delete"
        /\ q.service = s /\ q.cfg = entries[s]
    BY <2>3, <1>1 DEF RequestState
  <2> HIDE DEF q
  <2>5. q = [NoRequest EXCEPT !.at = IF IsManaged(entries[s]) THEN "stop" ELSE "delete",
                              !.kind = "delete", !.service = s, !.cfg = entries[s]]
    BY Zenon DEF x, y, z, q
  <2> QED  BY <2>4, <2>5
<1>3. Enter(r, q) /\ request[r].at = "idle"
      /\ UNCHANGED <<entries, wsFile, wsFaults, manager, promised, unclear, astray>>
  BY <1>2 DEF BeginDelete, Enter, RequestAt
<1>4. Shaped(q)
  BY <1>1, <1>2 DEF Shaped
<1>5. /\ q.kind \in {"put", "delete", "visit"} /\ q.at \in {"upsert", "lock", "stop", "delete"}
      /\ q.kind = "put" => q.at = "upsert" /\ q.prev = entries[s]
  BY <1>2
<1> QED  BY ONLY ServicesInv, r \in WebRequest, s \in Service, <1>2, <1>3, <1>4, <1>5, EnterKeeps

LEMMA VisitKeeps ==
  ASSUME ServicesInv, NEW r \in WebRequest, NEW s \in Service, Visit(r, s)
  PROVE  ServicesInv'
<1>1. entries[s] \in Config \cup {Unbound} /\ entries[s] \in Managed
  BY DEF ServicesInv, RegistryTyped, Visit, IsManaged
<1>2. PICK q \in RequestState :
        /\ q = [NoRequest EXCEPT !.at = "lock", !.kind = "visit", !.service = s, !.cfg = entries[s]]
        /\ q.at = "lock" /\ q.kind = "visit" /\ q.service = s /\ q.cfg = entries[s]
        /\ q.mine = NoProcess
  <2> DEFINE x == [NoRequest EXCEPT !.at = "lock"]
             y == [x EXCEPT !.kind = "visit"]
             z == [y EXCEPT !.service = s]
             q == [z EXCEPT !.cfg = entries[s]]
  <2>1. x \in RequestState /\ x.at = "lock" /\ x.mine = NoProcess
    BY NoRequestGood DEF RequestState, NoRequest, AtLabel
  <2> HIDE DEF x
  <2>2. y \in RequestState /\ y.at = "lock" /\ y.mine = NoProcess /\ y.kind = "visit"
    BY <2>1 DEF RequestState
  <2> HIDE DEF y
  <2>3. z \in RequestState /\ z.at = "lock" /\ z.mine = NoProcess /\ z.kind = "visit" /\ z.service = s
    BY <2>2 DEF RequestState
  <2> HIDE DEF z
  <2>4. q \in RequestState /\ q.at = "lock" /\ q.mine = NoProcess /\ q.kind = "visit"
        /\ q.service = s /\ q.cfg = entries[s]
    BY <2>3, <1>1 DEF RequestState
  <2> HIDE DEF q
  <2>5. q = [NoRequest EXCEPT !.at = "lock", !.kind = "visit", !.service = s, !.cfg = entries[s]]
    BY Zenon DEF x, y, z, q
  <2> QED  BY <2>4, <2>5
<1>3. Enter(r, q) /\ request[r].at = "idle"
      /\ UNCHANGED <<entries, wsFile, wsFaults, manager, promised, unclear, astray>>
  BY <1>2 DEF Visit, Enter, RequestAt
<1>4. Shaped(q)
  BY <1>1, <1>2 DEF Shaped
<1>5. /\ q.kind \in {"put", "delete", "visit"} /\ q.at \in {"upsert", "lock", "stop", "delete"}
      /\ q.kind = "put" => q.at = "upsert" /\ q.prev = entries[s]
  BY <1>2
<1> QED  BY ONLY ServicesInv, r \in WebRequest, s \in Service, <1>2, <1>3, <1>4, <1>5, EnterKeeps

(***************************************************************************)
(* The registry.                                                           *)
(***************************************************************************)

\* A request goes on, the manager is left alone.
LEMMA MovesOn ==
  ASSUME ServicesInv, NEW r \in WebRequest, NEW q \in RequestState, holder # r, Shaped(q),
         q.at \notin {"start", "probe"}, Become(r, q), UNCHANGED manager
  PROVE  /\ RequestsTyped' /\ ProcessesTyped' /\ CommandsKept /\ NoProcessIsForgotten'
         /\ request'[r] = q /\ \A o \in WebRequest : o # r => request'[o] = request[o]
         /\ holder' # Nobody => /\ holder' = holder /\ request'[holder].service = request[holder].service
                                /\ request'[holder].cfg = request[holder].cfg
<1>1. /\ request' \in [WebRequest -> RequestState] /\ request'[r] = q
      /\ \A o \in WebRequest : o # r => request'[o] = request[o]
  BY BecomesGood DEF ServicesInv
<1>2. RequestsTyped'
  <2>1. ASSUME NEW o \in WebRequest
        PROVE  Shaped(request'[o]) /\ (request'[o].at \in {"start", "probe"} <=> holder = o)
    BY <1>1 DEF ServicesInv, RequestsTyped
  <2> QED  BY <1>1, <2>1 DEF ServicesInv, RequestsTyped, manager
<1>3. ProcessesTyped' /\ CommandsKept
  BY <1>1, ManagerKept DEF ServicesInv
<1>4. holder' = holder /\ (holder # Nobody => holder \in WebRequest /\ request'[holder] = request[holder])
  BY <1>1 DEF ServicesInv, RequestsTyped, manager
<1>5. NoProcessIsForgotten'
  BY <1>3, <1>4, ForgottenKept DEF ServicesInv, manager
<1> QED  BY <1>1, <1>2, <1>3, <1>4, <1>5

\* What a request that is under way is.
LEMMA UnderWay ==
  ASSUME ServicesInv, NEW r \in WebRequest, request[r].at # "idle"
  PROVE  /\ request[r] \in RequestState /\ Shaped(request[r])
         /\ request[r].service \in Service
         /\ (request[r].at \in {"start", "probe"} <=> holder = r)
BY DEF ServicesInv, RequestsTyped, Shaped

\* What a write leaves in the file.
LEMMA Written ==
  ASSUME RegistryTyped, NEW es \in [Service -> Config \cup {Unbound}]
  PROVE  /\ Persists(es) => /\ wsFile' \in [torn : BOOLEAN, entries : [Service -> Config \cup {Unbound}]]
                            /\ ~wsFile'.torn /\ wsFile'.entries = es /\ wsFaults' \in 0 .. MaxWsFaults
         /\ PersistFails => /\ wsFile' \in [torn : BOOLEAN, entries : [Service -> Config \cup {Unbound}]]
                            /\ (wsFile' = wsFile \/ wsFile'.torn)
                            /\ wsFaults' \in 0 .. MaxWsFaults
<1>1. ASSUME Persists(es)
      PROVE  /\ wsFile' \in [torn : BOOLEAN, entries : [Service -> Config \cup {Unbound}]]
             /\ ~wsFile'.torn /\ wsFile'.entries = es /\ wsFaults' \in 0 .. MaxWsFaults
  BY <1>1 DEF Persists, WholeRegistry, RegistryTyped
<1>2. ASSUME PersistFails
      PROVE  /\ wsFile' \in [torn : BOOLEAN, entries : [Service -> Config \cup {Unbound}]]
             /\ wsFile' = wsFile \/ wsFile'.torn
             /\ wsFaults' \in 0 .. MaxWsFaults
  <2>1. TornFile \in [torn : BOOLEAN, entries : [Service -> Config \cup {Unbound}]] /\ TornFile.torn
    BY DEF TornFile
  <2> QED  BY <1>2, <2>1, WsAssumption DEF PersistFails, RegistryTyped
<1> QED  BY <1>1, <1>2

LEMMA Promised ==
  ASSUME RegistryTyped, NEW r \in WebRequest, NEW s \in Service, request[r].service = s,
         NEW c \in Config \cup {Unbound}
  PROVE  /\ Promise(request[r], c) =>
              /\ promised' \in [Service -> Config \cup {Unbound}] /\ unclear' \subseteq Service
              /\ promised'[s] = c
              /\ \A x \in Service : x # s => promised'[x] = promised[x] /\ (x \in unclear' <=> x \in unclear)
              /\ s \notin unclear' => request[r].alone
         /\ NoPromise(request[r]) =>
              /\ promised' = promised /\ unclear' \subseteq Service
              /\ \A x \in Service : x # s => (x \in unclear' <=> x \in unclear)
              /\ s \notin unclear' => request[r].alone /\ s \notin unclear
         /\ Lose(request[r]) =>
              /\ promised' = promised /\ unclear' \subseteq Service /\ s \in unclear'
              /\ \A x \in Service : x # s => (x \in unclear' <=> x \in unclear)
BY DEF Promise, NoPromise, Lose, RegistryTyped

\* A change is over.
LEMMA Finished ==
  ASSUME ServicesInv, NEW r \in WebRequest, NEW s \in Service, request[r].service = s,
         holder # r, Finish(r), UNCHANGED manager
  PROVE  /\ RequestsTyped' /\ ProcessesTyped' /\ CommandsKept /\ NoProcessIsForgotten'
         /\ request'[r] = NoRequest /\ \A o \in WebRequest : o # r => request'[o] = request[o]
         /\ /\ request[r].at # "lock"
            /\ \A x \in Service : x \notin astray' /\ IsManaged(entries'[x]) =>
                 x \notin astray /\ entries'[x] = entries[x]
            => RunInv'
         /\ /\ Changes(request[r])
            /\ s \notin unclear' => FileHas(s)' /\ entries'[s] = promised'[s]
            /\ \A x \in Service : x # s =>
                 /\ entries'[x] = entries[x] /\ promised'[x] = promised[x]
                 /\ x \in unclear' <=> x \in unclear
                 /\ FileHas(x) => FileHas(x)'
            => BindingInv'
<1>1. NoRequest \in RequestState /\ Shaped(NoRequest) /\ NoRequest.at = "idle" /\ ~Changes(NoRequest)
  BY NoRequestGood
<1>2. /\ RequestsTyped' /\ ProcessesTyped' /\ CommandsKept /\ NoProcessIsForgotten'
      /\ request'[r] = NoRequest /\ \A o \in WebRequest : o # r => request'[o] = request[o]
      /\ holder' # Nobody => /\ holder' = holder /\ request'[holder].service = request[holder].service
                             /\ request'[holder].cfg = request[holder].cfg
  BY <1>1, MovesOn DEF Finish
<1>3. ASSUME \A x \in Service : x \notin astray' /\ IsManaged(entries'[x]) =>
               x \notin astray /\ entries'[x] = entries[x],
             request[r].at # "lock"
      PROVE  RunInv'
  <2>1. \A x \in Service : Waiting(x) => Waiting(x)'
    BY <1>2, <1>3 DEF Waiting
  <2> QED  BY <2>1, <1>2, <1>3, RunKept DEF ServicesInv
<1>4. ASSUME Changes(request[r]), s \notin unclear' => FileHas(s)' /\ entries'[s] = promised'[s],
             \A x \in Service : x # s =>
               /\ entries'[x] = entries[x] /\ promised'[x] = promised[x]
               /\ x \in unclear' <=> x \in unclear
               /\ FileHas(x) => FileHas(x)'
      PROVE  BindingInv'
  BY <1>1, <1>2, <1>4, BindingMoved DEF ServicesInv
<1> QED  BY <1>2, <1>3, <1>4


LEMMA UpsertKeeps ==
  ASSUME ServicesInv, NEW r \in WebRequest, Upsert(r)
  PROVE  ServicesInv'
<1> DEFINE req == request[r]
<1>1. req.at = "upsert"
  BY DEF Upsert, RequestAt
<1>2. /\ req \in RequestState /\ Shaped(req) /\ holder # r
      /\ req.kind = "put" /\ req.cfg \in Config /\ Changes(req) /\ req.service \in Service
      /\ req.mine = NoProcess
  BY <1>1, UnderWay DEF Shaped, Changes
<1>3. PICK s \in Service, c \in Config : s = req.service /\ c = req.cfg
  BY <1>2
<1>4. /\ Bound(s, c) \in [Service -> Config \cup {Unbound}] /\ Bound(s, c)[s] = c
      /\ \A o \in Service : o # s => Bound(s, c)[o] = entries[o]
  BY BoundGood DEF ServicesInv
<1>5. UNCHANGED <<astray, begun, manager>>
  BY DEF Upsert
<1>6. CASE /\ Persists(Bound(s, c)) /\ entries' = Bound(s, c)
           /\ IsManaged(c) /\ Become(r, [req EXCEPT !.at = "lock"]) /\ UNCHANGED <<promised, unclear>>
  <2>1. PICK q \in RequestState :
          /\ q = [req EXCEPT !.at = "lock"] /\ q.at = "lock" /\ q.kind = "put" /\ q.service = s
          /\ q.cfg = c /\ q.prev = req.prev /\ q.alone = req.alone /\ q.mine = NoProcess
    <3> DEFINE q == [req EXCEPT !.at = "lock"]
    <3>1. /\ q \in RequestState /\ q.at = "lock" /\ q.kind = "put" /\ q.service = s
          /\ q.cfg = c /\ q.prev = req.prev /\ q.alone = req.alone /\ q.mine = NoProcess
      BY <1>2, <1>3 DEF RequestState, AtLabel
    <3> HIDE DEF q
    <3> QED  BY <3>1 DEF q
  <2>2. Become(r, q)
    BY <2>1, <1>6
  <2>3. Shaped(q)
    BY <2>1, <1>3, <1>6 DEF Shaped, IsManaged
  <2>4. /\ RequestsTyped' /\ ProcessesTyped' /\ CommandsKept /\ NoProcessIsForgotten'
        /\ request'[r] = q /\ \A o \in WebRequest : o # r => request'[o] = request[o]
        /\ holder' # Nobody => /\ holder' = holder /\ request'[holder].service = request[holder].service
                               /\ request'[holder].cfg = request[holder].cfg
    BY <2>1, <2>2, <2>3, <1>2, <1>5, MovesOn
  <2>5. RegistryTyped' /\ ~wsFile'.torn /\ wsFile'.entries = entries'
    BY <1>4, <1>6, Written DEF ServicesInv, RegistryTyped
  <2>6. \A x \in Service : FileHas(x)'
    BY <2>5 DEF FileHas
  <2>7. Changed(s)' /\ Waiting(s)'
    BY <2>1, <2>4 DEF Changed, Changes, Waiting
  <2>8. Changes(request'[r]) /\ request'[r].alone => Knows(request[r])'
    <3> HAVE Changes(request'[r]) /\ request'[r].alone
    <3>1. Knows(request[r])
      BY <2>1, <2>4, <1>2 DEF ServicesInv, BindingInv
    <3>2. request[r].service = s /\ request[r].kind = "put" /\ request[r].prev = request'[r].prev
      BY <1>2, <1>3, <2>1, <2>4
    <3>3. /\ request'[r].kind = "put" /\ request'[r].at = "lock" /\ request'[r].service = s
          /\ request'[r].cfg = c
      BY <2>1, <2>4
    <3>4. entries'[s] = c /\ promised' = promised /\ unclear' = unclear
      BY <1>4, <1>6
    <3>5. FileHas(request[r].service)'
      BY <3>3, <2>6
    <3> QED  BY <3>1, <3>2, <3>3, <3>4, <3>5 DEF Knows
  <2>9. BindingInv'
    <3>1. \A x \in Service : x # s =>
            /\ entries'[x] = entries[x] /\ promised'[x] = promised[x] /\ (x \in unclear' <=> x \in unclear)
            /\ FileHas(x) => FileHas(x)'
      BY <1>4, <1>6, <2>6
    <3>2. request'[r].service = s /\ request'[r].alone = request[r].alone
      BY <2>1, <2>4
    <3> QED  BY <3>1, <3>2, <1>2, <1>3, <2>4, <2>6, <2>7, <2>8, BindingMoved DEF ServicesInv
  <2>10. RunInv'
    <3>1. ASSUME NEW x \in Service, ~Waiting(x)'
          PROVE  entries'[x] = entries[x] /\ ~Waiting(x)
      <4>1. x # s
        BY <3>1, <2>7
      <4>2. ~Waiting(x)
        BY <3>1, <2>4, <1>1 DEF Waiting
      <4> QED  BY <4>1, <4>2, <1>4, <1>6
    <3> QED  BY <3>1, <2>4, <1>5, RunKept DEF ServicesInv
  <2> QED  BY <2>4, <2>5, <2>9, <2>10 DEF ServicesInv
<1>7. CASE Persists(Bound(s, c)) /\ entries' = Bound(s, c) /\ ~IsManaged(c) /\ Finish(r) /\ Promise(req, c)
  <2>1. RegistryTyped' /\ ~wsFile'.torn /\ wsFile'.entries = entries' /\ entries'[s] = promised'[s]
    BY <1>3, <1>4, <1>7, Written, Promised DEF ServicesInv, RegistryTyped
  <2>2. \A x \in Service : FileHas(x)'
    BY <2>1 DEF FileHas
  <2>3. \A x \in Service : x # s =>
          entries'[x] = entries[x] /\ promised'[x] = promised[x] /\ (x \in unclear' <=> x \in unclear)
    BY <1>3, <1>4, <1>7, Promised DEF ServicesInv
  <2>4. \A x \in Service : x \notin astray' /\ IsManaged(entries'[x]) => x # s /\ x \notin astray
    BY <1>4, <1>5, <1>7
  <2> QED  BY <2>1, <2>2, <2>3, <2>4, <1>1, <1>2, <1>3, <1>5, <1>7, Finished DEF ServicesInv
<1>8. CASE PersistFails /\ UNCHANGED entries /\ Finish(r) /\ NoPromise(req)
  <2>1. RegistryTyped' /\ (wsFile' = wsFile \/ wsFile'.torn) /\ promised' = promised
    BY <1>3, <1>8, Written, Promised DEF ServicesInv, RegistryTyped
  <2>2. \A x \in Service : FileHas(x) => FileHas(x)'
    BY <2>1, <1>8 DEF FileHas
  <2>3. \A x \in Service : x # s => (x \in unclear' <=> x \in unclear)
    BY <1>3, <1>8, Promised DEF ServicesInv
  <2>4. s \notin unclear' => FileHas(s)' /\ entries'[s] = promised'[s]
    <3> HAVE s \notin unclear'
    <3>1. req.alone /\ s \notin unclear
      BY <1>3, <1>8, Promised DEF ServicesInv
    <3>2. FileHas(s) /\ Knows(req)
      BY <3>1, <1>2 DEF ServicesInv, BindingInv
    <3>3. entries[s] = promised[s]
      BY <3>1, <3>2, <1>1, <1>3 DEF Knows
    <3> QED  BY <3>2, <3>3, <2>1, <2>2, <1>8
  <2> QED  BY <2>1, <2>2, <2>3, <2>4, <1>1, <1>2, <1>3, <1>5, <1>8, Finished DEF ServicesInv
<1> QED  BY <1>3, <1>6, <1>7, <1>8 DEF Upsert

LEMMA RollBackKeeps ==
  ASSUME ServicesInv, NEW r \in WebRequest, RollBack(r)
  PROVE  ServicesInv'
<1> DEFINE req == request[r]
<1>1. req.at = "rollback"
  BY DEF RollBack, RequestAt
<1>2. /\ req \in RequestState /\ Shaped(req) /\ holder # r
      /\ req.kind = "put" /\ Changes(req) /\ req.service \in Service /\ req.prev \in Config \cup {Unbound}
  BY <1>1, UnderWay DEF Shaped, Changes, RequestState
<1>3. PICK s \in Service, c \in Config \cup {Unbound} : s = req.service /\ c = req.prev
  BY <1>2
<1>4. /\ Bound(s, c) \in [Service -> Config \cup {Unbound}] /\ Bound(s, c)[s] = c
      /\ \A o \in Service : o # s => Bound(s, c)[o] = entries[o]
  BY BoundGood DEF ServicesInv
<1>5. /\ Finish(r) /\ UNCHANGED manager /\ astray' = astray \cup {s} /\ Undone(req) = Bound(s, c)
  BY <1>3 DEF RollBack, Undone
<1>6. CASE Persists(Bound(s, c)) /\ entries' = Bound(s, c) /\ NoPromise(req)
  <2>1. RegistryTyped' /\ ~wsFile'.torn /\ wsFile'.entries = entries' /\ promised' = promised
    BY <1>3, <1>4, <1>6, Written, Promised DEF ServicesInv, RegistryTyped
  <2>2. \A x \in Service : FileHas(x)'
    BY <2>1 DEF FileHas
  <2>3. \A x \in Service : x # s =>
          entries'[x] = entries[x] /\ promised'[x] = promised[x] /\ (x \in unclear' <=> x \in unclear)
    BY <1>3, <1>4, <1>6, <2>1, Promised DEF ServicesInv
  <2>4. s \notin unclear' => entries'[s] = promised'[s]
    <3> HAVE s \notin unclear'
    <3>1. req.alone /\ s \notin unclear
      BY <1>3, <1>6, Promised DEF ServicesInv
    <3>2. Knows(req)
      BY <3>1, <1>2 DEF ServicesInv, BindingInv
    <3>3. c = promised[s]
      BY <3>1, <3>2, <1>2, <1>3 DEF Knows
    <3> QED  BY <3>3, <2>1, <1>4, <1>6
  <2>5. \A x \in Service : x \notin astray' => x # s /\ x \notin astray
    BY <1>5
  <2> QED  BY <2>1, <2>2, <2>3, <2>4, <2>5, <1>1, <1>2, <1>3, <1>5, Finished DEF ServicesInv
<1>7. CASE PersistFails /\ Lose(req) /\ (entries' = Bound(s, c) \/ UNCHANGED entries)
  <2>1. RegistryTyped' /\ (wsFile' = wsFile \/ wsFile'.torn) /\ promised' = promised /\ s \in unclear'
    BY <1>3, <1>4, <1>7, Written, Promised DEF ServicesInv, RegistryTyped
  <2>2. \A x \in Service : x # s => entries'[x] = entries[x] /\ (x \in unclear' <=> x \in unclear)
    BY <1>3, <1>4, <1>7, Promised DEF ServicesInv
  <2>3. \A x \in Service : x # s => (FileHas(x) => FileHas(x)')
    BY <2>1, <2>2 DEF FileHas
  <2>5. \A x \in Service : x \notin astray' => x # s /\ x \notin astray
    BY <1>5
  <2> QED  BY <2>1, <2>2, <2>3, <2>5, <1>1, <1>2, <1>3, <1>5, Finished DEF ServicesInv
<1>8. \/ Persists(Bound(s, c)) /\ entries' = Bound(s, c) /\ NoPromise(req)
      \/ PersistFails /\ Lose(req) /\ (entries' = Bound(s, c) \/ UNCHANGED entries)
  BY <1>5 DEF RollBack
<1> QED  BY <1>6, <1>7, <1>8

LEMMA DeleteEntryKeeps ==
  ASSUME ServicesInv, NEW r \in WebRequest, DeleteEntry(r)
  PROVE  ServicesInv'
<1> DEFINE req == request[r]
<1>1. req.at = "delete"
  BY DEF DeleteEntry, RequestAt
<1>2. /\ req \in RequestState /\ Shaped(req) /\ holder # r
      /\ req.kind = "delete" /\ Changes(req) /\ req.service \in Service
  BY <1>1, UnderWay DEF Shaped, Changes
<1>3. PICK s \in Service : s = req.service
  BY <1>2
<1>4. /\ Bound(s, Unbound) \in [Service -> Config \cup {Unbound}] /\ Bound(s, Unbound)[s] = Unbound
      /\ \A o \in Service : o # s => Bound(s, Unbound)[o] = entries[o]
  BY BoundGood DEF ServicesInv
<1>5. Finish(r) /\ UNCHANGED manager /\ astray' = astray
  BY DEF DeleteEntry
<1>6. CASE entries[s] = Unbound /\ NoPromise(req) /\ UNCHANGED <<entries, wsFile, wsFaults>>
  <2>1. RegistryTyped' /\ promised' = promised
    BY <1>3, <1>6, Promised DEF ServicesInv, RegistryTyped
  <2>2. \A x \in Service : FileHas(x) => FileHas(x)'
    BY <1>6 DEF FileHas
  <2>3. \A x \in Service : x # s => (x \in unclear' <=> x \in unclear)
    BY <1>3, <1>6, Promised DEF ServicesInv
  <2>4. s \notin unclear' => FileHas(s)' /\ entries'[s] = promised'[s]
    <3> HAVE s \notin unclear'
    <3>1. req.alone /\ s \notin unclear
      BY <1>3, <1>6, Promised DEF ServicesInv
    <3>2. FileHas(s) /\ Knows(req)
      BY <3>1, <1>2 DEF ServicesInv, BindingInv
    <3>3. entries[s] = promised[s]
      BY <3>1, <3>2, <1>2, <1>3 DEF Knows
    <3> QED  BY <3>2, <3>3, <2>1, <2>2, <1>6
  <2> QED  BY <2>1, <2>2, <2>3, <2>4, <1>1, <1>2, <1>3, <1>5, <1>6, Finished DEF ServicesInv
<1>7. CASE entries' = Bound(s, Unbound) /\ Persists(Bound(s, Unbound)) /\ Promise(req, Unbound)
  <2>1. RegistryTyped' /\ ~wsFile'.torn /\ wsFile'.entries = entries' /\ entries'[s] = promised'[s]
    BY <1>3, <1>4, <1>7, Written, Promised DEF ServicesInv, RegistryTyped
  <2>2. \A x \in Service : FileHas(x)'
    BY <2>1 DEF FileHas
  <2>3. \A x \in Service : x # s =>
          entries'[x] = entries[x] /\ promised'[x] = promised[x] /\ (x \in unclear' <=> x \in unclear)
    BY <1>3, <1>4, <1>7, Promised DEF ServicesInv
  <2>4. \A x \in Service : x \notin astray' /\ IsManaged(entries'[x]) => x # s /\ x \notin astray
    BY <1>4, <1>5, <1>7, WsAssumption DEF IsManaged, Config
  <2> QED  BY <2>1, <2>2, <2>3, <2>4, <1>1, <1>2, <1>3, <1>5, Finished DEF ServicesInv
<1>8. CASE entries' = Bound(s, Unbound) /\ PersistFails /\ Lose(req)
  <2>1. RegistryTyped' /\ (wsFile' = wsFile \/ wsFile'.torn) /\ promised' = promised /\ s \in unclear'
    BY <1>3, <1>4, <1>8, Written, Promised DEF ServicesInv, RegistryTyped
  <2>2. \A x \in Service : x # s => entries'[x] = entries[x] /\ (x \in unclear' <=> x \in unclear)
    BY <1>3, <1>4, <1>8, Promised DEF ServicesInv
  <2>3. \A x \in Service : x # s => (FileHas(x) => FileHas(x)')
    BY <2>1, <2>2 DEF FileHas
  <2>4. \A x \in Service : x \notin astray' /\ IsManaged(entries'[x]) => x # s /\ x \notin astray
    BY <1>4, <1>5, <1>8, WsAssumption DEF IsManaged, Config
  <2> QED  BY <2>1, <2>2, <2>3, <2>4, <1>1, <1>2, <1>3, <1>5, Finished DEF ServicesInv
<1> QED  BY <1>3, <1>6, <1>7, <1>8 DEF DeleteEntry

LEMMA RespondKeeps ==
  ASSUME ServicesInv, NEW r \in WebRequest, Respond(r)
  PROVE  ServicesInv'
<1> DEFINE req == request[r]
<1>1. req.at = "running"
  BY DEF Respond, RequestAt
<1>2. /\ req \in RequestState /\ Shaped(req) /\ holder # r
      /\ req.kind \in {"put", "visit"} /\ req.cfg \in Config /\ req.service \in Service
  BY <1>1, UnderWay DEF Shaped, Config
<1>3. PICK s \in Service, c \in Config : s = req.service /\ c = req.cfg
  BY <1>2
<1>4. Finish(r) /\ UNCHANGED manager /\ astray' = astray /\ UNCHANGED <<entries, wsFile, wsFaults>>
  BY DEF Respond
<1>5. CASE req.kind = "put" /\ Promise(req, c)
  <2>1. RegistryTyped' /\ promised'[s] = c
    BY <1>3, <1>4, <1>5, Promised DEF ServicesInv, RegistryTyped
  <2>2. \A x \in Service : FileHas(x) => FileHas(x)'
    BY <1>4 DEF FileHas
  <2>3. \A x \in Service : x # s => promised'[x] = promised[x] /\ (x \in unclear' <=> x \in unclear)
    BY <1>3, <1>5, Promised DEF ServicesInv
  <2>4. s \notin unclear' => FileHas(s)' /\ entries'[s] = promised'[s]
    <3> HAVE s \notin unclear'
    <3>1. req.alone
      BY <1>3, <1>5, Promised DEF ServicesInv
    <3>2. Knows(req)
      BY <3>1, <1>5 DEF ServicesInv, BindingInv, Changes
    <3>3. entries[s] = c /\ FileHas(s)
      BY <3>2, <1>1, <1>3, <1>5 DEF Knows
    <3> QED  BY <3>3, <2>1, <2>2, <1>4
  <2>5. Changes(req)
    BY <1>5 DEF Changes
  <2> QED  BY <2>1, <2>2, <2>3, <2>4, <2>5, <1>1, <1>2, <1>3, <1>4, Finished DEF ServicesInv
<1>6. CASE req.kind # "put" /\ UNCHANGED <<promised, unclear>>
  <2>1. RegistryTyped'
    BY <1>4, <1>6 DEF ServicesInv, RegistryTyped
  <2>2. /\ RequestsTyped' /\ ProcessesTyped' /\ CommandsKept /\ NoProcessIsForgotten' /\ RunInv'
        /\ request'[r] = NoRequest /\ \A o \in WebRequest : o # r => request'[o] = request[o]
    BY <1>1, <1>2, <1>3, <1>4, Finished
  <2>3. ~Changes(req) /\ ~Changes(request'[r])
    BY <2>2, <1>2, <1>6, NoRequestGood DEF Changes
  <2>4. BindingInv'
    <3>1. \A o \in WebRequest : /\ Changes(request'[o]) <=> Changes(request[o])
                                /\ Changes(request[o]) => SameTask(request'[o], request[o])
      BY <2>2, <2>3 DEF SameTask
    <3> QED  BY <3>1, <1>4, <1>6, BindingKept DEF ServicesInv
  <2> QED  BY <2>1, <2>2, <2>4 DEF ServicesInv
<1> QED  BY <1>3, <1>5, <1>6 DEF Respond

(***************************************************************************)
(* The process manager.                                                    *)
(***************************************************************************)

\* What the manager keeps for a service is a process that was started.
LEMMA KeptStarted ==
  ASSUME CommandsTyped, NEW s \in Service, processes[s] # NoProcess
  PROVE  /\ processes[s] \in WsProcess /\ processes[s] <= launched
         /\ commands[processes[s]].service = s
<1>1. processes[s] \in WsProcess
  BY WsAssumption DEF CommandsTyped, WsProcess, NoProcess
<1>2. commands[processes[s]].service = s
  BY DEF CommandsTyped
<1>3. commands[processes[s]] # NoProc
  BY <1>2, WsAssumption DEF NoProc
<1>4. processes[s] <= launched
  BY <1>1, <1>3, WsAssumption DEF CommandsTyped, WsProcess
<1> QED  BY <1>1, <1>2, <1>4

\* Killing what was started leaves the rest of the manager in order.
LEMMA KilledGood ==
  ASSUME ProcessesTyped, NEW p \in WsProcess, p <= launched, Kill(p), launched' = launched,
         processes' = processes
  PROVE  CommandsTyped' /\ CommandsKept /\ ~commands'[p].alive
         /\ \A q \in WsProcess : q # p => commands'[q] = commands[q]
<1>1. /\ commands' \in [WsProcess -> CommandState] /\ listener' \in [Port -> 0 .. MaxProcesses]
      /\ CommandsKept /\ ~commands'[p].alive
      /\ \A q \in WsProcess : q # p => commands'[q] = commands[q]
  BY Killing
<1>2. \A s \in Service : processes'[s] # NoProcess => commands'[processes'[s]].service = s
  BY <1>1, KeptStarted DEF ProcessesTyped, CommandsTyped, CommandsKept
<1>3. \A q \in WsProcess : q > launched => commands'[q] = NoProc
  BY <1>1, WsAssumption DEF ProcessesTyped, CommandsTyped, WsProcess
<1>4. \A q \in WsProcess : commands'[q].ours => commands'[q].service \in Service
  BY <1>1 DEF ProcessesTyped, CommandsTyped, CommandsKept
<1> QED  BY <1>1, <1>2, <1>3, <1>4 DEF ProcessesTyped, CommandsTyped

\* The process that is kept for a service is stopped.
LEMMA KeptStopped ==
  ASSUME ServicesInv, NEW s \in Service, holder = Nobody, processes[s] # NoProcess,
         Kill(processes[s]), processes' = [processes EXCEPT ![s] = NoProcess], launched' = launched
  PROVE  /\ CommandsTyped' /\ CommandsKept /\ processes'[s] = NoProcess
         /\ \A q \in WsProcess : OursAlive(q)' =>
              commands[q].service # s /\ processes'[commands'[q].service] = q
<1>1. PICK p \in WsProcess : p = processes[s]
  BY KeptStarted DEF ServicesInv, ProcessesTyped
<1>2. p <= launched /\ commands[p].service = s /\ Kill(p)
  BY <1>1, KeptStarted DEF ServicesInv, ProcessesTyped
<1>3. /\ commands' \in [WsProcess -> CommandState] /\ listener' \in [Port -> 0 .. MaxProcesses]
      /\ CommandsKept /\ ~commands'[p].alive
      /\ \A q \in WsProcess : q # p => commands'[q] = commands[q]
  BY <1>2, Killing DEF ServicesInv
<1>4. /\ processes' \in [Service -> 0 .. MaxProcesses] /\ processes'[s] = NoProcess
      /\ \A x \in Service : x # s => processes'[x] = processes[x]
  BY WsAssumption DEF ServicesInv, ProcessesTyped, CommandsTyped, NoProcess
<1>5. \A x \in Service : processes'[x] # NoProcess => commands'[processes'[x]].service = x
  BY <1>3, <1>4, KeptStarted DEF ServicesInv, ProcessesTyped, CommandsKept
<1>6. \A q \in WsProcess : q > launched => commands'[q] = NoProc
  BY <1>2, <1>3, WsAssumption DEF ServicesInv, ProcessesTyped, CommandsTyped, WsProcess
<1>7. \A q \in WsProcess : commands'[q].ours => commands'[q].service \in Service
  BY <1>3 DEF ServicesInv, ProcessesTyped, CommandsTyped, CommandsKept
<1>8. CommandsTyped'
  BY <1>3, <1>4, <1>5, <1>6, <1>7 DEF ServicesInv, ProcessesTyped, CommandsTyped
<1>9. ASSUME NEW q \in WsProcess, OursAlive(q)'
      PROVE  commands[q].service # s /\ processes'[commands'[q].service] = q
  <2>1. q # p /\ commands'[q] = commands[q]
    BY <1>3, <1>9 DEF OursAlive
  <2>2. processes[commands[q].service] = q
    BY <2>1, <1>9 DEF ServicesInv, NoProcessIsForgotten, OursAlive
  <2>3. commands[q].service \in Service
    BY <2>1, <1>9 DEF ServicesInv, ProcessesTyped, CommandsTyped, OursAlive
  <2> QED  BY <1>1, <1>4, <2>1, <2>2, <2>3
<1> QED  BY <1>3, <1>4, <1>8, <1>9

\* The lock is given back.
LEMMA GivenBack ==
  ASSUME RequestsTyped, NEW r \in WebRequest, NEW q \in RequestState, holder \in {r, Nobody}, Shaped(q),
         q.at \notin {"start", "probe"}, Become(r, q), holder' = Nobody
  PROVE  /\ RequestsTyped' /\ request'[r] = q /\ \A o \in WebRequest : o # r => request'[o] = request[o]
         /\ \A o \in WebRequest : request'[o].at \notin {"start", "probe"}
         /\ CommandsTyped' => ProcessesTyped'
<1>1. /\ request' \in [WebRequest -> RequestState] /\ request'[r] = q
      /\ \A o \in WebRequest : o # r => request'[o] = request[o]
  BY BecomesGood
<1>2. \A o \in WebRequest : request'[o].at \notin {"start", "probe"}
  BY <1>1, WsAssumption DEF RequestsTyped
<1>3. RequestsTyped'
  BY <1>1, <1>2, WsAssumption DEF RequestsTyped
<1>4. \A o \in WebRequest : Replaces(request[o])'
  BY <1>2 DEF Replaces
<1> QED  BY <1>1, <1>2, <1>3, <1>4 DEF ProcessesTyped

\* The manager's steps change nothing of what is bound.
LEMMA BindingAlone ==
  ASSUME ServicesInv, NEW r \in WebRequest, UNCHANGED <<entries, wsFile, promised, unclear>>,
         wsFaults' \in 0 .. MaxWsFaults,
         \A o \in WebRequest : o # r => request'[o] = request[o],
         Changes(request'[r]) <=> Changes(request[r]),
         Changes(request[r]) => SameTask(request'[r], request[r])
  PROVE  RegistryTyped' /\ BindingInv'
<1>1. RegistryTyped'
  BY DEF ServicesInv, RegistryTyped
<1>2. \A o \in WebRequest : /\ Changes(request'[o]) <=> Changes(request[o])
                            /\ Changes(request[o]) => SameTask(request'[o], request[o])
  BY DEF SameTask
<1> QED  BY <1>1, <1>2, BindingKept DEF ServicesInv

LEMMA StopKeeps ==
  ASSUME ServicesInv, NEW r \in WebRequest, Stop(r)
  PROVE  ServicesInv'
<1> DEFINE req == request[r]
<1>1. req.at = "stop" /\ holder = Nobody
  BY DEF Stop, RequestAt
<1>2. /\ req \in RequestState /\ Shaped(req) /\ holder # r
      /\ req.kind = "delete" /\ Changes(req) /\ req.service \in Service /\ req.mine = NoProcess
  BY <1>1, UnderWay DEF Shaped, Changes
<1>3. PICK s \in Service : s = req.service
  BY <1>2
<1>4. PICK q \in RequestState :
        /\ q = [req EXCEPT !.at = "delete"] /\ q.at = "delete" /\ q.kind = "delete" /\ q.service = s
        /\ q.cfg = req.cfg /\ q.prev = req.prev /\ q.alone = req.alone /\ q.mine = NoProcess
  <2> DEFINE q == [req EXCEPT !.at = "delete"]
  <2>1. /\ q \in RequestState /\ q.at = "delete" /\ q.kind = "delete" /\ q.service = s
        /\ q.cfg = req.cfg /\ q.prev = req.prev /\ q.alone = req.alone /\ q.mine = NoProcess
    BY <1>2, <1>3 DEF RequestState, AtLabel
  <2> HIDE DEF q
  <2> QED  BY <2>1 DEF q
<1>5. /\ Become(r, q) /\ UNCHANGED <<entries, wsFile, promised, unclear, astray>> /\ holder' = Nobody
      /\ wsFaults' \in 0 .. MaxWsFaults
  BY <1>1, <1>4 DEF Stop, manager, history, ServicesInv, RegistryTyped
<1>6. Shaped(q) /\ SameTask(q, req) /\ Changes(q)
  BY <1>1, <1>2, <1>3, <1>4 DEF Shaped, SameTask, Changes
<1>7. /\ RequestsTyped' /\ request'[r] = q /\ \A o \in WebRequest : o # r => request'[o] = request[o]
      /\ CommandsTyped' => ProcessesTyped'
  BY <1>1, <1>4, <1>5, <1>6, GivenBack DEF ServicesInv
<1>8. RegistryTyped' /\ BindingInv'
  BY <1>2, <1>5, <1>6, <1>7, BindingAlone
<1>9. CommandsTyped' /\ CommandsKept /\ NoProcessIsForgotten'
  <2>1. CASE UNCHANGED manager
    BY <2>1, <1>1 DEF manager, ServicesInv, ProcessesTyped, CommandsTyped, CommandsKept,
                      NoProcessIsForgotten, OursAlive
  <2>2. CASE ~UNCHANGED manager
    <3>1. processes[s] # NoProcess /\ Kill(processes[s]) /\ launched' = launched
          /\ processes' = [processes EXCEPT ![s] = NoProcess]
      BY <2>2, <1>3 DEF Stop
    <3> QED  BY <3>1, <1>1, KeptStopped DEF NoProcessIsForgotten
  <2> QED  BY <2>1, <2>2
<1>10. RunInv'
  <2>1. ASSUME NEW x \in Service, Waiting(x)
        PROVE  Waiting(x)'
    BY <2>1, <1>1, <1>7 DEF Waiting
  <2> QED  BY <2>1, <1>5, <1>9, RunKept DEF ServicesInv
<1> QED  BY <1>7, <1>8, <1>9, <1>10 DEF ServicesInv

\* It is locked for a start.
LEMMA Locked ==
  ASSUME RequestsTyped, NEW r \in WebRequest, NEW q \in RequestState, holder = Nobody, Shaped(q),
         q.at = "start", Become(r, q), holder' = r, CommandsTyped', processes'[q.service] = NoProcess
  PROVE  /\ RequestsTyped' /\ ProcessesTyped' /\ request'[r] = q
         /\ \A o \in WebRequest : o # r => request'[o] = request[o]
<1>1. /\ request' \in [WebRequest -> RequestState] /\ request'[r] = q
      /\ \A o \in WebRequest : o # r => request'[o] = request[o]
  BY BecomesGood
<1>2. \A o \in WebRequest : o # r => request'[o].at \notin {"start", "probe"}
  BY <1>1, WsAssumption DEF RequestsTyped
<1>3. RequestsTyped'
  BY <1>1, <1>2, WsAssumption DEF RequestsTyped
<1>4. ASSUME NEW o \in WebRequest
      PROVE  Replaces(request[o])'
  BY <1>1, <1>2 DEF Replaces
<1> QED  BY <1>1, <1>3, <1>4 DEF ProcessesTyped

LEMMA EnsureStartedKeeps ==
  ASSUME ServicesInv, NEW r \in WebRequest, EnsureStarted(r)
  PROVE  ServicesInv'
<1> DEFINE req == request[r]
<1>1. req.at = "lock" /\ holder = Nobody
  BY DEF EnsureStarted, RequestAt
<1>2. /\ req \in RequestState /\ Shaped(req) /\ holder # r
      /\ req.kind \in {"put", "visit"} /\ req.cfg \in Managed /\ req.service \in Service
      /\ req.mine = NoProcess
  BY <1>1, UnderWay DEF Shaped
<1>3. PICK s \in Service, c \in Managed : s = req.service /\ c = req.cfg
  BY <1>2
<1>4. /\ UNCHANGED <<entries, wsFile, promised, unclear>> /\ wsFaults' \in 0 .. MaxWsFaults
      /\ \A x \in Service : x # s /\ x \notin astray' => x \notin astray
      /\ s \notin astray' => entries[s] = c
  BY <1>3 DEF EnsureStarted, ServicesInv, RegistryTyped
<1>5. ASSUME NEW p \in WsProcess, OursAlive(p)
      PROVE  processes[commands[p].service] = p
  BY <1>1, <1>5 DEF ServicesInv, NoProcessIsForgotten
<1>6. CASE SameConfig(processes[s], c) /\ Become(r, [req EXCEPT !.at = "running", !.mine = processes[s]])
           /\ UNCHANGED manager
  <2>1. PICK p \in WsProcess : p = processes[s]
    BY <1>6, KeptStarted DEF ServicesInv, ProcessesTyped, SameConfig
  <2>2. p \in 0 .. MaxProcesses /\ commands[p].cfg = c
    BY <2>1, <1>6, WsAssumption DEF WsProcess, SameConfig
  <2>3. PICK q \in RequestState :
          /\ q = [req EXCEPT !.at = "running", !.mine = p] /\ q.at = "running" /\ q.kind = req.kind
          /\ q.service = s /\ q.cfg = c /\ q.prev = req.prev /\ q.alone = req.alone
    <3> DEFINE x == [req EXCEPT !.at = "running"]
               q == [x EXCEPT !.mine = p]
    <3>1. /\ x \in RequestState /\ x.at = "running" /\ x.kind = req.kind /\ x.service = s
          /\ x.cfg = c /\ x.prev = req.prev /\ x.alone = req.alone
      BY <1>2, <1>3 DEF RequestState, AtLabel
    <3> HIDE DEF x
    <3>2. /\ q \in RequestState /\ q.at = "running" /\ q.kind = req.kind /\ q.service = s
          /\ q.cfg = c /\ q.prev = req.prev /\ q.alone = req.alone
      BY <2>2, <3>1 DEF RequestState
    <3> HIDE DEF q
    <3>3. q = [req EXCEPT !.at = "running", !.mine = p]
      BY Zenon DEF q, x
    <3> QED  BY <3>2, <3>3
  <2>4. Become(r, q)
    BY <2>1, <2>3, <1>6
  <2>5. Shaped(q) /\ SameTask(q, req) /\ (Changes(q) <=> Changes(req))
    BY <2>3, <1>1, <1>2, <1>3 DEF Shaped, SameTask, Changes
  <2>6. /\ RequestsTyped' /\ ProcessesTyped' /\ CommandsKept /\ NoProcessIsForgotten'
        /\ request'[r] = q /\ \A o \in WebRequest : o # r => request'[o] = request[o]
    BY <2>3, <2>4, <2>5, <1>2, <1>6, MovesOn
  <2>7. RegistryTyped' /\ BindingInv'
    BY <2>5, <2>6, <1>4, BindingAlone
  <2>8. RunInv'
    <3> SUFFICES ASSUME NEW x \in Service, x \notin astray', IsManaged(entries'[x]), ~Waiting(x)'
                 PROVE  \A o \in WsProcess : OursAlive(o)' /\ commands'[o].service = x =>
                          commands'[o].cfg = entries'[x]
      BY <1>1, <1>6 DEF RunInv, IsManaged, manager
    <3>1. CASE x = s
      <4>1. \A o \in WsProcess : OursAlive(o) /\ commands[o].service = s => o = p
        BY <1>5, <2>1
      <4> QED  BY <4>1, <3>1, <2>2, <1>4, <1>6 DEF manager, OursAlive
    <3>2. CASE x # s
      <4>1. ~Waiting(x)
        BY <3>2, <1>3, <2>6 DEF Waiting
      <4>2. x \notin astray /\ entries'[x] = entries[x] /\ IsManaged(entries[x]) /\ commands' = commands
        BY <3>2, <1>4, <1>6 DEF manager, IsManaged
      <4>3. \A o \in WsProcess : OursAlive(o) /\ commands[o].service = x => commands[o].cfg = entries[x]
        BY <4>1, <4>2 DEF ServicesInv, RunInv
      <4> QED  BY <4>2, <4>3 DEF OursAlive
    <3> QED  BY <3>1, <3>2
  <2> QED  BY <2>6, <2>7, <2>8 DEF ServicesInv
<1>7. CASE holder' = r /\ Become(r, [req EXCEPT !.at = "start"])
           /\ \/ /\ processes[s] # NoProcess /\ Kill(processes[s]) /\ launched' = launched
                 /\ processes' = [processes EXCEPT ![s] = NoProcess]
              \/ processes[s] = NoProcess /\ UNCHANGED <<processes, commands, launched, listener>>
  <2>1. PICK q \in RequestState :
          /\ q = [req EXCEPT !.at = "start"] /\ q.at = "start" /\ q.kind = req.kind /\ q.service = s
          /\ q.cfg = c /\ q.prev = req.prev /\ q.alone = req.alone /\ q.mine = NoProcess
    <3> DEFINE q == [req EXCEPT !.at = "start"]
    <3>1. /\ q \in RequestState /\ q.at = "start" /\ q.kind = req.kind /\ q.service = s
          /\ q.cfg = c /\ q.prev = req.prev /\ q.alone = req.alone /\ q.mine = NoProcess
      BY <1>2, <1>3 DEF RequestState, AtLabel
    <3> HIDE DEF q
    <3> QED  BY <3>1 DEF q
  <2>2. Become(r, q)
    BY <2>1, <1>7
  <2>3. Shaped(q) /\ SameTask(q, req) /\ (Changes(q) <=> Changes(req))
    BY <2>1, <1>1, <1>2, <1>3 DEF Shaped, SameTask, Changes
  <2>4. /\ CommandsTyped' /\ CommandsKept /\ processes'[s] = NoProcess
        /\ \A o \in WsProcess : OursAlive(o)' =>
             commands[o].service # s /\ processes'[commands'[o].service] = o
    <3>1. CASE processes[s] # NoProcess
      BY <3>1, <1>1, <1>7, KeptStopped
    <3>2. CASE processes[s] = NoProcess
      <4>1. UNCHANGED <<processes, commands, launched, listener>>
        BY <3>2, <1>7
      <4>2. CommandsTyped' /\ CommandsKept
        BY <4>1 DEF ServicesInv, ProcessesTyped, CommandsTyped, CommandsKept
      <4>3. ASSUME NEW o \in WsProcess, OursAlive(o)
            PROVE  commands[o].service # s
        BY <4>3, <1>5, <3>2 DEF WsProcess, NoProcess
      <4> QED  BY <4>1, <4>2, <4>3, <1>5, <3>2 DEF OursAlive
    <3> QED  BY <3>1, <3>2
  <2>5. /\ RequestsTyped' /\ ProcessesTyped' /\ request'[r] = q
        /\ \A o \in WebRequest : o # r => request'[o] = request[o]
    BY <2>1, <2>2, <2>3, <2>4, <1>1, <1>7, Locked DEF ServicesInv
  <2>6. RegistryTyped' /\ BindingInv'
    BY <2>3, <2>5, <1>4, BindingAlone
  <2>7. NoProcessIsForgotten'
    BY <2>4 DEF NoProcessIsForgotten
  <2>8. RunInv'
    <3> SUFFICES ASSUME NEW x \in Service, x \notin astray', IsManaged(entries'[x]), ~Waiting(x)'
                 PROVE  /\ \A o \in WsProcess : OursAlive(o)' /\ commands'[o].service = x =>
                             commands'[o].cfg = entries'[x]
                        /\ q.service = x => q.cfg = entries'[x]
      BY <1>7, <2>5 DEF RunInv, IsManaged
    <3>1. CASE x = s
      BY <3>1, <2>1, <2>4, <1>4 DEF CommandsKept
    <3>2. CASE x # s
      <4>1. ~Waiting(x)
        BY <3>2, <1>3, <2>5 DEF Waiting
      <4>2. x \notin astray /\ entries'[x] = entries[x] /\ IsManaged(entries[x])
        BY <3>2, <1>4 DEF IsManaged
      <4>3. \A o \in WsProcess : OursAlive(o) /\ commands[o].service = x => commands[o].cfg = entries[x]
        BY <4>1, <4>2 DEF ServicesInv, RunInv
      <4> QED  BY <4>2, <4>3, <3>2, <2>1, <2>4 DEF CommandsKept, OursAlive
    <3> QED  BY <3>1, <3>2
  <2> QED  BY <2>5, <2>6, <2>7, <2>8 DEF ServicesInv
<1> QED  BY <1>3, <1>6, <1>7 DEF EnsureStarted, KillReplaced

\* Where a failed start leads.
LEMMA FailedGood ==
  ASSUME NEW p \in RequestState, Shaped(p), p.at \in {"start", "probe"}
  PROVE  /\ FailedAt(p) \in RequestState /\ Shaped(FailedAt(p))
         /\ FailedAt(p).at \in {"idle", "rollback"}
         /\ Changes(FailedAt(p)) <=> Changes(p)
         /\ Changes(p) => SameTask(FailedAt(p), p)
<1>1. CASE p.kind = "put"
  <2> DEFINE x == [p EXCEPT !.at = "rollback"]
             q == [x EXCEPT !.mine = NoProcess]
  <2>1. /\ x \in RequestState /\ x.at = "rollback" /\ x.kind = p.kind /\ x.service = p.service
        /\ x.cfg = p.cfg /\ x.prev = p.prev /\ x.alone = p.alone
    BY DEF RequestState, AtLabel
  <2> HIDE DEF x
  <2>2. /\ q \in RequestState /\ q.at = "rollback" /\ q.kind = p.kind /\ q.service = p.service
        /\ q.cfg = p.cfg /\ q.prev = p.prev /\ q.alone = p.alone /\ q.mine = NoProcess
    BY <2>1, WsAssumption DEF RequestState, NoProcess
  <2> HIDE DEF q
  <2>3. q = FailedAt(p)
    BY Zenon, <1>1 DEF q, x, FailedAt
  <2>4. Shaped(q) /\ SameTask(q, p) /\ Changes(q) /\ Changes(p)
    BY <1>1, <2>2 DEF Shaped, SameTask, Changes, Config
  <2> QED  BY <2>2, <2>3, <2>4
<1>2. CASE p.kind # "put"
  <2>1. FailedAt(p) = NoRequest /\ ~Changes(p)
    BY <1>2 DEF FailedAt, Shaped, Changes
  <2> QED  BY <2>1, NoRequestGood
<1> QED  BY <1>1, <1>2

\* The holder fails and gives the lock back.
LEMMA FailedStart ==
  ASSUME ServicesInv, NEW r \in WebRequest, holder = r, Become(r, FailedAt(request[r])), holder' = Nobody,
         CommandsTyped', CommandsKept, UNCHANGED <<entries, wsFile, promised, unclear, astray>>,
         wsFaults' \in 0 .. MaxWsFaults
  PROVE  RegistryTyped' /\ RequestsTyped' /\ ProcessesTyped' /\ BindingInv' /\ RunInv'
<1>1. request[r].at \in {"start", "probe"} /\ request[r] \in RequestState /\ Shaped(request[r])
  BY DEF ServicesInv, RequestsTyped
<1>2. PICK q \in RequestState : q = FailedAt(request[r])
  BY <1>1, FailedGood
<1>3. /\ Shaped(q) /\ q.at \in {"idle", "rollback"} /\ (Changes(q) <=> Changes(request[r]))
      /\ Changes(request[r]) => SameTask(q, request[r])
  BY <1>1, <1>2, FailedGood
<1>4. Become(r, q)
  BY <1>2
<1>5. /\ RequestsTyped' /\ request'[r] = q /\ \A o \in WebRequest : o # r => request'[o] = request[o]
      /\ ProcessesTyped'
  BY <1>3, <1>4, GivenBack DEF ServicesInv
<1>6. RegistryTyped' /\ BindingInv'
  BY <1>3, <1>5, BindingAlone
<1>7. RunInv'
  <2>1. ASSUME NEW x \in Service, Waiting(x)
        PROVE  Waiting(x)'
    BY <2>1, <1>1, <1>5 DEF Waiting
  <2> QED  BY <2>1, RunKept DEF ServicesInv
<1> QED  BY <1>5, <1>6, <1>7

LEMMA StartProcessKeeps ==
  ASSUME ServicesInv, NEW r \in WebRequest, StartProcess(r)
  PROVE  ServicesInv'
<1> DEFINE req == request[r]
<1>1. req.at = "start" /\ holder = r
  BY DEF StartProcess, RequestAt
<1>2. /\ req \in RequestState /\ Shaped(req)
      /\ req.kind \in {"put", "visit"} /\ req.cfg \in Managed /\ req.service \in Service
      /\ req.mine = NoProcess /\ Replaces(req)
  BY <1>1, UnderWay DEF Shaped, ServicesInv, ProcessesTyped
<1>3. PICK s \in Service, c \in Managed : s = req.service /\ c = req.cfg
  BY <1>2
<1>4. UNCHANGED <<entries, wsFile, promised, unclear, astray>> /\ wsFaults' \in 0 .. MaxWsFaults
  BY WsAssumption DEF StartProcess, history, ServicesInv, RegistryTyped
<1>5. holder # Nobody
  BY <1>1, WsAssumption
<1>6. CASE /\ launched < MaxProcesses /\ launched' = launched + 1
           /\ commands' = [commands EXCEPT ![launched + 1] = Fresh(s, c)]
           /\ Become(r, [req EXCEPT !.at = "probe", !.mine = launched + 1])
           /\ UNCHANGED <<processes, listener, holder, wsFaults>>
  <2>1. PICK p \in WsProcess : p = launched + 1 /\ p \in 0 .. MaxProcesses /\ p # NoProcess
    BY <1>6, WsAssumption DEF ServicesInv, ProcessesTyped, CommandsTyped, WsProcess, NoProcess
  <2> DEFINE new == Fresh(s, c)
  <2>2. new \in CommandState /\ new.service = s /\ new.cfg = c
    BY DEF Fresh, CommandState
  <2> HIDE DEF new
  <2>3. /\ commands' \in [WsProcess -> CommandState] /\ commands'[p] = new
        /\ \A o \in WsProcess : o # p => commands'[o] = commands[o]
    BY <1>6, <2>1, <2>2 DEF ServicesInv, ProcessesTyped, CommandsTyped, new
  <2>4. PICK q \in RequestState :
          /\ q = [req EXCEPT !.at = "probe", !.mine = p] /\ q.at = "probe" /\ q.kind = req.kind
          /\ q.service = s /\ q.cfg = c /\ q.prev = req.prev /\ q.alone = req.alone /\ q.mine = p
    <3> DEFINE x == [req EXCEPT !.at = "probe"]
               q == [x EXCEPT !.mine = p]
    <3>1. /\ x \in RequestState /\ x.at = "probe" /\ x.kind = req.kind /\ x.service = s
          /\ x.cfg = c /\ x.prev = req.prev /\ x.alone = req.alone
      BY <1>2, <1>3 DEF RequestState, AtLabel
    <3> HIDE DEF x
    <3>2. /\ q \in RequestState /\ q.at = "probe" /\ q.kind = req.kind /\ q.service = s
          /\ q.cfg = c /\ q.prev = req.prev /\ q.alone = req.alone /\ q.mine = p
      BY <2>1, <3>1 DEF RequestState
    <3> HIDE DEF q
    <3>3. q = [req EXCEPT !.at = "probe", !.mine = p]
      BY Zenon DEF q, x
    <3> QED  BY <3>2, <3>3
  <2>5. Become(r, q)
    BY <2>1, <2>4, <1>6
  <2>6. Shaped(q) /\ SameTask(q, req) /\ (Changes(q) <=> Changes(req))
    BY <2>4, <1>1, <1>2, <1>3 DEF Shaped, SameTask, Changes
  <2>7. /\ request' \in [WebRequest -> RequestState] /\ request'[r] = q
        /\ \A o \in WebRequest : o # r => request'[o] = request[o]
    BY <2>5, BecomesGood DEF ServicesInv
  <2>8. RequestsTyped'
    <3>1. ASSUME NEW o \in WebRequest
          PROVE  Shaped(request'[o]) /\ (request'[o].at \in {"start", "probe"} <=> holder = o)
      BY <2>4, <2>6, <2>7, <1>1 DEF ServicesInv, RequestsTyped
    <3> QED  BY <3>1, <2>7, <1>6 DEF ServicesInv, RequestsTyped
  <2>9. CommandsTyped'
    <3>1. launched' \in 0 .. MaxProcesses
      BY <2>1, <1>6
    <3>2. \A x \in Service : processes'[x] # NoProcess => commands'[processes'[x]].service = x
      <4> SUFFICES ASSUME NEW x \in Service, processes[x] # NoProcess
                   PROVE  commands'[processes[x]].service = x
        BY <1>6
      <4>1. processes[x] \in WsProcess /\ processes[x] <= launched /\ commands[processes[x]].service = x
        BY KeptStarted DEF ServicesInv, ProcessesTyped
      <4>2. processes[x] # p
        BY <4>1, <2>1 DEF ServicesInv, ProcessesTyped, CommandsTyped
      <4> QED  BY <4>1, <4>2, <2>3
    <3>3. \A o \in WsProcess : o > launched' => commands'[o] = NoProc
      <4> SUFFICES ASSUME NEW o \in WsProcess, o > launched + 1
                   PROVE  commands'[o] = NoProc
        BY <1>6
      <4>1. o # p /\ o > launched
        BY <2>1 DEF ServicesInv, ProcessesTyped, CommandsTyped, WsProcess
      <4> QED  BY <4>1, <2>3 DEF ServicesInv, ProcessesTyped, CommandsTyped
    <3>4. \A o \in WsProcess : commands'[o].ours => commands'[o].service \in Service
      BY <2>2, <2>3 DEF ServicesInv, ProcessesTyped, CommandsTyped
    <3> QED  BY <3>1, <3>2, <3>3, <3>4, <2>3, <1>6 DEF ServicesInv, ProcessesTyped, CommandsTyped
  <2>10. ProcessesTyped'
    <3>1. ASSUME NEW o \in WebRequest
          PROVE  Replaces(request[o])'
      <4>1. CASE o = r
        <5>1. processes[s] = NoProcess
          BY <1>1, <1>2, <1>3 DEF Replaces
        <5>2. p \in 1 .. launched'
          BY <2>1, <1>6 DEF ServicesInv, ProcessesTyped, CommandsTyped, WsProcess
        <5> QED  BY <4>1, <5>1, <5>2, <1>6, <2>2, <2>3, <2>4, <2>7 DEF Replaces
      <4>2. CASE o # r
        BY <4>2, <2>7, <1>1 DEF Replaces, ServicesInv, RequestsTyped
      <4> QED  BY <4>1, <4>2
    <3> QED  BY <2>9, <3>1 DEF ProcessesTyped
  <2>11. NoProcessIsForgotten'
    <3> SUFFICES ASSUME NEW o \in WsProcess, OursAlive(o)', o # p
                 PROVE  processes'[commands'[o].service] = o
      BY <1>1, <1>5, <1>6, <2>4, <2>7 DEF NoProcessIsForgotten
    <3>1. commands'[o] = commands[o] /\ OursAlive(o)
      BY <2>3 DEF OursAlive
    <3>2. request[holder].mine # o
      BY <1>1, <1>2, WsAssumption DEF WsProcess, NoProcess
    <3> QED  BY <3>1, <3>2, <1>6 DEF ServicesInv, NoProcessIsForgotten
  <2>12. RegistryTyped' /\ BindingInv'
    BY <2>6, <2>7, <1>4, BindingAlone
  <2>13. RunInv'
    <3> SUFFICES ASSUME NEW x \in Service, x \notin astray, IsManaged(entries[x]), ~Waiting(x)'
                 PROVE  /\ \A o \in WsProcess : OursAlive(o)' /\ commands'[o].service = x =>
                             commands'[o].cfg = entries[x]
                        /\ q.service = x => q.cfg = entries[x]
      BY <1>1, <1>4, <1>6, <2>7 DEF RunInv, IsManaged
    <3>1. ~Waiting(x)
      BY <1>1, <2>7 DEF Waiting
    <3>2. s = x => c = entries[x]
      BY <3>1, <1>1, <1>3, <1>5 DEF ServicesInv, RunInv
    <3>3. ASSUME NEW o \in WsProcess, OursAlive(o)', commands'[o].service = x
          PROVE  commands'[o].cfg = entries[x]
      BY <3>1, <3>2, <3>3, <2>2, <2>3 DEF ServicesInv, RunInv, OursAlive
    <3> QED  BY <3>2, <3>3, <2>4
  <2> QED  BY <2>8, <2>10, <2>11, <2>12, <2>13 DEF ServicesInv
<1>7. CASE Become(r, FailedAt(req)) /\ holder' = Nobody /\ UNCHANGED <<processes, commands, launched, listener>>
  <2>1. CommandsTyped' /\ CommandsKept
    BY <1>7 DEF ServicesInv, ProcessesTyped, CommandsTyped, CommandsKept
  <2>2. NoProcessIsForgotten'
    <3> SUFFICES ASSUME NEW o \in WsProcess, OursAlive(o)
                 PROVE  processes[commands[o].service] = o
      BY <1>7 DEF NoProcessIsForgotten, OursAlive
    <3>1. request[holder].mine # o
      BY <1>1, <1>2, WsAssumption DEF WsProcess, NoProcess
    <3> QED  BY <3>1 DEF ServicesInv, NoProcessIsForgotten
  <2> QED  BY <2>1, <2>2, <1>1, <1>4, <1>7, FailedStart DEF ServicesInv
<1> QED  BY <1>3, <1>6, <1>7 DEF StartProcess, Released

LEMMA ProbeAnsweredKeeps ==
  ASSUME ServicesInv, NEW r \in WebRequest, ProbeAnswered(r)
  PROVE  ServicesInv'
<1> DEFINE req == request[r]
<1>1. req.at = "probe" /\ holder = r
  BY UnderWay DEF ProbeAnswered, RequestAt
<1>2. /\ req \in RequestState /\ Shaped(req)
      /\ req.kind \in {"put", "visit"} /\ req.cfg \in Managed /\ req.service \in Service
      /\ Replaces(req)
  BY <1>1, UnderWay DEF Shaped, ServicesInv, ProcessesTyped
<1>3. PICK s \in Service, p \in WsProcess : s = req.service /\ p = req.mine /\ p \in 0 .. MaxProcesses
  BY <1>1, <1>2, WsAssumption DEF Replaces, WsProcess, ServicesInv, ProcessesTyped, CommandsTyped
<1>4. commands[p].service = s /\ processes[s] = NoProcess
  BY <1>1, <1>2, <1>3 DEF Replaces
<1>5. /\ UNCHANGED <<entries, wsFile, promised, unclear, astray, commands, launched, listener>>
      /\ wsFaults' \in 0 .. MaxWsFaults /\ holder' = Nobody
      /\ processes' = [processes EXCEPT ![s] = p] /\ Become(r, [req EXCEPT !.at = "running"])
  BY <1>3 DEF ProbeAnswered, history, ServicesInv, RegistryTyped
<1>6. PICK q \in RequestState :
        /\ q = [req EXCEPT !.at = "running"] /\ q.at = "running" /\ q.kind = req.kind
        /\ q.service = req.service /\ q.cfg = req.cfg /\ q.prev = req.prev /\ q.alone = req.alone
  <2> DEFINE q == [req EXCEPT !.at = "running"]
  <2>1. /\ q \in RequestState /\ q.at = "running" /\ q.kind = req.kind
        /\ q.service = req.service /\ q.cfg = req.cfg /\ q.prev = req.prev /\ q.alone = req.alone
    BY <1>2 DEF RequestState, AtLabel
  <2> HIDE DEF q
  <2> QED  BY <2>1 DEF q
<1>7. Become(r, q)
  BY <1>5, <1>6
<1>8. Shaped(q) /\ SameTask(q, req) /\ (Changes(q) <=> Changes(req))
  BY <1>1, <1>2, <1>6 DEF Shaped, SameTask, Changes
<1>9. /\ RequestsTyped' /\ request'[r] = q /\ \A o \in WebRequest : o # r => request'[o] = request[o]
      /\ CommandsTyped' => ProcessesTyped'
  BY <1>1, <1>5, <1>6, <1>7, <1>8, GivenBack DEF ServicesInv
<1>10. RegistryTyped' /\ BindingInv'
  BY <1>5, <1>8, <1>9, BindingAlone
<1>11. /\ processes' \in [Service -> 0 .. MaxProcesses] /\ processes'[s] = p
       /\ \A x \in Service : x # s => processes'[x] = processes[x]
  BY <1>3, <1>5 DEF ServicesInv, ProcessesTyped, CommandsTyped
<1>12. CommandsTyped' /\ CommandsKept
  BY <1>4, <1>5, <1>11 DEF ServicesInv, ProcessesTyped, CommandsTyped, CommandsKept
<1>13. NoProcessIsForgotten'
  <2> SUFFICES ASSUME NEW o \in WsProcess, OursAlive(o)
               PROVE  processes'[commands[o].service] = o
    BY <1>5 DEF NoProcessIsForgotten, OursAlive
  <2>1. CASE o = p
    BY <2>1, <1>4, <1>11
  <2>2. CASE o # p
    <3>1. processes[commands[o].service] = o
      BY <2>2, <1>1, <1>3 DEF ServicesInv, NoProcessIsForgotten
    <3>2. commands[o].service \in Service
      BY DEF ServicesInv, ProcessesTyped, CommandsTyped, OursAlive
    <3>3. commands[o].service # s
      BY <3>1, <1>4 DEF WsProcess, NoProcess
    <3> QED  BY <3>1, <3>2, <3>3, <1>11
  <2> QED  BY <2>1, <2>2
<1>14. RunInv'
  <2>1. ASSUME NEW x \in Service, Waiting(x)
        PROVE  Waiting(x)'
    BY <2>1, <1>1, <1>9 DEF Waiting
  <2> QED  BY <2>1, <1>5, <1>12, RunKept DEF ServicesInv
<1> QED  BY <1>9, <1>10, <1>12, <1>13, <1>14 DEF ServicesInv

LEMMA ProbeTimesOutKeeps ==
  ASSUME ServicesInv, NEW r \in WebRequest, ProbeTimesOut(r)
  PROVE  ServicesInv'
<1> DEFINE req == request[r]
<1>1. req.at = "probe" /\ holder = r
  BY UnderWay DEF ProbeTimesOut, RequestAt
<1>2. PICK p \in WsProcess : p = req.mine /\ p <= launched
  BY <1>1, WsAssumption DEF Replaces, WsProcess, ServicesInv, ProcessesTyped, CommandsTyped
<1>3. /\ UNCHANGED <<entries, wsFile, promised, unclear, astray, processes, launched>>
      /\ wsFaults' \in 0 .. MaxWsFaults /\ holder' = Nobody
      /\ Kill(p) /\ Become(r, FailedAt(req))
  BY <1>2 DEF ProbeTimesOut, history, ServicesInv, RegistryTyped, Released
<1>4. CommandsTyped' /\ CommandsKept /\ ~commands'[p].alive
      /\ \A q \in WsProcess : q # p => commands'[q] = commands[q]
  BY <1>2, <1>3, KilledGood DEF ServicesInv
<1>5. NoProcessIsForgotten'
  <2> SUFFICES ASSUME NEW o \in WsProcess, OursAlive(o)'
               PROVE  processes'[commands'[o].service] = o
    BY DEF NoProcessIsForgotten
  <2>1. o # p /\ commands'[o] = commands[o] /\ OursAlive(o)
    BY <1>4 DEF OursAlive
  <2> QED  BY <2>1, <1>1, <1>2, <1>3 DEF ServicesInv, NoProcessIsForgotten
<1> QED  BY <1>1, <1>3, <1>4, <1>5, FailedStart DEF ServicesInv

\* The processes change, the requests and the registry do not.
LEMMA Apart ==
  ASSUME ServicesInv, UNCHANGED <<entries, wsFile, request, holder, promised, unclear, astray>>,
         wsFaults' \in 0 .. MaxWsFaults
  PROVE  RegistryTyped' /\ RequestsTyped' /\ BindingInv'
<1>1. RegistryTyped' /\ RequestsTyped'
  BY DEF ServicesInv, RegistryTyped, RequestsTyped
<1>2. \A o \in WebRequest : /\ Changes(request'[o]) <=> Changes(request[o])
                            /\ Changes(request[o]) => SameTask(request'[o], request[o])
  BY DEF SameTask
<1> QED  BY <1>1, <1>2, BindingKept DEF ServicesInv

\* A process that dies, or begins to listen.
LEMMA ApartKept ==
  ASSUME ServicesInv, UNCHANGED <<entries, request, holder, astray, processes, launched>>,
         CommandsTyped', CommandsKept
  PROVE  ProcessesTyped' /\ NoProcessIsForgotten' /\ RunInv'
<1>1. ASSUME NEW o \in WebRequest
      PROVE  Replaces(request[o])'
  <2>1. CASE request[o].at = "probe"
    <3>1. request[o].mine \in WsProcess
      BY <2>1, WsAssumption DEF ServicesInv, ProcessesTyped, CommandsTyped, Replaces, WsProcess
    <3> QED  BY <2>1, <3>1 DEF ServicesInv, ProcessesTyped, Replaces, CommandsKept
  <2>2. CASE request[o].at # "probe"
    BY <2>2 DEF ServicesInv, ProcessesTyped, Replaces
  <2> QED  BY <2>1, <2>2
<1>2. ProcessesTyped'
  BY <1>1 DEF ProcessesTyped
<1>3. NoProcessIsForgotten'
  BY ForgottenKept DEF ServicesInv
<1>4. \A x \in Service : Waiting(x)' <=> Waiting(x)
  BY DEF Waiting
<1>5. RunInv'
  BY <1>4, RunKept DEF ServicesInv
<1> QED  BY <1>2, <1>3, <1>5

LEMMA AliveStarted ==
  ASSUME ServicesInv, NEW p \in WsProcess, commands[p].alive
  PROVE  p <= launched
BY WsAssumption DEF ServicesInv, ProcessesTyped, CommandsTyped, WsProcess, NoProc

LEMMA ProcessDiesKeeps ==
  ASSUME ServicesInv, NEW p \in WsProcess, ProcessDies(p)
  PROVE  ServicesInv'
<1>1. /\ commands[p].alive /\ Kill(p) /\ wsFaults' \in 0 .. MaxWsFaults
      /\ UNCHANGED <<entries, wsFile, request, processes, launched, holder, promised, unclear, astray>>
  BY WsAssumption DEF ProcessDies, history, ServicesInv, RegistryTyped
<1>2. CommandsTyped' /\ CommandsKept
  BY <1>1, AliveStarted, KilledGood DEF ServicesInv
<1> QED  BY <1>1, <1>2, Apart, ApartKept DEF ServicesInv

LEMMA ListenKeeps ==
  ASSUME ServicesInv, NEW p \in WsProcess, Listen(p)
  PROVE  ServicesInv'
<1>1. /\ commands[p].alive /\ wsFaults' \in 0 .. MaxWsFaults
      /\ UNCHANGED <<entries, wsFile, request, processes, launched, holder, promised, unclear, astray>>
  BY DEF Listen, history, ServicesInv, RegistryTyped
<1>2. CommandsTyped' /\ CommandsKept
  <2>1. CASE UNCHANGED commands /\ listener' = [listener EXCEPT ![PortOf[commands[p].cfg]] = p]
    <3>1. p \in 0 .. MaxProcesses
      BY WsAssumption DEF WsProcess
    <3>2. listener' \in [Port -> 0 .. MaxProcesses]
      BY <2>1, <3>1 DEF ServicesInv, ProcessesTyped, CommandsTyped
    <3> QED  BY <1>1, <2>1, <3>2 DEF ServicesInv, ProcessesTyped, CommandsTyped, CommandsKept
  <2>2. CASE commands' = [commands EXCEPT ![p].alive = FALSE] /\ UNCHANGED listener
    <3>1. PortFreed(p) = listener
      BY DEF Listen, PortFreed, ServicesInv, ProcessesTyped, CommandsTyped
    <3>2. Kill(p)
      BY <2>2, <3>1 DEF Kill
    <3> QED  BY <1>1, <3>2, AliveStarted, KilledGood DEF ServicesInv
  <2> QED  BY <2>1, <2>2 DEF Listen
<1> QED  BY <1>1, <1>2, Apart, ApartKept DEF ServicesInv

LEMMA ReapKeeps ==
  ASSUME ServicesInv, NEW p \in WsProcess, Reap(p)
  PROVE  ServicesInv'
<1>1. /\ commands[p].ours /\ ~commands[p].alive /\ holder = Nobody
      /\ wsFaults' \in 0 .. MaxWsFaults
      /\ UNCHANGED <<entries, wsFile, request, launched, listener, holder, promised, unclear, astray>>
  BY DEF Reap, history, ServicesInv, RegistryTyped
<1>2. commands[p] \in CommandState /\ commands[p].service \in Service /\ commands[p] # NoProc
  BY <1>1 DEF ServicesInv, ProcessesTyped, CommandsTyped, NoProc
<1>3. PICK s \in Service : s = commands[p].service
  BY <1>2
<1>4. /\ commands' \in [WsProcess -> CommandState] /\ ~commands'[p].alive
      /\ \A q \in WsProcess : q # p => commands'[q] = commands[q]
      /\ commands'[p].ours => commands'[p].service = s
      /\ commands'[p].service = s \/ commands'[p] = NoProc
  <2> DEFINE gone == [commands[p] EXCEPT !.reaped = TRUE]
  <2>1. gone \in CommandState /\ ~gone.alive /\ gone.service = s
    BY <1>1, <1>2, <1>3 DEF CommandState
  <2>2. NoProc \in CommandState /\ ~NoProc.alive /\ ~NoProc.ours
    BY DEF NoProc, CommandState
  <2>3. commands' = [commands EXCEPT ![p] = gone] \/ commands' = [commands EXCEPT ![p] = NoProc]
    BY DEF Reap
  <2> HIDE DEF gone
  <2> QED  BY <2>1, <2>2, <2>3 DEF ServicesInv, ProcessesTyped, CommandsTyped
<1>5. /\ processes' \in [Service -> 0 .. MaxProcesses]
      /\ \A x \in Service : x # s => processes'[x] = processes[x]
      /\ processes'[s] = IF processes[s] = p THEN NoProcess ELSE processes[s]
  BY <1>3, WsAssumption DEF Reap, IsCurrent, ServicesInv, ProcessesTyped, CommandsTyped, NoProcess
<1>6. \A x \in Service : processes'[x] # NoProcess => processes'[x] # p /\ processes'[x] = processes[x]
  <2> SUFFICES ASSUME NEW x \in Service, processes'[x] # NoProcess
               PROVE  processes'[x] # p /\ processes'[x] = processes[x]
    OBVIOUS
  <2>1. CASE x = s
    BY <2>1, <1>5
  <2>2. CASE x # s
    <3>1. processes'[x] = processes[x] /\ commands[processes[x]].service = x
      BY <2>2, <1>5, KeptStarted DEF ServicesInv, ProcessesTyped
    <3> QED  BY <3>1, <2>2, <1>3
  <2> QED  BY <2>1, <2>2
<1>7. CommandsTyped'
  <2>1. \A x \in Service : processes'[x] # NoProcess => commands'[processes'[x]].service = x
    <3> SUFFICES ASSUME NEW x \in Service, processes'[x] # NoProcess
                 PROVE  commands'[processes'[x]].service = x
      OBVIOUS
    <3>1. processes'[x] = processes[x] /\ processes[x] # p
      BY <1>6
    <3>2. processes[x] \in WsProcess /\ commands[processes[x]].service = x
      BY <3>1, KeptStarted DEF ServicesInv, ProcessesTyped
    <3> QED  BY <3>1, <3>2, <1>4
  <2>2. \A q \in WsProcess : q > launched => commands'[q] = NoProc
    BY <1>2, <1>4 DEF ServicesInv, ProcessesTyped, CommandsTyped
  <2>3. \A q \in WsProcess : commands'[q].ours => commands'[q].service \in Service
    BY <1>4 DEF ServicesInv, ProcessesTyped, CommandsTyped
  <2> QED  BY <1>1, <1>4, <1>5, <2>1, <2>2, <2>3 DEF ServicesInv, ProcessesTyped, CommandsTyped
<1>8. ProcessesTyped'
  <2>1. \A r \in WebRequest : request'[r].at \notin {"start", "probe"}
    BY <1>1, WsAssumption DEF ServicesInv, RequestsTyped
  <2>2. \A r \in WebRequest : Replaces(request[r])'
    BY <2>1 DEF Replaces
  <2> QED  BY <1>7, <2>2 DEF ProcessesTyped
<1>9. \A q \in WsProcess : OursAlive(q)' => q # p /\ commands'[q] = commands[q] /\ OursAlive(q)
  BY <1>4 DEF OursAlive
<1>10. NoProcessIsForgotten'
  <2> SUFFICES ASSUME NEW q \in WsProcess, OursAlive(q)'
               PROVE  processes'[commands'[q].service] = q
    BY DEF NoProcessIsForgotten
  <2>1. q # p /\ commands'[q] = commands[q] /\ OursAlive(q)
    BY <1>9
  <2>2. processes[commands[q].service] = q
    BY <2>1, <1>1 DEF ServicesInv, NoProcessIsForgotten
  <2>3. commands[q].service \in Service
    BY <2>1 DEF ServicesInv, ProcessesTyped, CommandsTyped, OursAlive
  <2> QED  BY <2>1, <2>2, <2>3, <1>5
<1>11. RunInv'
  <2>1. \A x \in Service : Waiting(x)' <=> Waiting(x)
    BY <1>1 DEF Waiting
  <2> SUFFICES ASSUME NEW x \in Service, x \notin astray, IsManaged(entries[x]), ~Waiting(x)
               PROVE  \A q \in WsProcess : OursAlive(q)' /\ commands'[q].service = x =>
                        commands'[q].cfg = entries[x]
    BY <1>1, <2>1 DEF RunInv, IsManaged
  <2> QED  BY <1>9 DEF ServicesInv, RunInv
<1> QED  BY <1>1, <1>8, <1>10, <1>11, Apart DEF ServicesInv

LEMMA WsCrashKeeps ==
  ASSUME ServicesInv, WsCrash
  PROVE  ServicesInv'
<1>1. /\ ~wsFile.torn /\ entries' = wsFile.entries /\ UNCHANGED <<wsFile, launched, listener, promised, astray>>
      /\ processes' = [s \in Service |-> NoProcess] /\ holder' = Nobody
      /\ commands' = [p \in WsProcess |-> [commands[p] EXCEPT !.ours = FALSE]]
      /\ request' = [r \in WebRequest |-> NoRequest] /\ wsFaults' \in 0 .. MaxWsFaults
      /\ unclear' = unclear \cup {request[r].service : r \in {q \in WebRequest : request[q].kind \in {"put", "delete"}}}
  BY WsAssumption DEF WsCrash, ServicesInv, RegistryTyped
<1>2. \A r \in WebRequest : Changes(request[r]) => request[r].service \in Service
  BY NoRequestGood DEF ServicesInv, RequestsTyped, Shaped
<1>3. RegistryTyped'
  <2>1. unclear' \subseteq Service
    BY <1>1, <1>2 DEF Changes, ServicesInv, RegistryTyped
  <2> QED  BY <1>1, <2>1 DEF ServicesInv, RegistryTyped
<1>4. RequestsTyped'
  <2>1. \A r \in WebRequest : request'[r] = NoRequest /\ r # Nobody
    BY <1>1, WsAssumption
  <2>2. request' \in [WebRequest -> RequestState]
    BY <1>1, NoRequestGood
  <2> QED  BY <1>1, <2>1, <2>2, NoRequestGood DEF RequestsTyped
<1>5. ASSUME NEW p \in WsProcess
      PROVE  /\ commands'[p] \in CommandState /\ ~commands'[p].ours
             /\ commands[p] = NoProc => commands'[p] = NoProc
  <2> DEFINE x == [commands[p] EXCEPT !.ours = FALSE]
  <2>1. x \in CommandState /\ ~x.ours
    BY DEF ServicesInv, ProcessesTyped, CommandsTyped, CommandState
  <2>2. ASSUME commands[p] = NoProc
        PROVE  x = NoProc
    <3>1. x.service = Unbound /\ x.cfg = Unbound /\ x.alive = FALSE /\ x.ours = FALSE /\ x.reaped = TRUE
      BY <2>2 DEF NoProc
    <3> HIDE DEF x
    <3>2. x = [service |-> x.service, cfg |-> x.cfg, alive |-> x.alive, ours |-> x.ours,
               reaped |-> x.reaped]
      BY <2>1 DEF CommandState
    <3> QED  BY <3>1, <3>2 DEF NoProc
  <2> HIDE DEF x
  <2>3. commands'[p] = x
    BY <1>1 DEF x
  <2> QED  BY <2>1, <2>2, <2>3
<1>6. ProcessesTyped'
  <2>1. commands' \in [WsProcess -> CommandState]
    <3>1. commands' = [p \in WsProcess |-> commands'[p]]
      BY <1>1
    <3> QED  BY <3>1, <1>5
  <2>2. processes' \in [Service -> 0 .. MaxProcesses]
    BY <1>1, WsAssumption DEF NoProcess
  <2>3. \A p \in WsProcess : p > launched => commands'[p] = NoProc
    BY <1>5 DEF ServicesInv, ProcessesTyped, CommandsTyped
  <2>4. CommandsTyped'
    BY <1>1, <1>5, <2>1, <2>2, <2>3 DEF ServicesInv, ProcessesTyped, CommandsTyped
  <2>5. \A r \in WebRequest : request'[r].at = "idle"
    BY <1>1, NoRequestGood
  <2>6. \A r \in WebRequest : Replaces(request[r])'
    BY <2>5 DEF Replaces
  <2> QED  BY <2>4, <2>6 DEF ProcessesTyped
<1>7. NoProcessIsForgotten'
  BY <1>5 DEF NoProcessIsForgotten, OursAlive
<1>8. BindingInv'
  <2>1. \A r \in WebRequest : ~Changes(request'[r])
    BY <1>1, NoRequestGood
  <2>2. ASSUME NEW s \in Service, s \notin unclear'
        PROVE  entries'[s] = promised'[s] /\ FileHas(s)'
    <3>1. s \notin unclear /\ ~Changed(s)
      BY <2>2, <1>1 DEF Changed, Changes
    <3>2. FileHas(s) /\ entries[s] = promised[s]
      BY <3>1 DEF ServicesInv, BindingInv
    <3> QED  BY <3>2, <1>1 DEF FileHas
  <2> QED  BY <2>1, <2>2 DEF BindingInv
<1>9. RunInv'
  BY <1>1, <1>5 DEF RunInv, OursAlive
<1> QED  BY <1>3, <1>4, <1>6, <1>7, <1>8, <1>9 DEF ServicesInv

LEMMA ServicesStep ==
  ASSUME ServicesInv, [WsNext]_wsVars
  PROVE  ServicesInv'
<1>1. CASE UNCHANGED wsVars
  BY <1>1 DEF wsVars, ServicesInv, RegistryTyped, RequestsTyped, ProcessesTyped, CommandsTyped, Replaces,
              NoProcessIsForgotten, OursAlive, BindingInv, Knows, FileHas, Changed, RunInv, Waiting
<1>2. CASE \E r \in WebRequest, s \in Service :
             (\E c \in Config : BeginPut(r, s, c)) \/ BeginDelete(r, s) \/ Visit(r, s)
  BY <1>2, BeginPutKeeps, BeginDeleteKeeps, VisitKeeps
<1>3. CASE \E r \in WebRequest : Step(r)
  <2>1. PICK r \in WebRequest : Step(r)
    BY <1>3
  <2> QED  BY <2>1, UpsertKeeps, RollBackKeeps, DeleteEntryKeeps, RespondKeeps, EnsureStartedKeeps,
              StartProcessKeeps, ProbeAnsweredKeeps, ProbeTimesOutKeeps, StopKeeps DEF Step
<1>4. CASE \E p \in WsProcess : Listen(p) \/ ProcessDies(p) \/ Reap(p)
  BY <1>4, ListenKeeps, ProcessDiesKeeps, ReapKeeps
<1>5. CASE WsCrash
  BY <1>5, WsCrashKeeps
<1> QED  BY <1>1, <1>2, <1>3, <1>4, <1>5 DEF WsNext

\* What runs for a service is what is bound to it, what the answers promised is
\* bound in memory and in the file, and no process is forgotten, for any number
\* of services, requests, processes and faults: the handlers of
\* workspace_service.go and the manager of workspace_service_runtime.go.
THEOREM ServicesRunAsBoundAlways == WsSpec => []ServicesRunAsBound
<1>1. WsInit => ServicesInv
  BY ServicesInit
<1>2. ServicesInv /\ [WsNext]_wsVars => ServicesInv'
  BY ServicesStep
<1>3. ServicesInv => ServicesRunAsBound
  BY ServicesProperty
<1> QED  BY <1>1, <1>2, <1>3, PTL DEF WsSpec

=============================================================================
