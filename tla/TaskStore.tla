------------------------------ MODULE TaskStore ------------------------------
(***************************************************************************)
(* Tasks: internal/task/application/service.go and its directory layout,   *)
(* storage/infrastructure/localfile/task_store.go.                         *)
(*                                                                         *)
(* The program no longer creates tasks; it loads those that an earlier     *)
(* version left, moves their artifacts' content into files of their own,   *)
(* and deletes the tasks of a session with the session.  A save writes the *)
(* directory of every task, then the index that lists them, then removes   *)
(* the directories the index no longer lists; a load rewrites files too.   *)
(* Every file is written in place, so each write below may fail or be the  *)
(* last thing the process does.                                            *)
(***************************************************************************)
EXTENDS Naturals, FiniteSets

CONSTANTS
  Task, Owner,   \* the tasks left by the earlier version, and their sessions
  MaxTaskFaults  \* bound: failing writes and crashes

TaskSession == {Owner[t] : t \in Task}

ASSUME TaskAssumption == "none" \notin Task /\ MaxTaskFaults \in Nat

VARIABLES
  taskIndex,    \* index.json: its state and the tasks it lists
  taskDir,      \* tasks/<id>: meta.json, artifacts.json, the artifact's file
  running,      \* the tasks whose recorded status is queued or running
  sourceThere,  \* the files that artifacts still refer to exist
  tasks,        \* Service.tasks: for a known task, its artifact
  taskUp,       \* NewService returned
  taskCall,     \* what holds the locks: a load or a save, and how far it is
  taskFaults,
            \* history of the run, read by the properties only
  deleted,  \* the sessions whose deletion was acknowledged
  spoiled,  \* the tasks one of whose files was cut by a failing write
  removed,  \* the tasks whose directory was removed
  content   \* the tasks whose artifact has a content

taskVars == <<taskIndex, taskDir, running, sourceThere, tasks, taskUp, taskCall, taskFaults,
              deleted, spoiled, removed, content>>

\* An artifact: none, or one whose content is in the manifest ("inline"), in
\* another file ("source") or in the task's own directory ("plain").
Artifact == {"none", "inline", "source", "plain"}
NoDir == [meta |-> "none", manifest |-> "none", blob |-> "none"]
IdleCall == [kind |-> "idle", todo |-> {}, task |-> "none", step |-> "none",
         sess |-> "none", before |-> [t \in Task |-> "unknown"]]
Unknown == [t \in Task |-> "unknown"]
Known == {t \in Task : tasks[t] # "unknown"}
InIndex == IF taskIndex.st = "ok" THEN taskIndex.tasks ELSE {}
Kept(m) == {t \in Task : m[t] # "unknown"}

\* IsChatRuntime: only tasks that ended are taken over.
Ended(t) == t \notin running

(***************************************************************************)
(* Loading: Load, loadFromTaskLayout, loadTaskEntry, loadStore             *)
(***************************************************************************)

BeginLoad ==
  /\ ~taskUp /\ taskCall.kind = "idle"
  /\ taskIndex.st # "torn"
  /\ taskCall' = [IdleCall EXCEPT !.kind = "load", !.todo = InIndex]
  /\ UNCHANGED <<taskIndex, taskDir, running, sourceThere, tasks, taskUp, taskFaults,
                 deleted, spoiled, removed, content>>

\* A task can be read when its files are whole and its source, if it still
\* has one, is there.
Readable(t) ==
  /\ taskDir[t].meta = "ok"
  /\ taskDir[t].manifest # "torn"
  /\ taskDir[t].manifest = "source" => sourceThere

\* One task that cannot be read refuses the whole load, and with it the start.
LoadEntry(t) ==
  /\ taskCall.kind = "load" /\ taskCall.step = "none" /\ t \in taskCall.todo
  /\ IF Readable(t)
     THEN /\ taskCall' = [taskCall EXCEPT !.todo = @ \ {t}, !.task = t, !.step = "snapshot"]
          /\ UNCHANGED tasks
     ELSE taskCall' = IdleCall /\ tasks' = Unknown
  /\ UNCHANGED <<taskIndex, taskDir, running, sourceThere, taskUp, taskFaults, deleted,
                 spoiled, removed, content>>

\* The artifact that is being saved: the loaded manifest's, or memory's.
Given(t) == IF taskCall.kind = "load" THEN taskDir[t].manifest ELSE tasks[t]

\* resolveArtifactSnapshotBytes: the content given, or what the task's own
\* file already holds.
Bytes(t) ==
  CASE Given(t) = "none" -> "none"
    [] Given(t) \in {"inline", "source"} -> "full"
    [] OTHER -> IF taskDir[t].blob = "none" THEN "empty" ELSE taskDir[t].blob

\* snapshotTaskArtifacts: the task's own file is written, or removed.
Snapshot(t) ==
  /\ taskCall.task = t /\ taskCall.step = "snapshot"
  /\ taskDir' = [taskDir EXCEPT ![t].blob = Bytes(t)]
  /\ taskCall' = [taskCall EXCEPT !.step = "manifest"]
  /\ UNCHANGED <<taskIndex, running, sourceThere, tasks, taskUp, taskFaults, deleted,
                 spoiled, removed, content>>

WithContent(t) == Given(t)

\* The artifact as it is kept: its content is in the task's own file.
Stripped(t) == IF Given(t) = "none" THEN "none" ELSE "plain"

\* writeTaskArtifacts.
WriteManifest(t) ==
  /\ taskCall.task = t /\ taskCall.step = "manifest"
  /\ taskDir' = [taskDir EXCEPT ![t].manifest = Stripped(t)]
  /\ tasks' = IF taskCall.kind = "load" THEN [tasks EXCEPT ![t] = Stripped(t)] ELSE tasks
  /\ taskCall' = [taskCall EXCEPT !.task = "none", !.step = "none"]
  /\ UNCHANGED <<taskIndex, running, sourceThere, taskUp, taskFaults, deleted, spoiled, removed, content>>

FinishLoad ==
  /\ taskCall.kind = "load" /\ taskCall.step = "none" /\ taskCall.todo = {}
  /\ tasks' = [t \in Task |-> IF Ended(t) THEN tasks[t] ELSE "unknown"]
  /\ taskUp' = TRUE /\ taskCall' = IdleCall
  /\ UNCHANGED <<taskIndex, taskDir, running, sourceThere, taskFaults, deleted, spoiled, removed, content>>

(***************************************************************************)
(* Deleting and saving: DeleteBySession, storeLocked, saveTaskLayout       *)
(***************************************************************************)

OfSession(s) == {t \in Known : Owner[t] = s}

DeleteBySession(s) ==
  /\ taskUp /\ taskCall.kind = "idle"
  /\ IF OfSession(s) = {}
     THEN deleted' = deleted \cup {s} /\ UNCHANGED <<tasks, taskCall>>
     ELSE LET left == [t \in Task |-> IF t \in OfSession(s) THEN "unknown" ELSE tasks[t]]
          IN /\ tasks' = left
             /\ taskCall' = [kind |-> "save", todo |-> Kept(left), task |-> "none",
                        step |-> "none", sess |-> s, before |-> tasks]
             /\ UNCHANGED deleted
  /\ UNCHANGED <<taskIndex, taskDir, running, sourceThere, taskUp, taskFaults, spoiled, removed, content>>

WriteMeta(t) ==
  /\ taskCall.kind = "save" /\ taskCall.step = "none" /\ t \in taskCall.todo
  /\ taskDir' = [taskDir EXCEPT ![t].meta = "ok"]
  /\ taskCall' = [taskCall EXCEPT !.todo = @ \ {t}, !.task = t, !.step = "snapshot"]
  /\ UNCHANGED <<taskIndex, running, sourceThere, tasks, taskUp, taskFaults, deleted,
                 spoiled, removed, content>>

WriteIndex ==
  /\ taskCall.kind = "save" /\ taskCall.step = "none" /\ taskCall.todo = {}
  /\ taskIndex' = [st |-> "ok", tasks |-> Known]
  /\ taskCall' = [taskCall EXCEPT !.step = "remove"]
  /\ UNCHANGED <<taskDir, running, sourceThere, tasks, taskUp, taskFaults, deleted, spoiled, removed, content>>

\* cleanupRemovedTaskDirs: every directory that was not kept.
Stray == {t \in Task \ Known : taskDir[t] # NoDir}

BeforeIndex == taskCall.kind = "save" /\ taskCall.step = "none" /\ taskCall.todo = {}

CleaningUp == taskCall.step = "remove"

RemoveDir(t) ==
  /\ CleaningUp /\ t \in Stray
  /\ taskDir' = [taskDir EXCEPT ![t] = NoDir] /\ removed' = removed \cup {t}
  /\ UNCHANGED <<taskIndex, running, sourceThere, tasks, taskUp, taskCall, taskFaults, deleted,
                 spoiled, content>>

FinishDelete ==
  /\ taskCall.step = "remove" /\ Stray = {}
  /\ deleted' = deleted \cup {taskCall.sess} /\ taskCall' = IdleCall
  /\ UNCHANGED <<taskIndex, taskDir, running, sourceThere, tasks, taskUp, taskFaults, spoiled,
                 removed, content>>

(***************************************************************************)
(* Faults                                                                  *)
(***************************************************************************)

\* What a write that does not come to its end may leave of its file.
Cut ==
  \/ UNCHANGED <<taskIndex, taskDir, spoiled, removed>>
  \/ \E t \in Task :
       /\ UNCHANGED taskIndex /\ spoiled' = spoiled \cup {t}
       /\ removed' = removed \cup (IF taskCall.step = "remove" THEN {t} ELSE {})
       /\ \/ /\ taskCall.kind = "save" /\ taskCall.step = "none" /\ t \in taskCall.todo
             /\ taskDir' = [taskDir EXCEPT ![t].meta = "torn"]
          \/ /\ taskCall.task = t /\ taskCall.step = "snapshot" /\ Given(t) # "none"
             /\ taskDir' = [taskDir EXCEPT ![t].blob = "empty"]
          \/ /\ taskCall.task = t /\ taskCall.step = "manifest"
             /\ taskDir' = [taskDir EXCEPT ![t].manifest = "torn"]
          \/ /\ taskCall.step = "remove" /\ t \notin Known
             /\ taskDir' = [taskDir EXCEPT ![t].meta = "none"]
  \/ /\ taskCall.kind = "save" /\ taskCall.step = "none" /\ taskCall.todo = {}
     /\ taskIndex' = [st |-> "torn", tasks |-> {}]
     /\ UNCHANGED <<taskDir, spoiled, removed>>

\* A write fails: the load refuses the start, the deletion puts memory back.
WriteFails ==
  /\ taskCall.kind # "idle" /\ taskFaults < MaxTaskFaults
  /\ Cut
  /\ tasks' = taskCall.before /\ taskCall' = IdleCall /\ taskFaults' = taskFaults + 1
  /\ UNCHANGED <<running, sourceThere, taskUp, deleted, content>>

TaskCrash ==
  /\ taskUp \/ taskCall.kind # "idle"
  /\ taskFaults < MaxTaskFaults
  /\ Cut
  /\ tasks' = Unknown /\ taskCall' = IdleCall /\ taskUp' = FALSE /\ taskFaults' = taskFaults + 1
  /\ UNCHANGED <<running, sourceThere, deleted, content>>

LoseSource ==
  /\ sourceThere /\ taskFaults < MaxTaskFaults
  /\ sourceThere' = FALSE /\ taskFaults' = taskFaults + 1
  /\ UNCHANGED <<taskIndex, taskDir, running, tasks, taskUp, taskCall, deleted, spoiled, removed, content>>

(***************************************************************************)
(* The layouts an earlier version may have left                            *)
(***************************************************************************)

TaskInit ==
  /\ \E art \in [Task -> Artifact] :
       /\ taskDir = [t \in Task |-> [meta |-> "ok", manifest |-> art[t],
                                     blob |-> IF art[t] = "plain" THEN "full" ELSE "none"]]
       /\ content = {t \in Task : art[t] # "none"}
  /\ taskIndex = [st |-> "ok", tasks |-> Task]
  /\ running \in SUBSET Task
  /\ sourceThere = TRUE
  /\ tasks = Unknown /\ taskUp = FALSE /\ taskCall = IdleCall /\ taskFaults = 0
  /\ deleted = {} /\ spoiled = {} /\ removed = {}

TaskNext ==
  \/ BeginLoad \/ FinishLoad \/ WriteIndex \/ FinishDelete
  \/ \E t \in Task :
       LoadEntry(t) \/ Snapshot(t) \/ WriteManifest(t) \/ WriteMeta(t) \/ RemoveDir(t)
  \/ \E s \in TaskSession : DeleteBySession(s)
  \/ WriteFails \/ TaskCrash \/ LoseSource

TaskSpec == TaskInit /\ [][TaskNext]_taskVars

(***************************************************************************)
(* Properties                                                              *)
(***************************************************************************)

\* Everything has its type.
TaskTypeOK ==
  /\ taskIndex \in [st : {"ok", "torn"}, tasks : SUBSET Task]
  /\ taskDir \in [Task -> [meta : {"none", "torn", "ok"}, manifest : Artifact \cup {"torn"},
                           blob : {"none", "empty", "full"}]]
  /\ running \subseteq Task /\ sourceThere \in BOOLEAN
  /\ tasks \in [Task -> {"unknown", "none", "plain"}]
  /\ taskUp \in BOOLEAN
  /\ taskCall \in [kind : {"idle", "load", "save"}, todo : SUBSET Task, task : Task \cup {"none"},
              step : {"none", "snapshot", "manifest", "remove"},
              sess : TaskSession \cup {"none"},
              before : [Task -> {"unknown", "none", "plain"}]]
  /\ taskFaults \in 0 .. MaxTaskFaults
  /\ deleted \subseteq TaskSession /\ {spoiled, removed} \subseteq SUBSET Task /\ content \subseteq Task

\* Wherever a save stops, the index lists no task whose description is gone,
\* and only a write that was cut can make a listed task unreadable: one such
\* task would refuse every later start.
IndexNeverDangles ==
  \A t \in InIndex :
    /\ taskDir[t].meta # "none"
    /\ t \notin spoiled => taskDir[t].meta = "ok" /\ taskDir[t].manifest # "torn"

\* Once the deletion of a session was acknowledged, none of its tasks is known
\* or listed again, whatever fails afterwards and however often the program
\* is restarted, unless the task was left unfinished and never known.
DeletedTasksStayAway ==
  \A t \in Task : Owner[t] \in deleted /\ Ended(t) => t \notin Known /\ t \notin InIndex

\* The content of a listed task's artifact is somewhere at every moment of the
\* move from the manifest to the file, unless a write of the task was cut, or
\* its removal failed after the directory was gone and memory was put back.
ContentIsKept ==
  \A t \in InIndex \cap content :
    t \notin spoiled \cup removed =>
      taskDir[t].manifest \in {"inline", "source"} \/ taskDir[t].blob = "full"

\* The tasks of a store that fails and restarts at any step of its saves.
TasksAreKept == IndexNeverDangles /\ DeletedTasksStayAway /\ ContentIsKept

=============================================================================
