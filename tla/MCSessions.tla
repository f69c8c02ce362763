----------------------------- MODULE MCSessions -----------------------------
(* What is kept around a session, in a checkout and among codex's skills,   *)
(* each part on a small instance.  The parts share no state in the code, so a behaviour is one   *)
(* of a single part, chosen at the start; the others rest in one of their   *)
(* initial states.                                                          *)
EXTENDS TaskStore, SessionCleanup, TurnTrace, MemoryLayers, SessionWorkspace,
        SessionTitles, UpdateSource, ControlPlane

VARIABLE part

CONSTANTS g1, g2, n1, n2, n3

MCOwner == [t \in Task |-> IF t = "t3" THEN "b" ELSE "a"]

\* Three messages: one key said twice, which becomes important, and another that is too
\* large for the layer above its own.
Say(how, k, v, l, i) == [how |-> how, key |-> k, val |-> v, layer |-> l, imp |-> i]
MCSaying == [m1 |-> Say("add", "k", "x", 3, FALSE), m2 |-> Say("overwrite", "k", "y", 2, TRUE),
             m3 |-> Say("add", "j", "z", 2, FALSE)]
MCCost == [x |-> 1, y |-> 2, z |-> 3]
MCTokens == <<2, 3, 4>>
MCTTL == <<1, 1, 3>>
MCIdle == <<1, 1, 0>>
MCHits == <<0, 2, 1>>

MCSegment(u) == IF u = "u1" THEN "pdf" ELSE ""
MCHub == <<[repo |-> g1, name |-> n1], [repo |-> g2, name |-> n2]>>

\* Titles of one or two clauses, with the words the scores look for.
Clause(w, n) == [words |-> w, len |-> n, rest |-> <<>>]
Pull == Clause({"verb", "repo"}, 5)
PullThen == [words |-> {"verb", "repo", "action"}, len |-> 12, rest |-> <<Clause({"action"}, 7)>>]
MCIdText == <<Clause({}, 9)>>
MCPrompts ==
  {<<Pull>>, <<PullThen>>, <<Pull, Clause({"action"}, 6)>>, <<Clause({"again"}, 2)>>,
   <<Clause({}, 6)>>, <<Clause({}, 11)>>, <<Clause({"technical", "action"}, 12)>>,
   <<Clause({"constraint"}, 11)>>, <<Clause({"constraint", "action", "technical"}, 6)>>,
   <<Clause({"action"}, 12), Clause({"constraint", "technical"}, 6)>>, NewTitle, MCIdText}
MCOldRecords == [title : MCPrompts, auto : {{}, {TRUE}, {FALSE}}, score : {0, 3}]

\* Entries of skills: as the program registers them, private, and one of another
\* owner without a file.
MCEntry == {Builtin, Builtin \ {"public"}, {"known", "enabled", "public"}}

\* Names are interchangeable, so one listing stands for all.
Init ==
  /\ part \in {"tasks", "cleanup", "trace", "memory", "workspace", "titles", "source",
               "skills"}
  /\ TaskInit /\ (part # "tasks" => content = {} /\ running = {})
  /\ CleanupInit /\ (part # "cleanup" => tasked = {} /\ inactive = {})
  /\ TraceInit
  /\ MemoryInit
  /\ hub = MCHub /\ WorkspaceInit /\ (part # "workspace" => disk.target = NoCheckout)
  /\ TitlesInit /\ (part # "titles" => origin = "default")
  /\ SourceInit
  /\ ControlInit
  /\ IF part = "skills" THEN caps["b"] = Absent
     ELSE \A i \in Skill : caps[i] = Absent /\ dest[i] = NoDirectory

Next ==
  \/ /\ part = "tasks" /\ TaskNext
     /\ UNCHANGED <<part, cleanupVars, traceVars, memoryVars, wsVars, titleVars, sourceVars, controlVars>>
  \/ /\ part = "cleanup" /\ CleanupNext
     /\ UNCHANGED <<part, taskVars, traceVars, memoryVars, wsVars, titleVars, sourceVars, controlVars>>
  \/ /\ part = "trace" /\ TraceNext
     /\ UNCHANGED <<part, taskVars, cleanupVars, memoryVars, wsVars, titleVars, sourceVars, controlVars>>
  \/ /\ part = "memory" /\ MemoryNext
     /\ UNCHANGED <<part, taskVars, cleanupVars, traceVars, wsVars, titleVars, sourceVars, controlVars>>
  \/ /\ part = "workspace" /\ WorkspaceNext
     /\ UNCHANGED <<part, taskVars, cleanupVars, traceVars, memoryVars, titleVars, sourceVars, controlVars>>
  \/ /\ part = "titles" /\ TitlesNext
     /\ UNCHANGED <<part, taskVars, cleanupVars, traceVars, memoryVars, wsVars, sourceVars, controlVars>>
  \/ /\ part = "source" /\ SourceNext
     /\ UNCHANGED <<part, taskVars, cleanupVars, traceVars, memoryVars, wsVars, titleVars, controlVars>>
  \/ /\ part = "skills" /\ ControlNext
     /\ UNCHANGED <<part, taskVars, cleanupVars, traceVars, memoryVars, wsVars, titleVars, sourceVars>>

Spec ==
  /\ Init
  /\ [][Next]_<<part, taskVars, cleanupVars, traceVars, memoryVars, wsVars, titleVars, sourceVars,
               controlVars>>

\* Bound of the cleanup: requests under way, stirs and sessions out of use.
FewAtOnce ==
  Cardinality({u \in Upload : uploading[u].at # "new"})
    + Cardinality({s \in Owned : deleting[s] # "none"})
    + Cardinality({r \in CleanupRun : run[r].at # "idle"})
    + stirs + Cardinality(inactive) <= 3

\* Bound of the trace: what a turn has the less of, the more turns there are,
\* and the less with a repository,
\* and the page and the reader of details are looked at apart.
ShortTurns ==
  /\ page.cursor > 0 => Len(turns) = 1 /\ newest <= 2 /\ reader.seen = <<>>
  /\ reader.seen # <<>> => \A i \in DOMAIN feed : feed[i].view = NoView
  /\ Len(turns) > 1 => newest <= 2
  /\ Len(turns) > 2 => newest <= 1 /\ ~halted
  /\ repo # "none" => /\ Len(turns) <= 2 /\ page.cursor = 0 /\ reader.seen = <<>>
                      /\ Len(turns) = 2 => newest <= 1

\* Bound of the memory: the mandatory file is edited before anything is said.
EditedFirst == file.edit > 0 => now = 0 /\ latest = 0

\* Bound of the workspace: a chat that came back is not deleted again, and GitHub's
\* list is as it was; with a list that changes no more than one step fails.
CameBackOnce == /\ chat.emptied => chat.is = "alive" /\ hubChanges = 0
                /\ hubChanges > 0 => wsFaults <= 1

\* Bound of the skills: the repository changes the built-in one.
BuiltinChanges == \A i \in Skill \ BuiltinSkill : source[i] = 0

\* Bound of the updates: one request is given up before it has an outcome.
OneGivesUp ==
  Cardinality({r \in UpdateRequest : asking[r].told = "failed" /\ asking[r].outcome # "failed"}) <= 1

Bounds ==
  /\ FewAtOnce /\ ShortTurns /\ EditedFirst /\ CameBackOnce
  /\ OneGivesUp /\ BuiltinChanges

\* Everything has its type, in the part that moves.
StoresTypeOK ==
  CASE part = "tasks"     -> TaskTypeOK
    [] part = "cleanup"   -> CleanupTypeOK
    [] part = "trace"     -> TraceTypeOK
    [] part = "memory"    -> MemoryTypeOK
    [] part = "workspace" -> WorkspaceTypeOK
    [] part = "titles"    -> TitlesTypeOK
    [] part = "source"    -> SourceTypeOK
    [] part = "skills"    -> ControlTypeOK
=============================================================================
