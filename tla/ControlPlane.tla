---------------------------- MODULE ControlPlane ----------------------------
(***************************************************************************)
(* The capabilities of the control plane, internal/control/application/    *)
(* service.go, with its store, and the installation of the program's own   *)
(* skills where codex finds them, internal/codex/application/              *)
(* native_skills.go, which the service calls on every change of a skill.   *)
(*                                                                         *)
(* A change is made in memory, saved, and installed; when the installation *)
(* reports an error the change is taken back, saved again and installed    *)
(* again.  The lock of the service is held throughout, so requests do not  *)
(* meet; what can happen in between is a failing step, and a crash, after  *)
(* which the next start registers the built-in skills and installs.        *)
(*                                                                         *)
(* The ids of skills are ones that a directory can be named by.  A copy of *)
(* a skill's directory is of one version of it.  The hidden directory that *)
(* a copy is made in is not modelled: nothing looks for it.                *)
(***************************************************************************)
EXTENDS Naturals, FiniteSets, Sequences

CONSTANTS
  Skill,  \* skills of the program, the built-in ones included
  BuiltinSkill, RetiredSkill,
  SkillEntry,       \* the entries that requests and older files hold
  AuditLimit,       \* capabilityAuditLimit
  MaxSource,        \* bound: versions of a skill's directory in the repository
  MaxChanges,       \* bound: changes of skills
  MaxControlFaults  \* bound: failing steps and crashes

\* A skill's entry, by what is asked of it before it is installed: that it is
\* enabled, owned by alter0, has a file, and is not private.
Attribute == {"known", "enabled", "alter0", "file", "public"}
Absent == {}
Capability == {Absent} \cup {c \in SUBSET Attribute : "known" \in c}
Builtin == Attribute             \* what builtinSkills registers

ASSUME ControlAssumption ==
  /\ IsFiniteSet(Skill) /\ "none" \notin Skill
  /\ BuiltinSkill \subseteq Skill /\ RetiredSkill \subseteq Skill \ BuiltinSkill
  /\ SkillEntry \subseteq Capability \ {Absent}
  /\ AuditLimit \in Nat \ {0} /\ MaxSource \in Nat /\ MaxChanges \in Nat /\ MaxControlFaults \in Nat

NoSkill == "none"
Version == 0 .. MaxSource
AtStart == 0                     \* in the log: a registration of a start
NoDirectory == [kind |-> "missing", version |-> 0]
Foreign == [kind |-> "foreign", version |-> 0]      \* a directory without our marker
Damaged == [kind |-> "damaged", version |-> 0]      \* with it, but partly removed
Ours(v) == [kind |-> "ours", version |-> v]
Directory == {NoDirectory, Foreign, Damaged} \cup {Ours(v) : v \in Version}
HasMarker(d) == d.kind \in {"ours", "damaged"}

VARIABLES
  caps,         \* Service.capabilities
  audits,       \* Service.audits: the number of the change an entry is of
  controlFile,  \* control.json: [ok, caps, audits]
  source,       \* the skill's directory in the repository: its version
  broken,       \* skills whose SKILL.md does not validate
  dest,         \* <root>/alter0-<id>
  kept,         \* <root>/alter0-<id>.backup-<n> that are whole
  change,       \* the change under way
  changes, controlFaults

controlVars == <<caps, audits, controlFile, source, broken, dest, kept, change, changes, controlFaults>>
skillDirectories == <<dest, kept>>
outside == <<source, broken>>

\* failed: the skills that the installation reported an error of.  was: the
\* versions there were when it began.
NoChange ==
  [at |-> "none", id |-> NoSkill, prev |-> Absent, auditLen |-> 0, start |-> FALSE,
   undoing |-> FALSE, unsaved |-> FALSE, failed |-> {}, was |-> [i \in Skill |-> 0],
   todo |-> {}, installing |-> NoSkill, copy |-> 0, aside |-> NoDirectory]
Saved(c, a) == [ok |-> TRUE, caps |-> c, audits |-> a]
TornControl == [ok |-> FALSE, caps |-> [i \in Skill |-> Absent], audits |-> <<>>]

\* nativeSkillSources and Reconcile: the skills that are to be installed.
Wanted(c) == {i \in Skill : {"enabled", "alter0", "file", "public"} \subseteq c[i]}
Fault == controlFaults < MaxControlFaults /\ controlFaults' = controlFaults + 1
NoFault == UNCHANGED controlFaults

(***************************************************************************)
(* A change: UpsertCapability, DeleteCapability, SetCapabilityEnabled      *)
(***************************************************************************)

\* appendAuditLocked keeps the last entries; the rollback cuts the log at the
\* length it had.
Trimmed(a) == IF Len(a) > AuditLimit THEN SubSeq(a, Len(a) - AuditLimit + 1, Len(a)) ELSE a
Audited(n) == Trimmed(Append(audits, n))
AuditsUndone == SubSeq(audits, 1, change.auditLen)
CapsUndone == [caps EXCEPT ![change.id] = change.prev]

Change(i, c) ==
  /\ change = NoChange /\ changes < MaxChanges
  /\ changes' = changes + 1
  /\ caps' = [caps EXCEPT ![i] = c]
  /\ audits' = Audited(changes + 1)
  /\ change' = [NoChange EXCEPT !.at = "store", !.id = i, !.prev = caps[i], !.auditLen = Len(audits)]
  /\ UNCHANGED <<controlFile, outside, skillDirectories, controlFaults>>

\* The requests: PUT, also of what is there already, DELETE, and POST of enable
\* or disable.
PutSkill(i, c) == Change(i, c)
DeleteSkill(i) == caps[i] # Absent /\ Change(i, Absent)
SwitchSkill(i) ==
  /\ caps[i] # Absent
  /\ Change(i, IF "enabled" \in caps[i] THEN caps[i] \ {"enabled"} ELSE caps[i] \cup {"enabled"})

InstallingNew(c, undoing) ==   \* mutant: what is installed already is not copied again
  [change EXCEPT !.at = "install", !.todo = {i \in Wanted(c) : dest[i].kind # "ours"},
                 !.failed = {}, !.was = source, !.undoing = undoing]
Installing(c, undoing) ==
  [change EXCEPT !.at = "install", !.todo = Wanted(c), !.failed = {}, !.was = source,
                 !.undoing = undoing]
StoreChange ==
  /\ change.at = "store"
  /\ UNCHANGED <<outside, skillDirectories, changes>>
  /\ \/ /\ controlFile' = Saved(caps, audits)
        /\ change' = Installing(caps, FALSE)
        /\ NoFault /\ UNCHANGED <<caps, audits>>
     \/ /\ Fault /\ controlFile' \in {controlFile, TornControl}
        /\ caps' = CapsUndone /\ audits' = AuditsUndone
        /\ change' = [change EXCEPT !.at = "refused"]

\* The installation is over: the change stands, or it is taken back, and the
\* errors of the second installation are ignored.
Undo ==
  /\ caps' = CapsUndone /\ audits' = AuditsUndone
  /\ \/ controlFile' = Saved(caps', audits') /\ NoFault
     \/ Fault /\ controlFile' \in {controlFile, TornControl}
  /\ change' = [Installing(caps', TRUE) EXCEPT !.unsaved = controlFile' # Saved(caps', audits')]
Installed ==
  /\ change.at = "installed"
  /\ UNCHANGED <<outside, skillDirectories, changes>>
  /\ IF change.failed # {} /\ ~change.undoing /\ ~change.start
     THEN Undo
     ELSE /\ change' = [change EXCEPT !.at = IF change.undoing THEN "refused" ELSE "done"]
          /\ UNCHANGED <<caps, audits, controlFile, controlFaults>>
Answer ==
  /\ change.at \in {"done", "refused"}
  /\ change' = NoChange
  /\ UNCHANGED <<caps, audits, controlFile, outside, skillDirectories, changes, controlFaults>>

(***************************************************************************)
(* NativeSkillReconciler                                                   *)
(***************************************************************************)

\* The root of the directories cannot be made, or later not be listed.
RootFails ==
  /\ change.at = "install" /\ change.installing = NoSkill
  /\ \E missed \in {Skill, Skill \ Wanted(caps)} :
       /\ IF missed = Skill THEN change.todo = Wanted(caps) /\ change.failed = {}
                            ELSE change.todo = {}
       /\ change' = [change EXCEPT !.at = "installed", !.todo = {}, !.failed = @ \cup missed]
  /\ Fault
  /\ UNCHANGED <<caps, audits, controlFile, outside, skillDirectories, changes>>

\* install: the source is validated, a directory that is not ours is left
\* alone, and the copy is made beside it; then the old one is set aside, the
\* copy takes its place, and the old one is removed.  A failure up to the
\* setting aside leaves everything as it is.
Installable(i) == i \notin broken /\ dest[i] # Foreign
BeginInstall(i) ==
  /\ change.at = "install" /\ change.installing = NoSkill /\ i \in change.todo
  /\ UNCHANGED <<caps, audits, controlFile, outside, kept, dest, changes>>
  /\ \/ /\ Installable(i) /\ NoFault
        /\ change' = [change EXCEPT !.at = "setAside", !.installing = i, !.copy = source[i]]
     \/ /\ IF Installable(i) THEN Fault ELSE NoFault
        /\ change' = [change EXCEPT !.todo = @ \ {i}, !.failed = @ \cup {i}]
SetAside ==
  /\ change.at = "setAside"
  /\ dest' = [dest EXCEPT ![change.installing] = NoDirectory]
  /\ change' = [change EXCEPT !.at = "place", !.aside = dest[change.installing]]
  /\ UNCHANGED <<caps, audits, controlFile, outside, kept, changes, controlFaults>>
InstallOver(errors) ==
  [change EXCEPT !.at = "install", !.installing = NoSkill, !.copy = 0, !.aside = NoDirectory,
                 !.todo = @ \ {change.installing}, !.failed = @ \cup errors]

\* The directory set aside, when it stays there.
Leftover(i) ==
  IF change.aside.kind = "ours" THEN kept[i] \cup {change.aside.version} ELSE kept[i]

\* A copy that cannot be renamed into place: the old directory is renamed back, and
\* when that fails too it stays aside.
Place ==
  /\ change.at = "place"
  /\ LET i == change.installing
     IN  \/ /\ dest' = [dest EXCEPT ![i] = Ours(change.copy)]
            /\ change' = [change EXCEPT !.at = "drop"]
            /\ NoFault /\ UNCHANGED kept
         \/ /\ \/ dest' = [dest EXCEPT ![i] = change.aside] /\ UNCHANGED kept
               \/ kept' = [kept EXCEPT ![i] = Leftover(i)] /\ UNCHANGED dest
            /\ change' = InstallOver({i})
            /\ Fault
  /\ UNCHANGED <<caps, audits, controlFile, outside, changes>>

\* The directory set aside is removed; a failure of that is ignored.
Drop ==
  /\ change.at = "drop"
  /\ \/ UNCHANGED kept /\ NoFault
     \/ Fault /\ kept' = [kept EXCEPT ![change.installing] = Leftover(change.installing)]
  /\ change' = InstallOver({})
  /\ UNCHANGED <<caps, audits, controlFile, outside, dest, changes>>

\* The directories with our marker of other skills are removed, one after the
\* other.
Sweeping == change.at = "install" /\ change.installing = NoSkill /\ change.todo = {}
ToSweep == {i \in Skill \ (Wanted(caps) \cup change.failed) : HasMarker(dest[i]) \/ kept[i] # {}}
Removed(i) ==
  /\ dest' = [dest EXCEPT ![i] = IF HasMarker(@) THEN NoDirectory ELSE @]
  /\ kept' = [kept EXCEPT ![i] = {}]

\* Some of its files are gone; with the marker it counts as foreign from then on.
PartlyRemoved(i) ==
  /\ \E d \in {dest[i]} \cup (IF HasMarker(dest[i]) THEN {NoDirectory, Foreign, Damaged} ELSE {}) :
       dest' = [dest EXCEPT ![i] = d]
  /\ \E K \in SUBSET kept[i] : kept' = [kept EXCEPT ![i] = K]
Sweep ==
  /\ Sweeping
  /\ UNCHANGED <<caps, audits, controlFile, outside, changes>>
  /\ \/ /\ ToSweep = {} /\ NoFault
        /\ change' = [change EXCEPT !.at = "installed"]
        /\ UNCHANGED skillDirectories
     \/ \E i \in ToSweep : Removed(i) /\ NoFault /\ UNCHANGED change
     \/ \E i \in ToSweep :
          /\ PartlyRemoved(i) /\ Fault
          /\ change' = [change EXCEPT !.failed = @ \cup {i}]

(***************************************************************************)
(* Start and crash                                                         *)
(***************************************************************************)

\* registerBuiltinSkills keeps the flag of the ones it finds, and the retired
\* ones go; then the first installation, whose errors are logged.
Registered(c) ==
  [i \in Skill |->
     IF i \in BuiltinSkill
     THEN IF c[i] = Absent \/ "enabled" \in c[i] THEN Builtin ELSE Builtin \ {"enabled"}
     ELSE IF i \in RetiredSkill THEN Absent ELSE c[i]]
StartControl ==
  /\ change.at = "down" /\ controlFile.ok
  /\ caps' = Registered(controlFile.caps)
  /\ audits' = LET again == {i \in Skill : i \in BuiltinSkill \/ caps'[i] # controlFile.caps[i]}
               IN Trimmed(controlFile.audits \o [k \in 1 .. Cardinality(again) |-> AtStart])
  /\ controlFile' = Saved(caps', audits')
  /\ change' = [NoChange EXCEPT !.at = "install", !.todo = Wanted(caps'),
                                  !.was = source, !.start = TRUE]
  /\ UNCHANGED <<outside, skillDirectories, changes, controlFaults>>
Saving == \/ change.at = "store"
          \/ change.at = "installed" /\ change.failed # {}
CrashControl ==
  /\ change.at # "down" /\ Fault
  /\ change' = [NoChange EXCEPT !.at = "down"]
  /\ controlFile' \in {controlFile} \cup (IF Saving THEN {TornControl} ELSE {})
  /\ \/ change.at # "place" /\ UNCHANGED skillDirectories
     \/ /\ change.at \in {"place", "drop"} /\ UNCHANGED dest
        /\ kept' = [kept EXCEPT ![change.installing] = Leftover(change.installing)]
     \/ Sweeping /\ \E i \in ToSweep : PartlyRemoved(i)
  /\ UNCHANGED <<caps, audits, outside, changes>>

\* The repository changes: a skill has a new version, or a broken one.
SourceChanges(i) ==
  /\ source[i] < MaxSource
  /\ source' = [source EXCEPT ![i] = @ + 1]
  /\ broken' \in {broken \ {i}, broken \cup {i}}
  /\ UNCHANGED <<caps, audits, controlFile, skillDirectories, change, changes, controlFaults>>

ControlInit ==
  /\ \E c \in [Skill -> SkillEntry \cup {Absent}] : caps = c /\ controlFile = Saved(c, <<>>)
  /\ audits = <<>> /\ source = [i \in Skill |-> 0] /\ broken = {}
  /\ dest \in [Skill -> {NoDirectory, Foreign, Ours(0)}] /\ kept = [i \in Skill |-> {}]
  /\ change = [NoChange EXCEPT !.at = "down"] /\ changes = 0 /\ controlFaults = 0
ControlNext ==
  \/ \E i \in Skill : BeginInstall(i) \/ SourceChanges(i) \/ DeleteSkill(i) \/ SwitchSkill(i)
  \/ \E i \in Skill, c \in SkillEntry : PutSkill(i, c)
  \/ StoreChange \/ Installed \/ Answer \/ RootFails \/ SetAside \/ Place \/ Drop \/ Sweep
  \/ StartControl \/ CrashControl
ControlSpec == ControlInit /\ [][ControlNext]_controlVars

(***************************************************************************)
(* Properties                                                              *)
(***************************************************************************)

\* The types; the log never outgrows its limit.
ControlTypeOK ==
  /\ caps \in [Skill -> Capability] /\ controlFile.caps \in [Skill -> Capability]
  /\ Len(audits) <= AuditLimit /\ dest \in [Skill -> Directory]

\* A directory without the program's marker is never touched
\* (technical-solution.md 277).
ForeignIsLeftAlone ==
  [][\A i \in Skill : dest[i] = Foreign => dest'[i] = Foreign]_dest

\* A skill is installed when codex finds it in the version that there was when the
\* installation began, or in a later one, and, when it is not to be found, nothing
\* with the program's marker is left of it.
InstalledAs(i) ==
  IF i \in Wanted(caps)
  THEN dest[i].kind = "ours" /\ dest[i].version >= change.was[i]
  ELSE ~HasMarker(dest[i]) /\ kept[i] = {}

\* A change that is answered is saved, and every skill is installed.  A start does
\* not answer: it is done when every skill is installed that no error was logged of.
DoneIsInstalled ==
  change.at = "done" =>
    /\ controlFile = Saved(caps, audits)
    /\ change.start \/ change.failed = {}
    /\ \A i \in Skill \ change.failed : InstalledAs(i)

\* A change that is refused is taken back in memory.  Refused by its installation,
\* it is taken back in the file too, and every skill is installed as before the
\* change: unless saving, or installing that skill, failed once more, which
\* nobody is told of.  (Refused by the save, it never came to the directories.)
RefusedLeavesNothing ==
  change.at = "refused" =>
    /\ caps[change.id] = change.prev
    /\ change.undoing =>
         /\ change.unsaved \/ controlFile = Saved(caps, audits)
         /\ \A i \in Skill \ change.failed : InstalledAs(i)

\* A skill codex finds stays: while it is wanted there is at every moment, and
\* after every crash, a complete copy of it among the directories.
Findable(i) ==
  \/ dest[i].kind = "ours" \/ kept[i] # {}
  \/ change.installing = i /\ change.aside.kind = "ours"
WantedSkillsStay ==
  [][\A i \in Skill :
       Findable(i) /\ i \in Wanted(caps) /\ (i \in Wanted(caps))' => Findable(i)']_controlVars

\* A change of a skill that is answered has happened in memory, in the file and in
\* what codex finds; one that is refused has happened in none of them, as far as
\* the steps that took it back did not fail themselves; and whatever fails or
\* crashes, no wanted skill is lost and nobody else's is touched.
ChangesAreWhole ==
  /\ WantedSkillsStay /\ ForeignIsLeftAlone
  /\ [](DoneIsInstalled /\ RefusedLeavesNothing /\ ControlTypeOK)

=============================================================================
