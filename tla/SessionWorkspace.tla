---------------------------- MODULE SessionWorkspace ----------------------------
(***************************************************************************)
(* What one chat keeps in its workspace directory: the checkout of the     *)
(* repository it is bound to, cloned aside and renamed into place, and the *)
(* files attached to each turn.  The goroutine of a turn prepares both     *)
(* before it starts the agent; a deletion removes the directory without    *)
(* waiting for it; a crash ends the goroutine anywhere, and a retry runs   *)
(* the same turn again.  GitHub renames and reorders what it lists.        *)
(***************************************************************************)
EXTENDS Integers, Sequences, FiniteSets, SequencesExt

CONSTANTS
  Repo, RepoName,  \* repositories by their stable id, and owner/name
  NoCheckout,      \* no directory
  UploadedFile,    \* attachments, by their content
  Segment(_),      \* what is left of an attachment's name, "" for nothing
  PageSize,        \* repositories on a page
  MaxTurnFiles,    \* bound: attachments of a turn
  MaxWsTurns,      \* bound: turns
  MaxWsFaults,     \* bound: failures and crashes
  MaxHubChanges    \* bound: changes on GitHub

\* A checkout remembers whose content it has, its remote's name, whether the clone
\* that made it had ended, and whether the agent has worked in it.
Checkout == [repo : Repo, name : RepoName, whole : BOOLEAN, worked : BOOLEAN]

ASSUME WorkspaceAssumption ==
  /\ IsFiniteSet(Repo) /\ NoCheckout \notin Checkout
  /\ PageSize \in Nat \ {0}
  /\ {MaxTurnFiles, MaxWsTurns, MaxWsFaults, MaxHubChanges} \subseteq Nat

VARIABLES
  hub,  \* what GitHub lists, the latest first: ids and their names
  hubChanges,
  walk,      \* what the picker has shown, where it goes on, and the list while it is unchanged
  chat,      \* the record: alive, its binding, its turns; emptied: it outlived a deletion
  wsDriver,  \* the goroutine of the running turn
  disk,      \* the workspace directory
  cleanup,   \* attempts left to remove the workspace of a deleted chat
  wsFaults

wsVars == <<hub, hubChanges, walk, chat, wsDriver, disk, cleanup, wsFaults>>

RepoEntry == [repo : Repo, name : RepoName]

NoBinding == [status |-> "none"]
Bound(item) == [status |-> "preparing", repo |-> item.repo, name |-> item.name]

NoWorkspace == [dir |-> FALSE, staging |-> NoCheckout, target |-> NoCheckout, files |-> <<>>]

\* A chat without turns; one that was recovered may find what an earlier one with its
\* id left behind.
WorkspaceInit ==
  /\ hub \in {h \in [1 .. Cardinality(Repo) -> RepoEntry] :
                \A m, n \in DOMAIN h : m # n => h[m].repo # h[n].repo /\ h[m].name # h[n].name}
  /\ hubChanges = 0
  /\ walk = [shown |-> <<>>, next |-> 0, of |-> hub]
  /\ chat = [is |-> "alive", binding |-> NoBinding, turns |-> <<>>, emptied |-> FALSE]
  /\ wsDriver = [pc |-> "idle", file |-> 0]
  /\ \E left \in {NoCheckout} \cup [repo : Repo, name : RepoName, whole : {TRUE}, worked : {TRUE}] :
       disk = [NoWorkspace EXCEPT !.dir = TRUE, !.target = left]
  /\ cleanup = 0 /\ wsFaults = 0

-----------------------------------------------------------------------------
(* GitHub. *)

\* A repository takes a name, which a repository may have had before; or it becomes
\* the latest.
HubChanges ==
  /\ hubChanges < MaxHubChanges /\ hubChanges' = hubChanges + 1
  /\ \E n \in DOMAIN hub :
       \/ \E name \in RepoName \ {hub[m].name : m \in DOMAIN hub} : hub' = [hub EXCEPT ![n].name = name]
       \/ n > 1 /\ hub' = <<hub[n]>> \o RemoveAt(hub, n)
  /\ walk' = [walk EXCEPT !.of = <<>>]
  /\ UNCHANGED <<chat, wsDriver, disk, cleanup, wsFaults>>

ReposNamed(name) == {n \in DOMAIN hub : hub[n].name = name}

\* List: every page is cut from a listing of its own.
PageEnd(offset) == IF offset + PageSize < Len(hub) THEN offset + PageSize ELSE Len(hub)
NextFrom(offset) == PageEnd(offset)

ShowPage ==
  /\ chat.is = "alive" /\ chat.turns = <<>> /\ walk.next < Len(hub)
  /\ walk' = [walk EXCEPT !.shown = @ \o SubSeq(hub, walk.next + 1, PageEnd(walk.next)),
                          !.next = NextFrom(walk.next)]
  /\ UNCHANGED <<hub, hubChanges, chat, wsDriver, disk, cleanup, wsFaults>>

-----------------------------------------------------------------------------
(* The turns. *)

LastTurn == Len(chat.turns)
Running  == wsDriver.pc # "idle"

\* runTurn ends with finishTurn, which leaves a deleted chat alone.
Ends(outcome, binding) ==
  /\ wsDriver' = [pc |-> "idle", file |-> 0]
  /\ chat' = IF chat.is = "alive"
             THEN [chat EXCEPT !.turns[LastTurn].status = outcome, !.binding = binding]
             ELSE chat

FailedBinding(b) == IF b = NoBinding THEN b ELSE [b EXCEPT !.status = "failed"]

\* An input; the first may name a repository, which is resolved by its id.  The picker
\* is closed.
SendInput(files, item) ==
  /\ chat.is = "alive" /\ ~Running /\ LastTurn < MaxWsTurns
  /\ item # {} => chat.turns = <<>>
  /\ chat' = [chat EXCEPT !.turns = Append(@, [status |-> "running", files |-> files]),
                          !.binding = IF item = {} THEN @ ELSE Bound(CHOOSE i \in item : TRUE)]
  /\ wsDriver' = [pc |-> "prepare", file |-> 0]
  /\ walk' = [shown |-> <<>>, next |-> 0, of |-> <<>>]
  /\ UNCHANGED <<hub, hubChanges, disk, cleanup, wsFaults>>

\* RetryRepository: the last turn that did not succeed runs again.
Retry ==
  /\ chat.is = "alive" /\ ~Running /\ chat.binding.status = "failed"
  /\ LastTurn > 0 /\ chat.turns[LastTurn].status \in {"failed", "interrupted"}
  /\ chat' = [chat EXCEPT !.turns[LastTurn].status = "running", !.binding.status = "preparing"]
  /\ wsDriver' = [pc |-> "prepare", file |-> 0]
  /\ UNCHANGED <<hub, hubChanges, walk, disk, cleanup, wsFaults>>

-----------------------------------------------------------------------------
(* The checkout. *)

NeedsCheckout == chat.binding.status \in {"preparing", "failed"}

\* inspectExistingCheckout: a checkout of that name, with a branch and a head.
AnyCheckout(c, name) == c.whole   \* mutant: whatever its remote is
Accepted(c, name) == c.whole /\ c.name = name

\* A turn without a repository, or with one that is ready, goes on at once.
SkipCheckout ==
  /\ wsDriver.pc = "prepare" /\ ~NeedsCheckout
  /\ wsDriver' = [wsDriver EXCEPT !.pc = "attach"]
  /\ UNCHANGED <<hub, hubChanges, walk, chat, disk, cleanup, wsFaults>>

\* Prepare, when the directory is there: it is accepted as it is, or refused and left.
ClearedAway(d) == [d EXCEPT !.target = NoCheckout]   \* mutant: it makes way for a clone
LeftAsIs(d) == d

ReuseCheckout ==
  /\ wsDriver.pc = "prepare" /\ NeedsCheckout /\ disk.target # NoCheckout
  /\ \/ /\ Accepted(disk.target, chat.binding.name)
        /\ wsDriver' = [wsDriver EXCEPT !.pc = "mark"] /\ UNCHANGED <<chat, disk>>
     \/ /\ ~Accepted(disk.target, chat.binding.name)
        /\ Ends("failed", FailedBinding(chat.binding)) /\ disk' = LeftAsIs(disk)
  /\ UNCHANGED <<hub, hubChanges, walk, cleanup, wsFaults>>

\* What an earlier attempt left aside is removed, and the clone starts there.
StartClone ==
  /\ wsDriver.pc = "prepare" /\ NeedsCheckout /\ disk.target = NoCheckout
  /\ disk' = [disk EXCEPT !.dir = TRUE, !.staging = [repo |-> chat.binding.repo, whole |-> FALSE,
                                                     name |-> chat.binding.name, worked |-> FALSE]]
  /\ wsDriver' = [wsDriver EXCEPT !.pc = "clone"]
  /\ UNCHANGED <<hub, hubChanges, walk, chat, cleanup, wsFaults>>

\* gh clones by the name: whatever repository has it now.
EndClone ==
  /\ wsDriver.pc = "clone" /\ disk.staging # NoCheckout
  /\ \E n \in ReposNamed(chat.binding.name) :
       disk' = [disk EXCEPT !.staging = [@ EXCEPT !.repo = hub[n].repo, !.whole = TRUE]]
  /\ wsDriver' = [wsDriver EXCEPT !.pc = "publish"]
  /\ UNCHANGED <<hub, hubChanges, walk, chat, cleanup, wsFaults>>

\* The clone fails: the network, a name nobody has, a directory that was taken away.
FailClone ==
  /\ wsDriver.pc = "clone"
  /\ \/ ReposNamed(chat.binding.name) = {} /\ UNCHANGED wsFaults
     \/ chat.is # "alive" /\ UNCHANGED wsFaults
     \/ wsFaults < MaxWsFaults /\ wsFaults' = wsFaults + 1
  /\ disk' = [disk EXCEPT !.staging = NoCheckout]
  /\ Ends("failed", FailedBinding(chat.binding))
  /\ UNCHANGED <<hub, hubChanges, walk, cleanup>>

\* The clone has a branch and a head; it is renamed into place.
Publish ==
  /\ wsDriver.pc = "publish"
  /\ \/ /\ disk.staging # NoCheckout /\ disk.target = NoCheckout
        /\ disk' = [disk EXCEPT !.target = disk.staging, !.staging = NoCheckout]
        /\ wsDriver' = [wsDriver EXCEPT !.pc = "mark"] /\ UNCHANGED chat
     \/ /\ disk.staging = NoCheckout \/ disk.target # NoCheckout
        /\ disk' = [disk EXCEPT !.staging = NoCheckout]
        /\ Ends("failed", FailedBinding(chat.binding))
  /\ UNCHANGED <<hub, hubChanges, walk, cleanup, wsFaults>>

MarkReady ==
  /\ wsDriver.pc = "mark"
  /\ chat' = IF chat.is = "alive" THEN [chat EXCEPT !.binding.status = "ready"] ELSE chat
  /\ wsDriver' = [wsDriver EXCEPT !.pc = "attach"]
  /\ UNCHANGED <<hub, hubChanges, walk, disk, cleanup, wsFaults>>

-----------------------------------------------------------------------------
(* The attachments. *)

\* resolveTurnAttachmentFilename: what sanitizeWorkspaceSegment leaves of the name, or
\* the number when that is nothing.
FileName(n, file) == IF Segment(file) = "" THEN <<"attachment", n>> ELSE <<Segment(file)>>

Attached == chat.turns[LastTurn].files

\* Each file is written in turn; the directory is made when it is not there.
WriteFile ==
  /\ wsDriver.pc = "attach" /\ wsDriver.file < Len(Attached)
  /\ LET n == wsDriver.file + 1
         key == <<LastTurn, FileName(n, Attached[n])>>
     IN  /\ disk' = [disk EXCEPT !.dir = TRUE,
                                 !.files = [k \in {key} \cup DOMAIN @ |-> IF k = key THEN Attached[n] ELSE @[k]]]
         /\ wsDriver' = [wsDriver EXCEPT !.file = n]
  /\ UNCHANGED <<hub, hubChanges, walk, chat, cleanup, wsFaults>>

FailWrite ==
  /\ wsDriver.pc = "attach" /\ wsDriver.file < Len(Attached)
  /\ wsFaults < MaxWsFaults /\ wsFaults' = wsFaults + 1
  /\ Ends("failed", chat.binding)
  /\ UNCHANGED <<hub, hubChanges, walk, disk, cleanup>>

-----------------------------------------------------------------------------
(* The agent. *)

\* The directory it runs in: repo/ of a repository that is ready.
WorkingDirIsThere == IF chat.binding.status = "ready" THEN disk.target # NoCheckout ELSE disk.dir

StartAgent ==
  /\ wsDriver.pc = "attach" /\ wsDriver.file = Len(Attached)
  /\ IF chat.is = "alive" /\ WorkingDirIsThere
     THEN wsDriver' = [wsDriver EXCEPT !.pc = "agent"] /\ UNCHANGED chat
     ELSE Ends("failed", chat.binding)
  /\ UNCHANGED <<hub, hubChanges, walk, disk, cleanup, wsFaults>>

AgentWorks ==
  /\ wsDriver.pc = "agent" /\ disk.target # NoCheckout /\ ~disk.target.worked
  /\ disk' = [disk EXCEPT !.target.worked = TRUE]
  /\ UNCHANGED <<hub, hubChanges, walk, chat, wsDriver, cleanup, wsFaults>>

AgentEnds ==
  /\ wsDriver.pc = "agent"
  /\ \E outcome \in {"completed", "failed"} : Ends(outcome, chat.binding)
  /\ UNCHANGED <<hub, hubChanges, walk, disk, cleanup, wsFaults>>

-----------------------------------------------------------------------------
(* Deletion, crash and restart. *)

\* The turn is cancelled, not waited for.
Delete ==
  /\ chat.is = "alive"
  /\ chat' = [chat EXCEPT !.is = "deleting"]
  /\ UNCHANGED <<hub, hubChanges, walk, wsDriver, disk, cleanup, wsFaults>>

\* The workspace is removed whether or not the state file could be: a removal that
\* fails, and a save that was under way, leave one.  RemoveAll: a turn that writes
\* meanwhile makes it fail, which starts the cleanup.
RemoveWorkspace ==
  /\ chat.is = "deleting"
  /\ \/ chat' = [chat EXCEPT !.is = "deleted"] /\ UNCHANGED wsFaults
     \/ /\ wsFaults < MaxWsFaults /\ wsFaults' = wsFaults + 1
        /\ chat' = [chat EXCEPT !.is = "left"]
  /\ \/ disk' = NoWorkspace /\ UNCHANGED cleanup
     \/ Running /\ UNCHANGED disk /\ cleanup' = 5
  /\ UNCHANGED <<hub, hubChanges, walk, wsDriver>>

CleanUp ==
  /\ cleanup > 0
  /\ \/ disk' = NoWorkspace /\ cleanup' = 0
     \/ Running /\ UNCHANGED disk /\ cleanup' = cleanup - 1
  /\ UNCHANGED <<hub, hubChanges, walk, chat, wsDriver, wsFaults>>

\* A restart reads the record: what was being prepared has failed, and the turn was
\* interrupted; the state file of a chat that is being deleted may be gone.
Restored(c) ==
  [c EXCEPT !.binding = IF c.binding.status = "preparing" THEN FailedBinding(c.binding) ELSE c.binding,
            !.turns = [n \in DOMAIN c.turns |-> IF c.turns[n].status = "running"
                                                THEN [c.turns[n] EXCEPT !.status = "interrupted"]
                                                ELSE c.turns[n]]]

\* What is read from the state file that a deletion left.
Returned(c) == Restored([c EXCEPT !.is = "alive", !.emptied = TRUE])

\* restorePersistedOwnedSession: whoever asks for the chat finds that file.  (Here, once
\* the goroutine of the deleted chat has ended.)
ComesBack ==
  /\ chat.is = "left" /\ ~Running
  /\ chat' = Returned(chat)
  /\ UNCHANGED <<hub, hubChanges, walk, wsDriver, disk, cleanup, wsFaults>>

CrashRestart ==
  /\ wsFaults < MaxWsFaults /\ wsFaults' = wsFaults + 1
  /\ chat' \in CASE chat.is = "deleting" -> {[chat EXCEPT !.is = "deleted"], Restored([chat EXCEPT !.is = "alive"])}
               [] chat.is = "left"     -> {Returned(chat)}
               [] OTHER                -> {Restored(chat)}
  /\ wsDriver' = [pc |-> "idle", file |-> 0] /\ cleanup' = 0
  /\ UNCHANGED <<hub, hubChanges, walk, disk>>

WorkspaceNext ==
  \/ HubChanges \/ ShowPage
  \/ \E files \in SeqOf(UploadedFile, MaxTurnFiles) :
       \/ SendInput(files, {})
       \/ \E n \in DOMAIN hub : SendInput(files, {hub[n]})
  \/ Retry
  \/ SkipCheckout \/ ReuseCheckout \/ StartClone \/ EndClone \/ FailClone \/ Publish \/ MarkReady
  \/ WriteFile \/ FailWrite
  \/ StartAgent \/ AgentWorks \/ AgentEnds
  \/ Delete \/ RemoveWorkspace \/ CleanUp \/ ComesBack \/ CrashRestart

WorkspaceSpec == WorkspaceInit /\ [][WorkspaceNext]_wsVars

-----------------------------------------------------------------------------
(* Properties. *)

\* Every variable has its type.
WorkspaceTypeOK ==
  /\ hub \in Seq(RepoEntry) /\ hubChanges \in 0 .. MaxHubChanges
  /\ walk.shown \in Seq(RepoEntry) /\ walk.next \in Nat
  /\ chat.is \in {"alive", "deleting", "deleted", "left"} /\ chat.emptied \in BOOLEAN
  /\ chat.binding.status \in {"none", "preparing", "ready", "failed"}
  /\ wsDriver.pc \in {"idle", "prepare", "clone", "publish", "mark", "attach", "agent"}
  /\ {disk.staging, disk.target} \subseteq Checkout \cup {NoCheckout}
  /\ cleanup \in 0 .. 5 /\ wsFaults \in 0 .. MaxWsFaults

\* A chat that is used, and did not outlive the removal of its workspace.
InUse == chat.is = "alive" /\ ~chat.emptied

\* Whatever failed, crashed, was retried or was left by an earlier chat of that id: a
\* repository that is ready is there as a clone that had ended, of the name the chat
\* is bound to; and the agent never works in anything less.
ReadyIsWhole ==
  InUse /\ (chat.binding.status = "ready" \/ (wsDriver.pc = "agent" /\ chat.binding # NoBinding))
    => disk.target # NoCheckout /\ disk.target.whole /\ disk.target.name = chat.binding.name

\* Nothing but a deletion takes away or replaces a checkout the agent has worked in:
\* not a retry, not the preparation of a later turn, not a restart.
WorkIsKept ==
  [][disk.target # NoCheckout /\ disk.target.worked /\ InUse
       => disk'.target = disk.target]_wsVars

\* The picker shows every repository once, the latest first, while GitHub's list does
\* not change.
PickerShowsAll == walk.of = hub => walk.shown = SubSeq(hub, 1, walk.next)

\* Each file the agent is told of has what was attached, unless another one of the
\* turn has its name too.
FilesAreTheirOwn ==
  wsDriver.pc = "agent" /\ InUse =>
    \A n \in DOMAIN Attached :
      LET name(m) == FileName(m, Attached[m])
          key     == <<LastTurn, name(n)>>
      IN  (\A m \in DOMAIN Attached : name(m) = name(n) => m = n) =>
            key \in DOMAIN disk.files /\ disk.files[key] = Attached[n]

\* What the repository picker shows and the agent is given is what GitHub has and
\* what was attached.
RepositoriesAreTrue == ReadyIsWhole /\ PickerShowsAll /\ FilesAreTheirOwn

=============================================================================
