----------------------------- MODULE UpdateSource -----------------------------
(***************************************************************************)
(* What an update of the runtime is built from: the page asks the child,   *)
(* the child asks the parent (supervisorClientRestarter), and the parent   *)
(* brings the local checkout to origin/master or to the commit chosen on   *)
(* the page, then builds the candidate (cmd/alter0/relaunch.go).  The list *)
(* of commits to choose from is made by the child at the same time, in the *)
(* same checkout, where somebody may be editing and committing.            *)
(*                                                                         *)
(* origin/master is linear and never rewritten; commit n is its nth.  A    *)
(* local commit that was not pushed stands on one of them.  A git command  *)
(* takes effect at once or fails (an error, or its timeout).  What happens *)
(* to the child processes is RuntimeSupervisor's.                          *)
(***************************************************************************)
EXTENDS Naturals

CONSTANTS
  UpdateRequest,  \* requests of pages
  MaxCommits,     \* bound: commits of origin/master
  MaxOwnWork,     \* bound: edits and commits made in the checkout
  History         \* older commits that the list shows (10)

ASSUME SourceAssumption ==
  /\ MaxCommits \in Nat /\ MaxOwnWork \in Nat /\ History \in Nat

VARIABLES
  remote,         \* the tip of master at origin
  tracking,       \* refs/remotes/origin/master of the checkout
  fetched,        \* its FETCH_HEAD
  head,           \* the commit of its local master
  edits,          \* it has changes of tracked files
  work,           \* how often somebody worked in it
  runningCommit,  \* the commit that the running child was built from
  underway,       \* an update is in progress (s.updating)
  asking          \* the requests

repository == <<remote, tracking, fetched, head, edits, work>>
sourceVars == <<repository, runningCommit, underway, asking>>

NoTarget == MaxCommits + 1
Master   == 0 .. MaxCommits
Revision   == [at : Master, own : BOOLEAN]     \* own: the unpushed one on it
Of(n)    == [at |-> n, own |-> FALSE]

\* branch: the parent has begun; confirm: refused, the page must ask.  Of a
\* list, candidate is the commit that it is about.
\* History: looked is what somebody had worked when the request inspected the
\* tree, logs which of the logs of a list answered.
AskLabel == {"unsent", "branch", "status", "discard", "fetch", "choose", "merge",
             "build", "cutover", "list", "newer", "answered"}
AskOutcome == {"none", "accepted", "busy", "confirm", "failed", "listed"}

UpdateAsk == [at : AskLabel, sync : BOOLEAN, sure : BOOLEAN,
          target : Master \cup {NoTarget}, since : Master, candidate : Revision,
          items : SUBSET Revision, outcome : AskOutcome, told : AskOutcome,
          looked : 0 .. MaxOwnWork, logs : {"none", "newer", "both"}]

Unsent == [at |-> "unsent", sync |-> FALSE, sure |-> FALSE, target |-> NoTarget,
           since |-> 0, candidate |-> Of(0), items |-> {}, outcome |-> "none",
           told |-> "none", looked |-> 0, logs |-> "none"]

SourceTypeOK ==
  /\ remote \in Master /\ tracking \in Master /\ fetched \in Master
  /\ head \in Revision /\ edits \in BOOLEAN /\ work \in 0 .. MaxOwnWork
  /\ runningCommit \in Revision /\ underway \in BOOLEAN
  /\ asking \in [UpdateRequest -> UpdateAsk]

SourceInit ==
  /\ remote = 0 /\ tracking = 0 /\ fetched = 0
  /\ head = Of(0) /\ edits = FALSE /\ work = 0
  /\ runningCommit = Of(0) /\ underway = FALSE
  /\ asking = [r \in UpdateRequest |-> Unsent]

-----------------------------------------------------------------------------
(* Everybody else *)

Push == /\ remote < MaxCommits
        /\ remote' = remote + 1
        /\ UNCHANGED <<tracking, fetched, head, edits, work, runningCommit, underway, asking>>

EditFiles ==
  /\ work < MaxOwnWork /\ ~edits
  /\ edits' = TRUE /\ work' = work + 1
  /\ UNCHANGED <<remote, tracking, fetched, head, runningCommit, underway, asking>>

CommitFiles ==
  /\ edits /\ ~head.own
  /\ edits' = FALSE /\ head' = [head EXCEPT !.own = TRUE]
  /\ UNCHANGED <<remote, tracking, fetched, work, runningCommit, underway, asking>>

-----------------------------------------------------------------------------
(* The answer of the parent goes through the child to the page *)

AskAt(r, label) == asking[r].at = label
AskTo(r, label) == asking' = [asking EXCEPT ![r].at = label]

\* handleRestart: the status of the answer and the code in its body
SupervisorReply(outcome) ==
  CASE outcome = "accepted" -> [status |-> 202, code |-> FALSE]
    [] outcome = "busy"     -> [status |-> 409, code |-> FALSE]
    [] outcome = "confirm"  -> [status |-> 409, code |-> TRUE]
    [] OTHER                -> [status |-> 500, code |-> FALSE]

\* RequestRestart of the child: the code is looked at before the conflict.
ClientResult(reply) ==
  CASE reply.status = 202 -> "accepted"
    [] reply.code         -> "confirm"
    [] ~reply.code /\ reply.status = 409 -> "busy"
    [] OTHER -> "failed"

\* The handler has returned with an outcome.
Concludes(r, outcome) ==
  asking' = [asking EXCEPT ![r].at = IF outcome = "accepted" THEN "cutover" ELSE "answered",
                     ![r].outcome = outcome]

\* runtimeRestartHandler passes it on.
Tell(r) ==
  /\ asking[r].outcome # "none" /\ asking[r].told = "none"
  /\ asking' = [asking EXCEPT ![r].told = IF asking[r].outcome = "listed" THEN "listed"
                                    ELSE ClientResult(SupervisorReply(asking[r].outcome))]
  /\ UNCHANGED <<repository, runningCommit, underway>>

\* The child does not wait for ever, and may be stopped by the very update.
\* The parent goes on.
GiveUp(r) ==
  /\ ~AskAt(r, "unsent") /\ asking[r].told = "none"
  /\ asking' = [asking EXCEPT ![r].told = "failed"]
  /\ UNCHANGED <<repository, runningCommit, underway>>

-----------------------------------------------------------------------------
(* An update, up to its candidate *)

RequestUpdate(r) ==
  /\ AskAt(r, "unsent")
  /\ \E sync \in BOOLEAN, sure \in BOOLEAN, target \in Master \cup {NoTarget} :
       /\ ~sync => ~sure /\ target = NoTarget
       /\ target # NoTarget => target <= remote    \* it was listed
       /\ asking' = [asking EXCEPT ![r] =
            [Unsent EXCEPT !.at = IF underway THEN "answered"
                                  ELSE IF sync THEN "branch" ELSE "build",
                           !.sync = sync, !.sure = sure, !.target = target,
                           !.since = remote,
                           !.outcome = IF underway THEN "busy" ELSE "none"]]
  /\ underway' = TRUE
  /\ UNCHANGED <<repository, runningCommit>>

\* An error of prepareCandidate ends the update.
Fails(r, outcome) ==
  /\ Concludes(r, outcome)
  /\ underway' = FALSE
  /\ UNCHANGED <<repository, runningCommit>>

\* Anything but a checkout of master is refused; so is a command that fails.
InspectBranch(r) ==
  /\ AskAt(r, "branch")
  /\ \/ Fails(r, "failed")
     \/ AskTo(r, "status") /\ UNCHANGED <<repository, runningCommit, underway>>

Inspected(r) ==
  /\ asking' = [asking EXCEPT ![r].at = IF edits THEN "discard" ELSE "fetch",
                             ![r].looked = work]
  /\ UNCHANGED <<repository, runningCommit, underway>>

InspectUnasked(r) ==   \* mutant: edits are thrown away whether that was confirmed or not
  AskAt(r, "status") /\ (Fails(r, "failed") \/ Inspected(r))

InspectTree(r) ==
  /\ AskAt(r, "status")
  /\ \/ Fails(r, "failed")
     \/ edits /\ ~asking[r].sure /\ Fails(r, "confirm")
     \/ (edits => asking[r].sure) /\ Inspected(r)

\* git reset --hard HEAD
DiscardEdits(r) ==
  /\ AskAt(r, "discard")
  /\ \/ Fails(r, "failed")
     \/ /\ edits' = FALSE
        /\ AskTo(r, "fetch")
        /\ UNCHANGED <<remote, tracking, fetched, head, work, runningCommit, underway>>

\* Two attempts at git fetch --prune origin master
Fetched ==
  /\ tracking' = remote /\ fetched' = remote
  /\ UNCHANGED <<remote, head, edits, work>>

FetchMaster(r) ==
  /\ AskAt(r, "fetch")
  /\ \/ Fails(r, "failed")
     \/ /\ Fetched
        /\ AskTo(r, IF asking[r].target = NoTarget THEN "merge" ELSE "choose")
        /\ UNCHANGED <<runningCommit, underway>>

\* The chosen commit exists and is reachable from origin/master, whatever it
\* was when it was listed: git reset --hard to it.  The tree is not inspected
\* again, and neither is what local master had of its own.
ResetToTarget(r) ==
  /\ AskAt(r, "choose")
  /\ \/ Fails(r, "failed")
     \/ /\ asking[r].target <= tracking
        /\ head' = Of(asking[r].target) /\ edits' = FALSE
        /\ AskTo(r, "build")
        /\ UNCHANGED <<remote, tracking, fetched, work, runningCommit, underway>>

\* git merge --ff-only FETCH_HEAD, which refuses to leave a commit out and to
\* overwrite an edit (edits elsewhere stay)
FastForward(r) ==
  /\ AskAt(r, "merge")
  /\ \/ Fails(r, "failed")
     \/ /\ fetched > head.at => ~head.own
        /\ head' = IF fetched > head.at THEN Of(fetched) ELSE head
        /\ AskTo(r, "build")
        /\ UNCHANGED <<remote, tracking, fetched, edits, work, runningCommit, underway>>

\* buildRelaunchBinary: the candidate is what the checkout is by now.
Build(r) ==
  /\ AskAt(r, "build")
  /\ \/ Fails(r, "failed")
     \/ /\ asking' = [asking EXCEPT ![r].at = "cutover", ![r].outcome = "accepted",
                              ![r].candidate = head]
        /\ UNCHANGED <<repository, runningCommit, underway>>

\* The candidate takes over, or the previous executable stays.
Cutover(r) ==
  /\ AskAt(r, "cutover")
  /\ runningCommit' \in {runningCommit, asking[r].candidate}
  /\ underway' = FALSE
  /\ AskTo(r, "answered")
  /\ UNCHANGED repository

-----------------------------------------------------------------------------
(* The list *)

RequestList(r) ==
  /\ AskAt(r, "unsent")
  /\ asking' = [asking EXCEPT ![r] = [Unsent EXCEPT !.at = "list", !.since = remote]]
  /\ UNCHANGED <<repository, runningCommit, underway>>

FetchForTheList(r) ==
  /\ AskAt(r, "list")
  /\ \/ Concludes(r, "failed") /\ UNCHANGED <<repository, runningCommit, underway>>
     \/ /\ Fetched
        /\ AskTo(r, "newer")
        /\ UNCHANGED <<runningCommit, underway>>

\* git log current..origin/master along the ancestry path: nothing descends
\* from a commit that was not pushed.  git log -n 11 current.  The binary knows
\* the commit that it was built from.
Newer(c) == IF c.own THEN {} ELSE {Of(n) : n \in (c.at + 1) .. tracking}

Older(c) ==
  IF c.own THEN {c} \cup {Of(n) : n \in {n \in Master : n <= c.at /\ c.at < n + History}}
  ELSE {Of(n) : n \in {n \in Master : n <= c.at /\ c.at <= n + History}}

\* A commit that cannot be resolved is an error.  A log that fails, or takes too
\* long, ends the list, which is answered as it is by then: as a success, and
\* the page is not told that a part is missing.
MakeList(r) ==
  /\ AskAt(r, "newer")
  /\ \/ Concludes(r, "failed")
     \/ \E logs \in {"none", "newer", "both"} :
          asking' = [asking EXCEPT
            ![r].at = "answered", ![r].outcome = "listed", ![r].logs = logs,
            ![r].candidate = runningCommit,
            ![r].items = CASE logs = "none"  -> {}
                           [] logs = "newer" -> Newer(runningCommit)
                           [] OTHER -> Newer(runningCommit) \cup Older(runningCommit)]
  /\ UNCHANGED <<repository, runningCommit, underway>>

-----------------------------------------------------------------------------
(* The specification *)

SourceNext ==
  \/ Push \/ EditFiles \/ CommitFiles
  \/ \E r \in UpdateRequest :
       \/ RequestUpdate(r) \/ InspectBranch(r) \/ InspectTree(r) \/ DiscardEdits(r)
       \/ FetchMaster(r) \/ ResetToTarget(r) \/ FastForward(r) \/ Build(r) \/ Cutover(r)
       \/ RequestList(r) \/ FetchForTheList(r) \/ MakeList(r)
       \/ Tell(r) \/ GiveUp(r)

SourceSpec == SourceInit /\ [][SourceNext]_sourceVars

-----------------------------------------------------------------------------
(* Properties *)

\* A candidate that was asked to follow master has every commit that master
\* had when it was asked for; one of a chosen commit is that commit.  Others
\* fetch, edit and commit in the same checkout meanwhile.
SyncedAsAsked ==
  \A r \in UpdateRequest : asking[r].outcome = "accepted" /\ asking[r].sync =>
    IF asking[r].target = NoTarget THEN asking[r].candidate.at >= asking[r].since
    ELSE asking[r].candidate.at = asking[r].target

\* The page is asked for a confirmation when, and only when, it could have
\* given one: its request was refused for edits that it had not agreed to lose.
AskedToConfirm ==
  \A r \in UpdateRequest :
    /\ asking[r].told = "confirm" => asking[r].outcome = "confirm" /\ ~asking[r].sure
    /\ asking[r].told \notin {"none", "failed"} => asking[r].told = asking[r].outcome

\* Edits of tracked files are thrown away for a request that had confirmed it,
\* unless they were made after the request had looked: it resets to a chosen
\* commit without a second look.  Edits that go otherwise were committed.  (What
\* was committed and not pushed is nobody's question: the reset to a chosen
\* commit takes it from local master, confirmed or not.)
EditsAreAskedFor ==
  [][edits /\ ~edits' =>
       \/ ~head.own /\ head' = [head EXCEPT !.own = TRUE]
       \/ \E r \in UpdateRequest :
            /\ asking'[r] # asking[r]
            /\ asking[r].sure \/ (AskAt(r, "choose") /\ work > asking[r].looked)]_sourceVars

\* A list whose logs answered has every commit that master had when it was asked
\* for, from the running one on, and those before it; when only the first did, it
\* has the newer ones.
ListIsWhole ==
  \A r \in UpdateRequest : asking[r].outcome = "listed" /\ ~asking[r].candidate.own =>
    \A n \in Master : n <= asking[r].since =>
      /\ n > asking[r].candidate.at /\ asking[r].logs # "none" => Of(n) \in asking[r].items
      /\ n + History >= asking[r].candidate.at /\ asking[r].logs = "both" =>
           Of(n) \in asking[r].items

\* An update is what the page was shown, asked for and is told.
UpdateIsAsAsked == [](SyncedAsAsked /\ AskedToConfirm /\ ListIsWhole) /\ EditsAreAskedFor

=============================================================================
