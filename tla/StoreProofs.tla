----------------------------- MODULE StoreProofs -----------------------------
(***************************************************************************)
(* What is kept in directories that several parties write.                 *)
(*                                                                         *)
(* The runtime's checkout: a request to update has it for itself from its  *)
(* first look at the branch to its cutover, as far as other updates go;    *)
(* other pages list and fetch in it, and somebody edits and commits.  None *)
(* of these takes a commit from the history of the local master or of      *)
(* origin/master, so what the request brought it to is still there when it *)
(* builds.                                                                 *)
(*                                                                         *)
(* The task store: a save, a load and a deletion hold the locks; a crash   *)
(* may end each of them after any of its writes.                           *)
(*                                                                         *)
(* A chat's workspace: a turn prepares the checkout and the attachments in *)
(* steps, which failures, a deletion and crashes cut short and a retry     *)
(* begins again.                                                           *)
(*                                                                         *)
(* The registry of providers: what is read, what a handler makes of it and *)
(* what a start finds is one that messages can be resolved with.           *)
(*                                                                         *)
(* The skills: one change at a time is stored, installed, and taken back   *)
(* when a step fails.                                                      *)
(*                                                                         *)
(* Deletions: requests, maintenance runs and uploads that overlap; nobody  *)
(* adds to a session without it being known to whoever is removing it.     *)
(***************************************************************************)
EXTENDS UpdateSource, TaskStore, SessionWorkspace, ModelProviders, ControlPlane,
        SessionCleanup, SequenceTheorems, FiniteSetTheorems, FunctionTheorems, WellFoundedInduction, TLAPS

-----------------------------------------------------------------------------
(* Updates: the inductive invariant *)

Updating == {"branch", "status", "discard", "fetch", "choose", "merge", "build", "cutover"}

\* What a request is, whatever happens to the checkout.
AskInv(a) ==
  /\ a.outcome # "none" => a.at \in {"cutover", "answered"}
  /\ a.at = "choose" => a.target # NoTarget
  /\ a.at = "merge" => a.target = NoTarget
  /\ a.outcome = "accepted" /\ a.sync =>
       IF a.target = NoTarget THEN a.candidate.at >= a.since ELSE a.candidate.at = a.target
  /\ a.outcome = "confirm" => ~a.sure
  /\ a.told \notin {"none", "failed"} => a.told = a.outcome
  /\ a.outcome = "listed" /\ ~a.candidate.own =>
       \A n \in Master : n <= a.since =>
         /\ n > a.candidate.at /\ a.logs # "none" => Of(n) \in a.items
         /\ n + History >= a.candidate.at /\ a.logs = "both" => Of(n) \in a.items

\* What it knows of the edits it may throw away.
Seen(a, dirty, done) ==
  /\ a.looked <= done /\ (a.at = "discard" => a.sure)
  /\ a.at \in {"fetch", "choose"} /\ ~a.sure /\ dirty => done > a.looked

\* How far the checkout is brought for it.
Brought(a, tip, tracked, local) ==
  /\ a.since <= tip
  /\ a.at \in {"choose", "merge", "newer"} => a.since <= tracked
  /\ a.at = "build" /\ a.sync =>
       IF a.target = NoTarget THEN local.at >= a.since ELSE local.at = a.target

SourceInv ==
  /\ SourceTypeOK
  /\ tracking <= remote /\ fetched = tracking
  /\ \A r \in UpdateRequest : /\ AskInv(asking[r]) /\ Brought(asking[r], remote, tracking, head)
                              /\ Seen(asking[r], edits, work)
  /\ \A r \in UpdateRequest : asking[r].at \in Updating =>
       underway /\ \A q \in UpdateRequest : asking[q].at \in Updating => q = r

-----------------------------------------------------------------------------
(* A step of one request *)

LEMMA SourceTypes ==
  /\ MaxCommits \in Nat /\ 0 \in Master /\ Master \subseteq Nat /\ NoTarget \notin Master
  /\ Of(0) \in Revision /\ Unsent \in UpdateAsk /\ \A n \in Master : Of(n) \in Revision
<1>1. MaxCommits \in Nat /\ 0 \in Master /\ Master \subseteq Nat /\ NoTarget \notin Master
  BY SourceAssumption DEF Master, NoTarget
<1>2. \A n \in Master : Of(n) \in Revision
  BY DEF Of, Revision
<1>3. Unsent \in UpdateAsk
  BY <1>1, <1>2, SourceAssumption DEF Unsent, UpdateAsk, AskLabel, AskOutcome
<1> QED
  BY <1>1, <1>2, <1>3

\* A request's step that leaves the other requests the checkout as they need it.
LEMMA AskStep ==
  ASSUME SourceInv, NEW r \in UpdateRequest, NEW a \in UpdateAsk, asking' = [asking EXCEPT ![r] = a],
         remote' = remote, tracking' \in {tracking, remote}, fetched' = tracking',
         head' \in Revision, head' = head \/ asking[r].at \in Updating,
         edits' \in BOOLEAN, edits' => edits, work' = work, runningCommit' \in Revision, underway' \in BOOLEAN,
         AskInv(a), Brought(a, remote', tracking', head'), Seen(a, edits', work),
         a.at \in Updating => underway' /\ (asking[r].at \in Updating \/ ~underway),
         underway' \/ asking[r].at \in Updating \/ ~underway
  PROVE  SourceInv'
<1>1. /\ remote \in Master /\ tracking \in Master /\ fetched = tracking /\ tracking <= remote
      /\ asking \in [UpdateRequest -> UpdateAsk]
  BY DEF SourceInv, SourceTypeOK
<1>2. asking' \in [UpdateRequest -> UpdateAsk] /\ asking'[r] = a
      /\ \A q \in UpdateRequest \ {r} : asking'[q] = asking[q]
  BY <1>1
<1>3. tracking' \in Master /\ tracking' <= remote' /\ tracking <= tracking'
  BY <1>1, SourceTypes
<1>4. SourceTypeOK'
  BY <1>1, <1>2, <1>3 DEF SourceInv, SourceTypeOK
<1>5. ASSUME NEW q \in UpdateRequest
      PROVE  /\ AskInv(asking'[q]) /\ Brought(asking'[q], remote', tracking', head')
             /\ Seen(asking'[q], edits', work')
  <2>1. CASE q = r
    BY <1>2, <2>1 DEF Brought, Seen
  <2>2. CASE q # r
    <3>1. asking'[q] = asking[q] /\ AskInv(asking[q]) /\ asking[q] \in UpdateAsk
          /\ Brought(asking[q], remote, tracking, head) /\ Seen(asking[q], edits, work)
      BY <1>1, <1>2, <2>2 DEF SourceInv
    <3>2. asking[q].at = "build" => head' = head
      BY <2>2 DEF SourceInv, Updating
    <3>3. asking[q].since \in Nat
      BY <3>1, SourceTypes DEF UpdateAsk
    <3>4. asking[q].since <= tracking => asking[q].since <= tracking'
      BY <1>1, <1>3, <3>3, SourceTypes
    <3> QED
      BY <3>1, <3>2, <3>4 DEF Brought, Seen
  <2> QED
    BY <2>1, <2>2
<1>6. ASSUME NEW q \in UpdateRequest, asking'[q].at \in Updating
      PROVE  underway' /\ \A p \in UpdateRequest : asking'[p].at \in Updating => p = q
  <2>1. \A p \in UpdateRequest : asking[p].at \in Updating =>
          underway /\ \A o \in UpdateRequest : asking[o].at \in Updating => o = p
    BY DEF SourceInv
  <2> QED
    BY <1>2, <1>6, <2>1
<1> QED
  BY <1>3, <1>4, <1>5, <1>6 DEF SourceInv

\* A step of the surroundings, which no request notices.
LEMMA CalmStep ==
  ASSUME SourceInv, asking' = asking, underway' = underway, tracking' = tracking, fetched' = fetched,
         runningCommit' = runningCommit, remote' \in Master, remote <= remote',
         head' \in Revision, head'.at = head.at, edits' \in BOOLEAN, work' \in 0 .. MaxOwnWork,
         work <= work', edits' => edits \/ work' > work
  PROVE  SourceInv'
<1>1. /\ remote \in Nat /\ remote' \in Nat /\ tracking \in Nat /\ tracking <= remote
      /\ work \in Nat /\ work' \in Nat
  BY SourceTypes, SourceAssumption DEF SourceInv, SourceTypeOK
<1>4. ASSUME NEW r \in UpdateRequest PROVE asking[r].since \in Nat /\ asking[r].looked \in Nat
  <2>1. asking[r] \in UpdateAsk
    BY DEF SourceInv, SourceTypeOK
  <2> QED
    BY <2>1, SourceTypes, SourceAssumption DEF UpdateAsk
<1>2. SourceTypeOK' /\ tracking' <= remote'
  BY <1>1 DEF SourceInv, SourceTypeOK
<1>3. ASSUME NEW r \in UpdateRequest
      PROVE  /\ AskInv(asking'[r]) /\ Brought(asking'[r], remote', tracking', head')
             /\ Seen(asking'[r], edits', work')
  BY <1>1, <1>4 DEF SourceInv, Brought, Seen
<1> QED
  BY <1>2, <1>3 DEF SourceInv

LEMMA SourceInitInv == SourceInit => SourceInv
<1> SUFFICES ASSUME SourceInit PROVE SourceInv
  OBVIOUS
<1>1. SourceTypeOK
  <2>1. asking \in [UpdateRequest -> UpdateAsk] /\ head \in Revision /\ runningCommit \in Revision
    BY SourceTypes DEF SourceInit
  <2>2. 0 \in Master /\ 0 \in 0 .. MaxOwnWork
    BY SourceTypes, SourceAssumption
  <2> QED
    BY <2>1, <2>2 DEF SourceInit, SourceTypeOK
<1>2. \A r \in UpdateRequest : asking[r] = Unsent
  BY DEF SourceInit
<1>3. /\ Unsent.at = "unsent" /\ Unsent.outcome = "none" /\ Unsent.told = "none" /\ Unsent.since = 0
      /\ Unsent.looked = 0
  BY DEF Unsent
<1>4. AskInv(Unsent) /\ Brought(Unsent, remote, tracking, head) /\ Seen(Unsent, edits, work)
  BY <1>3 DEF AskInv, Brought, Seen, SourceInit
<1>5. tracking <= remote /\ fetched = tracking
  BY DEF SourceInit
<1> QED
  BY <1>1, <1>2, <1>3, <1>4, <1>5 DEF SourceInv, Updating

-----------------------------------------------------------------------------
(* The steps *)

LEMMA EveryoneElseInv == ASSUME SourceInv, Push \/ EditFiles \/ CommitFiles PROVE SourceInv'
<1>1. /\ remote \in Master /\ head \in Revision /\ edits \in BOOLEAN /\ work \in 0 .. MaxOwnWork
  BY DEF SourceInv, SourceTypeOK
<1>2. CASE Push
  <2>1. remote' \in Master /\ remote <= remote' /\ work <= work
    BY <1>1, <1>2, SourceAssumption DEF Push, Master
  <2> QED
    BY <1>1, <1>2, <2>1, CalmStep DEF Push
<1>3. CASE EditFiles
  <2>1. work' \in 0 .. MaxOwnWork /\ remote <= remote /\ work' > work /\ work <= work'
    BY <1>1, <1>3, SourceAssumption, SourceTypes DEF EditFiles
  <2> QED
    BY <1>1, <1>3, <2>1, CalmStep DEF EditFiles
<1>4. CASE CommitFiles
  <2>1. head' \in Revision /\ head'.at = head.at
    BY <1>1, <1>4 DEF CommitFiles, Revision
  <2>2. remote <= remote /\ work <= work
    BY <1>1, SourceTypes, SourceAssumption
  <2> QED
    BY <1>1, <1>4, <2>1, <2>2, CalmStep DEF CommitFiles
<1> QED
  BY <1>2, <1>3, <1>4

\* What is known of a request before its step.
LEMMA AskFacts ==
  ASSUME SourceInv, NEW r \in UpdateRequest
  PROVE  /\ asking \in [UpdateRequest -> UpdateAsk] /\ asking[r] \in UpdateAsk
         /\ AskInv(asking[r]) /\ Brought(asking[r], remote, tracking, head)
         /\ Seen(asking[r], edits, work) /\ work \in 0 .. MaxOwnWork
         /\ asking[r].since \in Nat /\ asking[r].target \in Master \cup {NoTarget}
         /\ remote \in Nat /\ tracking \in Nat /\ head \in Revision /\ head.at \in Nat
         /\ edits \in BOOLEAN /\ runningCommit \in Revision /\ underway \in BOOLEAN
         /\ fetched = tracking /\ tracking <= remote
         /\ asking[r].at \notin {"cutover", "answered"} => asking[r].outcome = "none"
         /\ asking[r].at \in Updating => underway
BY SourceTypes DEF SourceInv, SourceTypeOK, UpdateAsk, Revision, AskInv

\* A request that goes on, before it is answered.
LEMMA GoesOn ==
  ASSUME SourceInv, NEW r \in UpdateRequest, NEW label \in AskLabel, AskTo(r, label),
         label \notin {"cutover", "answered"}, asking[r].at \notin {"cutover", "answered"},
         label = "choose" => asking[r].target # NoTarget,
         label = "merge" => asking[r].target = NoTarget,
         label \in Updating => asking[r].at \in Updating, label # "discard",
         label \in {"fetch", "choose"} => asking[r].sure \/ asking[r].at = "fetch",
         remote' = remote, tracking' \in {tracking, remote}, fetched' = tracking',
         head' \in Revision, head' = head \/ asking[r].at \in Updating,
         edits' \in BOOLEAN, edits' => edits, work' = work, runningCommit' = runningCommit, underway' = underway,
         label \in {"choose", "merge", "newer"} => tracking' = remote,
         label = "build" /\ asking[r].sync =>
           IF asking[r].target = NoTarget THEN head'.at >= asking[r].since
           ELSE head'.at = asking[r].target
  PROVE  SourceInv'
<1> DEFINE old == asking[r]
           a == [old EXCEPT !.at = label]
<1>1. /\ old \in UpdateAsk /\ AskInv(old) /\ old.since \in Nat
      /\ Brought(old, remote, tracking, head) /\ Seen(old, edits, work)
      /\ asking \in [UpdateRequest -> UpdateAsk] /\ underway \in BOOLEAN /\ runningCommit \in Revision
      /\ old.outcome = "none" /\ (old.at \in Updating => underway)
  BY AskFacts
<1>2. /\ a \in UpdateAsk /\ a.at = label /\ a.since = old.since /\ a.target = old.target
      /\ a.sync = old.sync /\ a.sure = old.sure /\ a.outcome = old.outcome /\ a.told = old.told
      /\ a.candidate = old.candidate /\ a.items = old.items
      /\ a.looked = old.looked /\ a.logs = old.logs
  BY <1>1 DEF UpdateAsk
<1>3. asking' = [asking EXCEPT ![r] = a]
  BY <1>1 DEF AskTo
<1> HIDE DEF a
<1>4. AskInv(a)
  BY <1>1, <1>2 DEF AskInv
<1>5. Brought(a, remote', tracking', head') /\ Seen(a, edits', work)
  BY <1>1, <1>2 DEF Brought, Seen
<1> QED
  BY <1>1, <1>2, <1>3, <1>4, <1>5, AskStep

\* A request that is told of an error or of a conflict.
LEMMA ConcludesInv ==
  ASSUME SourceInv, NEW r \in UpdateRequest, NEW outcome \in {"failed", "confirm"},
         Concludes(r, outcome), asking[r].at \notin {"cutover", "answered"},
         outcome = "confirm" => ~asking[r].sure,
         underway' = underway \/ (asking[r].at \in Updating /\ underway' = FALSE),
         UNCHANGED <<repository, runningCommit>>
  PROVE  SourceInv'
<1> DEFINE old == asking[r]
           a == [old EXCEPT !.at = "answered", !.outcome = outcome]
<1>1. /\ old \in UpdateAsk /\ AskInv(old) /\ old.since \in Nat
      /\ Brought(old, remote, tracking, head) /\ Seen(old, edits, work)
      /\ asking \in [UpdateRequest -> UpdateAsk] /\ underway \in BOOLEAN /\ runningCommit \in Revision
      /\ old.outcome = "none" /\ (old.at \in Updating => underway)
      /\ head \in Revision /\ edits \in BOOLEAN /\ fetched = tracking
  BY AskFacts
<1>2. /\ a \in UpdateAsk /\ a.at = "answered" /\ a.since = old.since /\ a.sure = old.sure
      /\ a.outcome = outcome /\ a.told = old.told /\ a.looked = old.looked
  BY <1>1 DEF UpdateAsk, AskLabel, AskOutcome
<1>3. asking' = [asking EXCEPT ![r] = a]
  BY <1>1 DEF Concludes
<1> HIDE DEF a
<1>4. AskInv(a)
  BY <1>1, <1>2 DEF AskInv
<1>5. Brought(a, remote', tracking', head') /\ Seen(a, edits', work)
  BY <1>1, <1>2 DEF Brought, Seen, repository
<1> QED
  BY <1>1, <1>2, <1>3, <1>4, <1>5, AskStep DEF repository, Updating


LEMMA RequestInv == ASSUME SourceInv, NEW r \in UpdateRequest, RequestUpdate(r) PROVE SourceInv'
<1>1. PICK sync \in BOOLEAN, sure \in BOOLEAN, target \in Master \cup {NoTarget} :
        /\ ~sync => ~sure /\ target = NoTarget
        /\ asking' = [asking EXCEPT ![r] =
             [Unsent EXCEPT !.at = IF underway THEN "answered" ELSE IF sync THEN "branch" ELSE "build",
                            !.sync = sync, !.sure = sure, !.target = target, !.since = remote,
                            !.outcome = IF underway THEN "busy" ELSE "none"]]
  BY DEF RequestUpdate
<1> DEFINE at == IF underway THEN "answered" ELSE IF sync THEN "branch" ELSE "build"
           outcome == IF underway THEN "busy" ELSE "none"
           a == [Unsent EXCEPT !.at = at, !.sync = sync, !.sure = sure, !.target = target,
                               !.since = remote, !.outcome = outcome]
<1>2. /\ underway' = TRUE /\ UNCHANGED <<repository, runningCommit>> /\ asking' = [asking EXCEPT ![r] = a]
      /\ asking[r].at = "unsent"
  BY <1>1 DEF RequestUpdate, AskAt
<1>3. /\ at \in AskLabel /\ outcome \in AskOutcome /\ at \in {"answered", "branch", "build"}
      /\ outcome \in {"busy", "none"} /\ (at # "answered" => outcome = "none" /\ ~underway)
      /\ (at = "build" => ~sync)
  BY AskFacts DEF AskLabel, AskOutcome
<1>4. remote \in Master /\ remote <= remote /\ Unsent \in UpdateAsk /\ Unsent.told = "none"
  BY SourceTypes DEF SourceInv, SourceTypeOK, Unsent
<1> HIDE DEF at, outcome
<1>5. /\ a \in UpdateAsk /\ a.at = at /\ a.sync = sync /\ a.since = remote
      /\ a.outcome = outcome /\ a.told = "none" /\ a.looked = 0
  BY <1>3, <1>4 DEF UpdateAsk, Unsent
<1> HIDE DEF a
<1>6. AskInv(a)
  BY <1>3, <1>5 DEF AskInv
<1>8. /\ head \in Revision /\ edits \in BOOLEAN /\ fetched = tracking /\ runningCommit \in Revision
      /\ work \in 0 .. MaxOwnWork
  BY AskFacts
<1>7. Brought(a, remote', tracking', head') /\ Seen(a, edits', work)
  BY <1>2, <1>3, <1>4, <1>5, <1>8, SourceAssumption DEF Brought, Seen, repository
<1> QED
  BY <1>2, <1>3, <1>5, <1>6, <1>7, <1>8, AskStep DEF repository, Updating

\* A failure or a refusal ends the update; a list that fails is none.
LEMMA FailsInv ==
  ASSUME SourceInv, NEW r \in UpdateRequest, NEW outcome \in {"failed", "confirm"}, Fails(r, outcome),
         asking[r].at \in Updating \ {"cutover"}, outcome = "confirm" => ~asking[r].sure
  PROVE  SourceInv'
BY ConcludesInv DEF Fails, Updating

\* The tree as it is now is what the request has seen.
LEMMA InspectedInv ==
  ASSUME SourceInv, NEW r \in UpdateRequest, AskAt(r, "status"), Inspected(r), edits => asking[r].sure
  PROVE  SourceInv'
<1> DEFINE old == asking[r]
           label == IF edits THEN "discard" ELSE "fetch"
           a == [old EXCEPT !.at = label, !.looked = work]
<1>1. /\ old \in UpdateAsk /\ AskInv(old) /\ old.since \in Nat
      /\ Brought(old, remote, tracking, head) /\ work \in 0 .. MaxOwnWork
      /\ asking \in [UpdateRequest -> UpdateAsk] /\ underway \in BOOLEAN /\ runningCommit \in Revision
      /\ old.outcome = "none" /\ old.at = "status" /\ underway
      /\ head \in Revision /\ edits \in BOOLEAN /\ fetched = tracking
  BY AskFacts DEF AskAt, Updating
<1>2. label \in AskLabel /\ label \in Updating /\ label \in {"discard", "fetch"}
      /\ (label = "discard" <=> edits)
  BY <1>1 DEF AskLabel, Updating
<1>3. asking' = [asking EXCEPT ![r] = a] /\ UNCHANGED <<repository, runningCommit, underway>>
  BY <1>1 DEF Inspected
<1> HIDE DEF label
<1>4. /\ a \in UpdateAsk /\ a.at = label /\ a.since = old.since /\ a.sure = old.sure
      /\ a.outcome = old.outcome /\ a.told = old.told /\ a.looked = work
  BY <1>1, <1>2 DEF UpdateAsk
<1> HIDE DEF a
<1>5. AskInv(a)
  BY <1>1, <1>2, <1>4 DEF AskInv
<1>6. Brought(a, remote', tracking', head') /\ Seen(a, edits', work)
  BY <1>1, <1>2, <1>3, <1>4, SourceAssumption DEF Brought, Seen, repository
<1> QED
  BY <1>1, <1>2, <1>3, <1>4, <1>5, <1>6, AskStep DEF repository, Updating

LEMMA InspectInv ==
  ASSUME SourceInv, NEW r \in UpdateRequest, InspectBranch(r) \/ InspectTree(r) \/ DiscardEdits(r)
  PROVE  SourceInv'
<1>1. /\ head \in Revision /\ edits \in BOOLEAN /\ fetched = tracking /\ asking[r].since \in Nat
      /\ asking[r].at \in {"branch", "status", "discard"} /\ Seen(asking[r], edits, work)
  BY AskFacts DEF InspectBranch, InspectTree, DiscardEdits, AskAt
<1>2. CASE Fails(r, "failed")
  BY <1>1, <1>2, FailsInv DEF Updating
<1>3. CASE edits /\ ~asking[r].sure /\ Fails(r, "confirm")
  BY <1>1, <1>3, FailsInv DEF Updating
<1>4. CASE AskTo(r, "status") /\ UNCHANGED <<repository, runningCommit, underway>>
  BY <1>1, <1>4, GoesOn DEF Updating, AskLabel, repository
<1>5. CASE AskAt(r, "status") /\ (edits => asking[r].sure) /\ Inspected(r)
  BY <1>5, InspectedInv
<1>6. CASE /\ asking[r].at = "discard" /\ edits' = FALSE /\ AskTo(r, "fetch")
           /\ UNCHANGED <<remote, tracking, fetched, head, work, runningCommit, underway>>
  <2>1. "fetch" \in AskLabel /\ "fetch" \in Updating /\ "discard" \in Updating
    BY DEF AskLabel, Updating
  <2>2. asking[r].sure
    BY <1>1, <1>6 DEF Seen
  <2> QED
    BY <1>1, <1>6, <2>1, <2>2, GoesOn
<1> QED
  BY <1>1, <1>2, <1>3, <1>4, <1>5, <1>6 DEF InspectBranch, InspectTree, DiscardEdits, AskAt

LEMMA FetchInv ==
  ASSUME SourceInv, NEW r \in UpdateRequest, FetchMaster(r) \/ FetchForTheList(r) PROVE SourceInv'
<1>1. /\ head \in Revision /\ edits \in BOOLEAN /\ fetched = tracking /\ asking[r].since \in Nat
      /\ remote \in Nat
  BY AskFacts
<1>2. CASE FetchMaster(r)
  <2>1. asking[r].at = "fetch"
    BY <1>2 DEF FetchMaster, AskAt
  <2>2. CASE Fails(r, "failed")
    BY <2>1, <2>2, FailsInv DEF Updating
  <2>3. CASE ~Fails(r, "failed")
    <3> DEFINE label == IF asking[r].target = NoTarget THEN "merge" ELSE "choose"
    <3>1. Fetched /\ AskTo(r, label) /\ UNCHANGED <<runningCommit, underway>>
      BY <1>2, <2>3 DEF FetchMaster
    <3>2. /\ label \in AskLabel \cap Updating /\ label \in {"merge", "choose"}
          /\ label = "merge" <=> asking[r].target = NoTarget
      BY DEF AskLabel, Updating
    <3> HIDE DEF label
    <3> QED
      BY <1>1, <2>1, <3>1, <3>2, GoesOn DEF Fetched, Updating
  <2> QED
    BY <2>2, <2>3
<1>3. CASE FetchForTheList(r)
  <2>1. asking[r].at = "list"
    BY <1>3 DEF FetchForTheList, AskAt
  <2>2. CASE Concludes(r, "failed") /\ UNCHANGED <<repository, runningCommit, underway>>
    BY <2>1, <2>2, ConcludesInv
  <2>3. CASE Fetched /\ AskTo(r, "newer") /\ UNCHANGED <<runningCommit, underway>>
    <3>1. "newer" \in AskLabel /\ "newer" \notin Updating
      BY DEF AskLabel, Updating
    <3> QED
      BY <1>1, <2>1, <2>3, <3>1, GoesOn DEF Fetched
  <2> QED
    BY <1>3, <2>2, <2>3 DEF FetchForTheList
<1> QED
  BY <1>2, <1>3

LEMMA BringInv ==
  ASSUME SourceInv, NEW r \in UpdateRequest, ResetToTarget(r) \/ FastForward(r) PROVE SourceInv'
<1>1. /\ head \in Revision /\ edits \in BOOLEAN /\ fetched = tracking /\ asking[r].since \in Nat
      /\ remote \in Nat /\ AskInv(asking[r]) /\ Brought(asking[r], remote, tracking, head)
      /\ head.at \in Nat /\ tracking \in Nat /\ tracking \in Master
      /\ asking[r].target \in Master \cup {NoTarget}
  BY AskFacts DEF SourceInv, SourceTypeOK
<1>2. "build" \in AskLabel /\ "build" \in Updating
  BY DEF AskLabel, Updating
<1>3. \A n \in Master : Of(n) \in Revision /\ Of(n).at = n
  BY SourceTypes DEF Of
<1>4. CASE ResetToTarget(r)
  <2>1. asking[r].at = "choose" /\ asking[r].target # NoTarget /\ asking[r].target \in Master
    BY <1>1, <1>4 DEF ResetToTarget, AskAt, AskInv
  <2>2. CASE Fails(r, "failed")
    BY <2>1, <2>2, FailsInv DEF Updating
  <2>3. CASE ~Fails(r, "failed")
    <3>1. /\ head' = Of(asking[r].target) /\ edits' = FALSE /\ AskTo(r, "build")
          /\ UNCHANGED <<remote, tracking, fetched, work, runningCommit, underway>>
      BY <1>4, <2>3 DEF ResetToTarget
    <3>2. head' \in Revision /\ head'.at = asking[r].target
      BY <1>3, <2>1, <3>1
    <3> QED
      BY <1>1, <1>2, <2>1, <3>1, <3>2, GoesOn DEF Updating
  <2> QED
    BY <2>2, <2>3
<1>5. CASE FastForward(r)
  <2>1. asking[r].at = "merge" /\ asking[r].target = NoTarget /\ asking[r].since <= tracking
    BY <1>1, <1>5 DEF FastForward, AskAt, AskInv, Brought
  <2>2. CASE Fails(r, "failed")
    BY <2>1, <2>2, FailsInv DEF Updating
  <2>3. CASE ~Fails(r, "failed")
    <3>1. /\ head' = IF fetched > head.at THEN Of(fetched) ELSE head
          /\ AskTo(r, "build")
          /\ UNCHANGED <<remote, tracking, fetched, edits, work, runningCommit, underway>>
      BY <1>5, <2>3 DEF FastForward
    <3>2. head' \in Revision /\ head'.at >= asking[r].since
      BY <1>1, <1>3, <2>1, <3>1
    <3> QED
      BY <1>1, <1>2, <2>1, <3>1, <3>2, GoesOn DEF Updating
  <2> QED
    BY <2>2, <2>3
<1> QED
  BY <1>4, <1>5

LEMMA BuildInv == ASSUME SourceInv, NEW r \in UpdateRequest, Build(r) PROVE SourceInv'
<1> DEFINE old == asking[r]
           a == [old EXCEPT !.at = "cutover", !.outcome = "accepted", !.candidate = head]
<1>1. /\ old \in UpdateAsk /\ AskInv(old) /\ old.since \in Nat
      /\ Brought(old, remote, tracking, head) /\ Seen(old, edits, work)
      /\ asking \in [UpdateRequest -> UpdateAsk] /\ underway \in BOOLEAN /\ runningCommit \in Revision
      /\ old.outcome = "none" /\ old.at = "build" /\ underway
      /\ head \in Revision /\ edits \in BOOLEAN /\ fetched = tracking
  BY AskFacts DEF Build, AskAt, Updating
<1>2. CASE Fails(r, "failed")
  BY <1>1, <1>2, FailsInv DEF Updating
<1>3. CASE ~Fails(r, "failed")
  <2>1. asking' = [asking EXCEPT ![r] = a] /\ UNCHANGED <<repository, runningCommit, underway>>
    BY <1>1, <1>3 DEF Build
  <2>2. /\ a \in UpdateAsk /\ a.at = "cutover" /\ a.since = old.since /\ a.target = old.target
        /\ a.sync = old.sync /\ a.outcome = "accepted" /\ a.told = old.told /\ a.candidate = head
        /\ a.looked = old.looked
    BY <1>1 DEF UpdateAsk, AskLabel, AskOutcome
  <2> HIDE DEF a
  <2>3. AskInv(a)
    BY <1>1, <2>2 DEF AskInv, Brought
  <2>4. Brought(a, remote', tracking', head') /\ Seen(a, edits', work)
    BY <1>1, <2>1, <2>2 DEF Brought, Seen, repository
  <2> QED
    BY <1>1, <2>1, <2>2, <2>3, <2>4, AskStep DEF repository, Updating
<1> QED
  BY <1>2, <1>3

LEMMA CutoverInv == ASSUME SourceInv, NEW r \in UpdateRequest, Cutover(r) PROVE SourceInv'
<1> DEFINE old == asking[r]
           a == [old EXCEPT !.at = "answered"]
<1>1. /\ old \in UpdateAsk /\ AskInv(old) /\ old.since \in Nat
      /\ Brought(old, remote, tracking, head) /\ Seen(old, edits, work)
      /\ asking \in [UpdateRequest -> UpdateAsk] /\ underway \in BOOLEAN /\ runningCommit \in Revision
      /\ old.at = "cutover" /\ underway
      /\ head \in Revision /\ edits \in BOOLEAN /\ fetched = tracking
  BY AskFacts DEF Cutover, AskAt, Updating
<1>2. /\ asking' = [asking EXCEPT ![r] = a] /\ underway' = FALSE /\ UNCHANGED repository
      /\ runningCommit' \in {runningCommit, old.candidate}
  BY <1>1 DEF Cutover, AskTo
<1>3. runningCommit' \in Revision
  BY <1>1, <1>2 DEF UpdateAsk
<1>4. /\ a \in UpdateAsk /\ a.at = "answered" /\ a.since = old.since /\ a.target = old.target
      /\ a.sync = old.sync /\ a.sure = old.sure /\ a.outcome = old.outcome /\ a.told = old.told
      /\ a.candidate = old.candidate /\ a.items = old.items
      /\ a.looked = old.looked /\ a.logs = old.logs
  BY <1>1 DEF UpdateAsk, AskLabel
<1> HIDE DEF a
<1>5. AskInv(a)
  BY <1>1, <1>4 DEF AskInv
<1>6. Brought(a, remote', tracking', head') /\ Seen(a, edits', work)
  BY <1>1, <1>2, <1>4 DEF Brought, Seen, repository
<1> QED
  BY <1>1, <1>2, <1>3, <1>4, <1>5, <1>6, AskStep DEF repository, Updating

LEMMA RequestListInv == ASSUME SourceInv, NEW r \in UpdateRequest, RequestList(r) PROVE SourceInv'
<1> DEFINE a == [Unsent EXCEPT !.at = "list", !.since = remote]
<1>1. /\ asking' = [asking EXCEPT ![r] = a] /\ UNCHANGED <<repository, runningCommit, underway>>
      /\ asking[r].at = "unsent"
  BY DEF RequestList, AskAt
<1>2. remote \in Master /\ remote <= remote /\ Unsent \in UpdateAsk
  BY SourceTypes DEF SourceInv, SourceTypeOK
<1>3. /\ a \in UpdateAsk /\ a.at = "list" /\ a.since = remote /\ a.outcome = "none" /\ a.told = "none"
      /\ a.looked = 0
  BY <1>2 DEF UpdateAsk, Unsent, AskLabel
<1>4. /\ head \in Revision /\ edits \in BOOLEAN /\ fetched = tracking /\ runningCommit \in Revision
      /\ underway \in BOOLEAN /\ work \in 0 .. MaxOwnWork
  BY AskFacts
<1> HIDE DEF a
<1>5. AskInv(a)
  BY <1>3 DEF AskInv
<1>6. Brought(a, remote', tracking', head') /\ Seen(a, edits', work)
  BY <1>1, <1>2, <1>3, <1>4, SourceAssumption DEF Brought, Seen, repository
<1> QED
  BY <1>1, <1>3, <1>4, <1>5, <1>6, AskStep DEF repository, Updating

\* The list of a commit that was pushed is made of what was fetched for it.
LEMMA ListedItems ==
  ASSUME NEW c \in Revision, ~c.own, NEW n \in Master, NEW seen \in Nat, seen <= tracking,
         tracking \in Nat, n <= seen
  PROVE  /\ n > c.at => Of(n) \in Newer(c)
         /\ n <= c.at /\ n + History >= c.at => Of(n) \in Older(c)
<1>1. c.at \in Nat /\ n \in Nat /\ History \in Nat
  BY SourceTypes, SourceAssumption DEF Revision
<1>2. CASE n > c.at
  <2>1. n \in (c.at + 1) .. tracking
    BY <1>1, <1>2
  <2> QED
    BY <1>1, <1>2, <2>1 DEF Newer
<1>3. CASE n <= c.at
  BY <1>1, <1>3 DEF Older
<1> QED
  BY <1>1, <1>2, <1>3

LEMMA MakeListInv == ASSUME SourceInv, NEW r \in UpdateRequest, MakeList(r) PROVE SourceInv'
<1> DEFINE old == asking[r]
           list(logs) == CASE logs = "none"  -> {}
                           [] logs = "newer" -> Newer(runningCommit)
                           [] OTHER -> Newer(runningCommit) \cup Older(runningCommit)
           a(logs) == [old EXCEPT !.at = "answered", !.outcome = "listed", !.logs = logs,
                            !.candidate = runningCommit, !.items = list(logs)]
<1>1. /\ old \in UpdateAsk /\ AskInv(old) /\ old.since \in Nat
      /\ Brought(old, remote, tracking, head) /\ Seen(old, edits, work)
      /\ asking \in [UpdateRequest -> UpdateAsk] /\ underway \in BOOLEAN /\ runningCommit \in Revision
      /\ old.outcome = "none" /\ old.at = "newer" /\ tracking \in Nat
      /\ head \in Revision /\ edits \in BOOLEAN /\ fetched = tracking
  BY AskFacts DEF MakeList, AskAt
<1>2. UNCHANGED <<repository, runningCommit, underway>>
  BY DEF MakeList
<1>3. CASE Concludes(r, "failed")
  BY <1>1, <1>2, <1>3, ConcludesInv
<1>4. ASSUME NEW logs \in {"none", "newer", "both"}, asking' = [asking EXCEPT ![r] = a(logs)]
      PROVE  SourceInv'
  <2> DEFINE items == list(logs)
             b == [old EXCEPT !.at = "answered", !.outcome = "listed", !.logs = logs,
                            !.candidate = runningCommit, !.items = items]
  <2>1. items \in SUBSET Revision
    <3>1. tracking \in Master /\ runningCommit.at \in Master
      BY <1>1 DEF SourceInv, SourceTypeOK, Revision
    <3>2. \A n \in (runningCommit.at + 1) .. tracking : n \in Master
      BY <3>1, SourceTypes DEF Master
    <3>3. Newer(runningCommit) \subseteq Revision
      BY <3>2, SourceTypes DEF Newer
    <3>4. Older(runningCommit) \subseteq Revision
      BY <1>1, SourceTypes DEF Older
    <3> QED
      BY <3>3, <3>4
  <2>2. ASSUME ~runningCommit.own, NEW n \in Master, n <= old.since
        PROVE  /\ n > runningCommit.at /\ logs # "none" => Of(n) \in items
               /\ n + History >= runningCommit.at /\ logs = "both" => Of(n) \in items
    <3>1. /\ n > runningCommit.at => Of(n) \in Newer(runningCommit)
          /\ n <= runningCommit.at /\ n + History >= runningCommit.at => Of(n) \in Older(runningCommit)
      BY <1>1, <2>2, ListedItems DEF Brought
    <3>2. n \in Nat /\ runningCommit.at \in Nat
      BY <1>1, SourceTypes DEF Revision
    <3> QED
      BY <3>1, <3>2
  <2>3. asking' = [asking EXCEPT ![r] = b]
    BY <1>4
  <2> HIDE DEF items
  <2>4. /\ b \in UpdateAsk /\ b.at = "answered" /\ b.since = old.since /\ b.outcome = "listed"
        /\ b.told = old.told /\ b.candidate = runningCommit /\ b.items = items
        /\ b.logs = logs /\ b.looked = old.looked
    BY <1>1, <2>1 DEF UpdateAsk, AskLabel, AskOutcome
  <2> HIDE DEF b
  <2>5. AskInv(b)
    BY <1>1, <2>2, <2>4 DEF AskInv
  <2>6. Brought(b, remote', tracking', head') /\ Seen(b, edits', work)
    BY <1>1, <1>2, <2>4 DEF Brought, Seen, repository
  <2> QED
    BY <1>1, <1>2, <2>3, <2>4, <2>5, <2>6, AskStep DEF repository, Updating
<1>5. ASSUME ~Concludes(r, "failed")
      PROVE  \E logs \in {"none", "newer", "both"} : asking' = [asking EXCEPT ![r] = a(logs)]
  <2>1. PICK logs \in {"none", "newer", "both"} :
          asking' = [asking EXCEPT
            ![r].at = "answered", ![r].outcome = "listed", ![r].logs = logs,
            ![r].candidate = runningCommit, ![r].items = list(logs)]
    BY <1>5 DEF MakeList
  <2>2. asking' = [asking EXCEPT ![r] = a(logs)]
    BY <1>1, <2>1
  <2> QED
    BY <2>2
<1> QED
  BY <1>3, <1>4, <1>5

\* What the page is told is what the parent answered, through both handlers.
LEMMA TellInv == ASSUME SourceInv, NEW r \in UpdateRequest, Tell(r) \/ GiveUp(r) PROVE SourceInv'
<1> DEFINE old == asking[r]
<1>1. /\ old \in UpdateAsk /\ AskInv(old) /\ old.since \in Nat
      /\ Brought(old, remote, tracking, head) /\ Seen(old, edits, work)
      /\ asking \in [UpdateRequest -> UpdateAsk] /\ underway \in BOOLEAN /\ runningCommit \in Revision
      /\ (old.at \in Updating => underway) /\ old.outcome \in AskOutcome
      /\ head \in Revision /\ edits \in BOOLEAN /\ fetched = tracking
  BY AskFacts DEF UpdateAsk
<1>2. PICK told \in {"failed", old.outcome} :
        asking' = [asking EXCEPT ![r] = [old EXCEPT !.told = told]]
  <2>1. CASE GiveUp(r)
    BY <1>1, <2>1 DEF GiveUp
  <2>2. CASE Tell(r)
    <3> DEFINE said == IF old.outcome = "listed" THEN "listed"
                       ELSE ClientResult(SupervisorReply(old.outcome))
    <3>1. old.outcome \in {"accepted", "busy", "confirm", "failed", "listed"}
      BY <1>1, <2>2 DEF Tell, AskOutcome
    <3>2. said = old.outcome
      <4>1. CASE old.outcome = "accepted"
        BY <4>1 DEF ClientResult, SupervisorReply
      <4>2. CASE old.outcome = "busy"
        BY <4>2 DEF ClientResult, SupervisorReply
      <4>3. CASE old.outcome = "confirm"
        BY <4>3 DEF ClientResult, SupervisorReply
      <4>4. CASE old.outcome = "failed"
        BY <4>4 DEF ClientResult, SupervisorReply
      <4> QED
        BY <3>1, <4>1, <4>2, <4>3, <4>4
    <3>3. asking' = [asking EXCEPT ![r] = [old EXCEPT !.told = said]]
      BY <1>1, <2>2 DEF Tell
    <3> QED
      BY <3>2, <3>3
  <2> QED
    BY <2>1, <2>2
<1> DEFINE a == [old EXCEPT !.told = told]
<1>3. UNCHANGED <<repository, runningCommit, underway>>
  BY DEF Tell, GiveUp
<1>4. /\ a \in UpdateAsk /\ a.at = old.at /\ a.since = old.since /\ a.target = old.target
      /\ a.sync = old.sync /\ a.sure = old.sure /\ a.outcome = old.outcome /\ a.told = told
      /\ a.candidate = old.candidate /\ a.items = old.items
      /\ a.looked = old.looked /\ a.logs = old.logs
  BY <1>1 DEF UpdateAsk, AskOutcome
<1>5. asking' = [asking EXCEPT ![r] = a]
  BY <1>2
<1> HIDE DEF a
<1>6. AskInv(a)
  BY <1>1, <1>4 DEF AskInv
<1>7. Brought(a, remote', tracking', head') /\ Seen(a, edits', work)
  BY <1>1, <1>3, <1>4 DEF Brought, Seen, repository
<1> QED
  BY <1>1, <1>3, <1>4, <1>5, <1>6, <1>7, AskStep DEF repository

LEMMA SourceStepInv == SourceInv /\ [SourceNext]_sourceVars => SourceInv'
<1> SUFFICES ASSUME SourceInv, [SourceNext]_sourceVars PROVE SourceInv'
  OBVIOUS
<1>1. CASE UNCHANGED sourceVars
  BY <1>1 DEF sourceVars, repository, SourceInv, SourceTypeOK
<1>2. CASE \E r \in UpdateRequest : RequestUpdate(r) \/ InspectBranch(r) \/ InspectTree(r)
             \/ DiscardEdits(r) \/ FetchMaster(r) \/ ResetToTarget(r) \/ FastForward(r)
  BY <1>2, RequestInv, InspectInv, FetchInv, BringInv
<1>3. CASE \E r \in UpdateRequest : Build(r) \/ Cutover(r) \/ RequestList(r) \/ FetchForTheList(r)
             \/ MakeList(r) \/ Tell(r) \/ GiveUp(r)
  BY <1>3, BuildInv, CutoverInv, RequestListInv, FetchInv, MakeListInv, TellInv
<1> QED
  BY <1>1, <1>2, <1>3, EveryoneElseInv DEF SourceNext

\* Edits go when they are committed, or for a request that had agreed to it or
\* resets to the chosen commit after they were made.
LEMMA EditsStep == SourceInv /\ [SourceNext]_sourceVars =>
  (edits /\ ~edits' =>
       \/ ~head.own /\ head' = [head EXCEPT !.own = TRUE]
       \/ \E r \in UpdateRequest :
            /\ asking'[r] # asking[r]
            /\ asking[r].sure \/ (AskAt(r, "choose") /\ work > asking[r].looked))
<1> SUFFICES ASSUME SourceInv, [SourceNext]_sourceVars, edits, ~edits'
             PROVE  \/ ~head.own /\ head' = [head EXCEPT !.own = TRUE]
                    \/ \E r \in UpdateRequest :
                         /\ asking'[r] # asking[r]
                         /\ asking[r].sure \/ (AskAt(r, "choose") /\ work > asking[r].looked)
  OBVIOUS
<1>1. \/ CommitFiles
      \/ \E r \in UpdateRequest : DiscardEdits(r) \/ ResetToTarget(r)
  BY DEF SourceNext, sourceVars, repository, Push, EditFiles, RequestUpdate, InspectBranch,
         InspectTree, Inspected, FetchMaster, Fetched, FastForward, Build, Cutover, RequestList,
         FetchForTheList, MakeList, Tell, GiveUp, Fails
<1>2. CASE CommitFiles
  BY <1>2 DEF CommitFiles
<1>3. ASSUME NEW r \in UpdateRequest, DiscardEdits(r) \/ ResetToTarget(r)
      PROVE  asking'[r] # asking[r] /\ (asking[r].sure \/ (AskAt(r, "choose") /\ work > asking[r].looked))
  <2>1. asking \in [UpdateRequest -> UpdateAsk] /\ Seen(asking[r], edits, work)
    BY AskFacts
  <2>2. asking[r].at \in {"discard", "choose"} /\ (AskTo(r, "fetch") \/ AskTo(r, "build"))
    BY <1>3 DEF DiscardEdits, ResetToTarget, Fails, AskAt, repository
  <2>3. asking'[r].at \in {"fetch", "build"}
    BY <2>1, <2>2 DEF AskTo, UpdateAsk
  <2> QED
    BY <2>1, <2>2, <2>3 DEF Seen, AskAt
<1> QED
  BY <1>1, <1>2, <1>3

\* A candidate has what its request asked for, the page is asked for a
\* confirmation when it could have given one, edits that were not confirmed to go
\* are not thrown away unless they came after the look, and a list leaves out
\* only what a failing log would have told: for any number of requests, commits
\* and edits.
THEOREM UpdateIsAsAskedAlways == SourceSpec => UpdateIsAsAsked
<1>1. SourceInv => SyncedAsAsked /\ AskedToConfirm /\ ListIsWhole
  <2> SUFFICES ASSUME SourceInv PROVE SyncedAsAsked /\ AskedToConfirm /\ ListIsWhole
    OBVIOUS
  <2>1. \A r \in UpdateRequest : AskInv(asking[r])
    BY DEF SourceInv
  <2> QED
    BY <2>1 DEF AskInv, SyncedAsAsked, AskedToConfirm, ListIsWhole
<1>2. SourceInv /\ [SourceNext]_sourceVars =>
        [edits /\ ~edits' =>
           \/ ~head.own /\ head' = [head EXCEPT !.own = TRUE]
           \/ \E r \in UpdateRequest :
                /\ asking'[r] # asking[r]
                /\ asking[r].sure \/ (AskAt(r, "choose") /\ work > asking[r].looked)]_sourceVars
  BY EditsStep
<1> QED
  BY <1>1, <1>2, SourceInitInv, SourceStepInv, PTL DEF SourceSpec, UpdateIsAsAsked, EditsAreAskedFor

-----------------------------------------------------------------------------
(* The tasks: the inductive invariant *)

\* What the holder of the locks is doing.
CallInv ==
  /\ taskCall.kind = "idle" => taskCall = IdleCall
  /\ taskCall.task = "none" <=> taskCall.step \in {"none", "remove"}
  /\ taskCall.kind = "load" =>
       /\ ~taskUp /\ taskCall.before = Unknown /\ taskCall.step # "remove"
       /\ taskCall.todo \subseteq InIndex
       /\ taskCall.task # "none" => taskCall.task \in InIndex
  /\ taskCall.kind = "save" =>
       /\ taskUp /\ taskCall.sess \in TaskSession /\ taskCall.todo \subseteq Known
       /\ taskCall.task # "none" => taskCall.task \in Known \ taskCall.todo
       /\ \A t \in Task :
            tasks[t] = IF Owner[t] = taskCall.sess THEN "unknown" ELSE taskCall.before[t]
  /\ CleaningUp =>
       taskCall.kind = "save" /\ taskCall.todo = {} /\ taskIndex = [st |-> "ok", tasks |-> Known]

\* What a save has written before it writes the index, and what a load has read.
WrittenInv ==
  /\ taskCall.kind = "save" /\ ~CleaningUp =>
       \A t \in Known \ taskCall.todo :
         taskDir[t].meta = "ok" /\ (t # taskCall.task => taskDir[t].manifest # "torn")
  /\ taskCall.kind = "load" =>
       \A t \in InIndex \ taskCall.todo : t # taskCall.task => t \in Known

\* What memory will be when the holder of the locks has failed.
Fallback == IF taskCall.kind = "save" THEN taskCall.before ELSE tasks

\* Memory knows every task that ended and is listed, and none of a deleted session.
MemoryInv ==
  /\ taskUp => \A t \in InIndex : Ended(t) => Fallback[t] # "unknown"
  /\ \A t \in Task : Owner[t] \in deleted /\ Ended(t) => Fallback[t] = "unknown"

\* Where the content is.
ContentInv ==
  \A t \in content \ (spoiled \cup removed) :
    /\ \/ taskDir[t].manifest \in {"inline", "source"}
       \/ taskDir[t].manifest = "plain" /\ taskDir[t].blob = "full"
    /\ taskCall.task = t /\ taskCall.step = "manifest" => taskDir[t].blob = "full"
    /\ tasks[t] # "unknown" => tasks[t] = "plain" /\ taskDir[t].manifest = "plain"
    /\ taskCall.before[t] # "unknown" =>
         taskCall.before[t] = "plain" /\ taskDir[t].manifest = "plain"

TasksInv == /\ TaskTypeOK /\ CallInv /\ WrittenInv /\ IndexNeverDangles
            /\ DeletedTasksStayAway /\ MemoryInv /\ ContentInv

-----------------------------------------------------------------------------
(* The tasks: the steps *)

CallTypes == [kind : {"idle", "load", "save"}, todo : SUBSET Task, task : Task \cup {"none"},
              step : {"none", "snapshot", "manifest", "remove"},
              sess : TaskSession \cup {"none"},
              before : [Task -> {"unknown", "none", "plain"}]]

DirTypes == [meta : {"none", "torn", "ok"}, manifest : Artifact \cup {"torn"},
             blob : {"none", "empty", "full"}]

LEMMA IdleFacts ==
  /\ Unknown \in [Task -> {"unknown", "none", "plain"}] /\ \A t \in Task : Unknown[t] = "unknown"
  /\ IdleCall \in CallTypes /\ IdleCall.kind = "idle" /\ IdleCall.step = "none"
  /\ IdleCall.task = "none" /\ IdleCall.todo = {} /\ IdleCall.before = Unknown
  /\ NoDir \in DirTypes
BY DEF IdleCall, Unknown, CallTypes, DirTypes, NoDir, Artifact

LEMMA TaskInitInv == TaskInit => TasksInv
<1> SUFFICES ASSUME TaskInit PROVE TasksInv
  OBVIOUS
<1>1. PICK art \in [Task -> Artifact] :
       /\ taskDir = [t \in Task |-> [meta |-> "ok", manifest |-> art[t],
                                     blob |-> IF art[t] = "plain" THEN "full" ELSE "none"]]
       /\ content = {t \in Task : art[t] # "none"}
  BY DEF TaskInit
<1>2. /\ taskIndex = [st |-> "ok", tasks |-> Task] /\ running \in SUBSET Task /\ sourceThere = TRUE
      /\ tasks = Unknown /\ taskUp = FALSE /\ taskCall = IdleCall /\ taskFaults = 0
      /\ deleted = {} /\ spoiled = {} /\ removed = {} /\ InIndex = Task
  BY DEF TaskInit, InIndex
<1>3. taskFaults \in 0 .. MaxTaskFaults
  BY <1>2, TaskAssumption
<1>4. taskDir \in [Task -> DirTypes]
  BY <1>1 DEF DirTypes, Artifact
<1>5. TaskTypeOK
  BY <1>1, <1>2, <1>3, <1>4, IdleFacts DEF TaskTypeOK, CallTypes, DirTypes
<1>6. CallInv /\ WrittenInv
  BY <1>2, IdleFacts DEF CallInv, WrittenInv, CleaningUp
<1>7. IndexNeverDangles
  BY <1>1, <1>2 DEF IndexNeverDangles, Artifact
<1>8. DeletedTasksStayAway /\ MemoryInv
  BY <1>2, IdleFacts DEF DeletedTasksStayAway, MemoryInv, Fallback
<1>9. ContentInv
  BY <1>1, <1>2, IdleFacts DEF ContentInv, Artifact
<1> QED
  BY <1>5, <1>6, <1>7, <1>8, <1>9 DEF TasksInv

LEMMA BeginLoadInv == TasksInv /\ BeginLoad => TasksInv'
<1> SUFFICES ASSUME TasksInv, BeginLoad PROVE TasksInv'
  OBVIOUS
<1>1. /\ taskCall' = [IdleCall EXCEPT !.kind = "load", !.todo = InIndex] /\ ~taskUp
      /\ UNCHANGED <<taskIndex, taskDir, running, sourceThere, tasks, taskUp, taskFaults,
                 deleted, spoiled, removed, content>> /\ taskCall.kind = "idle" /\ taskIndex.st = "ok"
  BY DEF BeginLoad, TasksInv, TaskTypeOK
<1>2. InIndex \subseteq Task
  BY DEF TasksInv, TaskTypeOK, InIndex
<1>3. /\ taskCall'.kind = "load" /\ taskCall'.todo = InIndex /\ taskCall'.step = "none"
      /\ taskCall'.task = "none" /\ taskCall'.before = Unknown /\ taskCall' \in CallTypes
  BY <1>1, <1>2, IdleFacts DEF CallTypes
<1>4. TaskTypeOK'
  BY <1>1, <1>3 DEF TasksInv, TaskTypeOK, CallTypes, TaskSession
<1>5. CallInv' /\ WrittenInv'
  BY <1>1, <1>3 DEF CallInv, WrittenInv, CleaningUp, InIndex, Unknown
<1>6. IndexNeverDangles' /\ DeletedTasksStayAway'
  BY <1>1 DEF TasksInv, IndexNeverDangles, InIndex, DeletedTasksStayAway, Known, Ended
<1>7. MemoryInv'
  BY <1>1, <1>3 DEF TasksInv, MemoryInv, Fallback, Ended
<1>8. ContentInv'
  BY <1>1, <1>3, IdleFacts DEF TasksInv, ContentInv, TaskTypeOK
<1> QED
  BY <1>4, <1>5, <1>6, <1>7, <1>8 DEF TasksInv

LEMMA LoadEntryInv == ASSUME TasksInv, NEW t \in Task, LoadEntry(t) PROVE TasksInv'
<1>1. /\ taskCall.kind = "load" /\ taskCall.step = "none" /\ t \in taskCall.todo /\ ~taskUp
      /\ taskCall \in CallTypes /\ taskCall.before = Unknown /\ t \in InIndex /\ t # "none"
      /\ UNCHANGED <<taskIndex, taskDir, running, sourceThere, taskUp, taskFaults, deleted,
                     spoiled, removed, content>>
  BY TaskAssumption DEF LoadEntry, TasksInv, TaskTypeOK, CallTypes, CallInv
<1>2. CASE taskCall' = IdleCall /\ tasks' = Unknown
  <2>1. TaskTypeOK'
    BY <1>1, <1>2, IdleFacts DEF TasksInv, TaskTypeOK, CallTypes, TaskSession
  <2>2. CallInv' /\ WrittenInv'
    BY <1>1, <1>2, IdleFacts DEF CallInv, WrittenInv, CleaningUp, IdleCall, Unknown
  <2>3. IndexNeverDangles' /\ DeletedTasksStayAway'
    BY <1>1, <1>2, IdleFacts DEF TasksInv, IndexNeverDangles, InIndex, DeletedTasksStayAway, Known, Ended
  <2>4. MemoryInv'
    BY <1>1, <1>2, IdleFacts DEF TasksInv, MemoryInv, Fallback
  <2>5. ContentInv'
    BY <1>1, <1>2, IdleFacts DEF TasksInv, ContentInv, TaskTypeOK
  <2> QED
    BY <2>1, <2>2, <2>3, <2>4, <2>5 DEF TasksInv
<1>3. CASE /\ taskCall' = [taskCall EXCEPT !.todo = @ \ {t}, !.task = t, !.step = "snapshot"]
           /\ UNCHANGED tasks
  <2>1. /\ taskCall'.kind = "load" /\ taskCall'.todo = taskCall.todo \ {t} /\ taskCall'.task = t
        /\ taskCall'.step = "snapshot" /\ taskCall'.before = Unknown /\ taskCall' \in CallTypes
    BY <1>1, <1>3 DEF CallTypes
  <2>2. TaskTypeOK'
    BY <1>1, <1>3, <2>1 DEF TasksInv, TaskTypeOK, CallTypes, TaskSession
  <2>3. CallInv' /\ WrittenInv'
    <3>1. InIndex \subseteq Task
      BY DEF TasksInv, TaskTypeOK, InIndex
    <3>2. CallInv'
      BY <1>1, <1>3, <2>1 DEF TasksInv, CallInv, CleaningUp, InIndex, Unknown
    <3>3. WrittenInv'
      BY <1>1, <1>3, <2>1, <3>1, TaskAssumption DEF TasksInv, CallInv, WrittenInv, CleaningUp, InIndex, Known
    <3> QED
      BY <3>2, <3>3
  <2>4. IndexNeverDangles' /\ DeletedTasksStayAway'
    BY <1>1, <1>3 DEF TasksInv, IndexNeverDangles, InIndex, DeletedTasksStayAway, Known, Ended
  <2>5. MemoryInv'
    BY <1>1, <1>3, <2>1 DEF TasksInv, MemoryInv, Fallback, Ended
  <2>6. ContentInv'
    BY <1>1, <1>3, <2>1, IdleFacts DEF TasksInv, ContentInv
  <2> QED
    BY <2>2, <2>3, <2>4, <2>5, <2>6 DEF TasksInv
<1> QED
  BY <1>2, <1>3 DEF LoadEntry

\* The directory of one task, when one of its files is written.
LEMMA OneFile ==
  ASSUME TaskTypeOK, NEW t \in Task, NEW d \in DirTypes, taskDir' = [taskDir EXCEPT ![t] = d]
  PROVE  /\ taskDir' \in [Task -> DirTypes] /\ taskDir'[t] = d
         /\ \A o \in Task \ {t} : taskDir'[o] = taskDir[o]
BY DEF TaskTypeOK, DirTypes

LEMMA SnapshotInv == ASSUME TasksInv, NEW t \in Task, Snapshot(t) PROVE TasksInv'
<1> DEFINE d == [taskDir[t] EXCEPT !.blob = Bytes(t)]
           call == [taskCall EXCEPT !.step = "manifest"]
<1>1. /\ taskCall.task = t /\ taskCall.step = "snapshot" /\ taskCall \in CallTypes /\ t # "none"
      /\ taskDir \in [Task -> DirTypes] /\ tasks \in [Task -> {"unknown", "none", "plain"}]
      /\ taskDir[t] \in DirTypes /\ taskCall.kind \in {"load", "save"}
      /\ UNCHANGED <<taskIndex, running, sourceThere, tasks, taskUp, taskFaults, deleted,
                     spoiled, removed, content>>
  BY TaskAssumption, IdleFacts DEF Snapshot, TasksInv, TaskTypeOK, CallTypes, DirTypes, CallInv
<1>2. Bytes(t) \in {"none", "empty", "full"}
  BY <1>1 DEF Bytes, DirTypes
<1>3. /\ d \in DirTypes /\ d.meta = taskDir[t].meta /\ d.manifest = taskDir[t].manifest
      /\ d.blob = Bytes(t)
  BY <1>1, <1>2 DEF DirTypes
<1>4. /\ call \in CallTypes /\ call.kind = taskCall.kind /\ call.todo = taskCall.todo
      /\ call.task = t /\ call.step = "manifest" /\ call.sess = taskCall.sess
      /\ call.before = taskCall.before
  BY <1>1 DEF CallTypes
<1>5. taskDir' = [taskDir EXCEPT ![t] = d] /\ taskCall' = call
  BY <1>1 DEF Snapshot
<1> HIDE DEF d, call
<1>6. /\ taskDir' \in [Task -> DirTypes] /\ taskDir'[t] = d
      /\ \A o \in Task \ {t} : taskDir'[o] = taskDir[o]
  BY <1>3, <1>5, OneFile DEF TasksInv
<1>7. \A o \in Task : taskDir'[o].meta = taskDir[o].meta /\ taskDir'[o].manifest = taskDir[o].manifest
  BY <1>3, <1>6
<1>8. TaskTypeOK'
  BY <1>1, <1>4, <1>5, <1>6 DEF TasksInv, TaskTypeOK, CallTypes, DirTypes, TaskSession
<1>9. CallInv' /\ WrittenInv'
  <2>1. CallInv'
    BY <1>1, <1>4, <1>5 DEF TasksInv, CallInv, CleaningUp, InIndex, Unknown, Known
  <2>2. WrittenInv'
    BY <1>1, <1>4, <1>5, <1>7 DEF TasksInv, TaskTypeOK, WrittenInv, CleaningUp, InIndex, Known
  <2> QED
    BY <2>1, <2>2
<1>10. IndexNeverDangles' /\ DeletedTasksStayAway'
  BY <1>1, <1>7 DEF TasksInv, TaskTypeOK, IndexNeverDangles, InIndex, DeletedTasksStayAway, Known, Ended
<1>11. MemoryInv'
  BY <1>1, <1>4, <1>5 DEF TasksInv, MemoryInv, Fallback, Ended, InIndex
<1>12. ContentInv'
  <2> SUFFICES ASSUME NEW o \in content \ (spoiled \cup removed)
               PROVE  /\ \/ taskDir'[o].manifest \in {"inline", "source"}
                         \/ taskDir'[o].manifest = "plain" /\ taskDir'[o].blob = "full"
                      /\ taskCall'.task = o /\ taskCall'.step = "manifest" => taskDir'[o].blob = "full"
                      /\ tasks[o] # "unknown" => tasks[o] = "plain" /\ taskDir'[o].manifest = "plain"
                      /\ taskCall.before[o] # "unknown" =>
                           taskCall.before[o] = "plain" /\ taskDir'[o].manifest = "plain"
    BY <1>1, <1>4, <1>5 DEF ContentInv
  <2>1. o \in Task
    BY DEF TasksInv, TaskTypeOK
  <2>2. /\ \/ taskDir[o].manifest \in {"inline", "source"}
           \/ taskDir[o].manifest = "plain" /\ taskDir[o].blob = "full"
        /\ tasks[o] # "unknown" => tasks[o] = "plain" /\ taskDir[o].manifest = "plain"
        /\ taskCall.before[o] # "unknown" =>
             taskCall.before[o] = "plain" /\ taskDir[o].manifest = "plain"
    BY DEF TasksInv, ContentInv
  <2>3. CASE o # t
    BY <1>4, <1>5, <1>6, <2>1, <2>2, <2>3
  <2>4. CASE o = t
    <3>1. Bytes(t) = "full"
      <4>1. CASE taskCall.kind = "load"
        BY <2>2, <2>4, <4>1 DEF Bytes, Given
      <4>2. CASE taskCall.kind = "save"
        <5>1. t \in Known
          BY <1>1, <4>2 DEF TasksInv, CallInv
        <5> QED
          BY <2>2, <2>4, <4>2, <5>1 DEF Bytes, Given, Known
      <4> QED
        BY <1>1, <4>1, <4>2
    <3> QED
      BY <1>3, <1>6, <2>2, <2>4, <3>1
  <2> QED
    BY <2>3, <2>4
<1> QED
  BY <1>8, <1>9, <1>10, <1>11, <1>12 DEF TasksInv

LEMMA WriteManifestInv == ASSUME TasksInv, NEW t \in Task, WriteManifest(t) PROVE TasksInv'
<1> DEFINE d == [taskDir[t] EXCEPT !.manifest = Stripped(t)]
           call == [taskCall EXCEPT !.task = "none", !.step = "none"]
<1>1. /\ taskCall.task = t /\ taskCall.step = "manifest" /\ taskCall \in CallTypes /\ t # "none"
      /\ taskDir \in [Task -> DirTypes] /\ tasks \in [Task -> {"unknown", "none", "plain"}]
      /\ taskDir[t] \in DirTypes /\ taskCall.kind \in {"load", "save"}
      /\ UNCHANGED <<taskIndex, running, sourceThere, taskUp, taskFaults, deleted,
                     spoiled, removed, content>>
  BY TaskAssumption, IdleFacts DEF WriteManifest, TasksInv, TaskTypeOK, CallTypes, DirTypes, CallInv
<1>2. Stripped(t) \in {"none", "plain"}
  BY DEF Stripped
<1>3. /\ d \in DirTypes /\ d.meta = taskDir[t].meta /\ d.manifest = Stripped(t)
      /\ d.blob = taskDir[t].blob
  BY <1>1, <1>2 DEF DirTypes, Artifact
<1>4. /\ call \in CallTypes /\ call.kind = taskCall.kind /\ call.todo = taskCall.todo
      /\ call.task = "none" /\ call.step = "none" /\ call.sess = taskCall.sess
      /\ call.before = taskCall.before
  BY <1>1 DEF CallTypes
<1>5. /\ taskDir' = [taskDir EXCEPT ![t] = d] /\ taskCall' = call
      /\ taskCall.kind = "load" => tasks' = [tasks EXCEPT ![t] = Stripped(t)]
      /\ taskCall.kind = "save" => tasks' = tasks
  BY <1>1 DEF WriteManifest
<1> HIDE DEF d, call
<1>6. /\ taskDir' \in [Task -> DirTypes] /\ taskDir'[t] = d
      /\ \A o \in Task \ {t} : taskDir'[o] = taskDir[o]
  BY <1>3, <1>5, OneFile DEF TasksInv
<1>7. /\ tasks' \in [Task -> {"unknown", "none", "plain"}]
      /\ \A o \in Task \ {t} : tasks'[o] = tasks[o]
      /\ taskCall.kind = "load" => tasks'[t] = Stripped(t)
  BY <1>1, <1>2, <1>5
<1>8. InIndex' = InIndex /\ InIndex \subseteq Task
  BY <1>1 DEF TasksInv, TaskTypeOK, InIndex
<1>9. TaskTypeOK'
  BY <1>1, <1>4, <1>5, <1>6, <1>7 DEF TasksInv, TaskTypeOK, CallTypes, DirTypes, TaskSession
<1>10. CallInv'
  BY <1>1, <1>4, <1>5, <1>8 DEF TasksInv, CallInv, CleaningUp, Unknown, Known
<1>11. WrittenInv'
  BY <1>1, <1>2, <1>3, <1>4, <1>5, <1>6, <1>7, <1>8 DEF TasksInv, WrittenInv, CallInv, CleaningUp, Known
<1>12. IndexNeverDangles'
  BY <1>1, <1>2, <1>3, <1>6, <1>8 DEF TasksInv, IndexNeverDangles
<1>13. ASSUME taskCall.kind = "load" PROVE t \in InIndex /\ Fallback = tasks /\ Fallback' = tasks'
  BY <1>1, <1>4, <1>5, <1>13 DEF TasksInv, CallInv, Fallback
<1>14. ASSUME taskCall.kind = "save" PROVE tasks' = tasks /\ Fallback = Fallback'
  BY <1>1, <1>4, <1>5, <1>14 DEF Fallback
<1>15. DeletedTasksStayAway'
  BY <1>1, <1>7, <1>8, <1>13, <1>14 DEF TasksInv, DeletedTasksStayAway, Known, Ended
<1>16. MemoryInv'
  <2>1. CASE taskCall.kind = "save"
    BY <1>1, <1>8, <1>14, <2>1 DEF TasksInv, MemoryInv, Ended
  <2>2. CASE taskCall.kind = "load"
    <3>1. ~taskUp
      BY <2>2 DEF TasksInv, CallInv
    <3> QED
      BY <1>1, <1>7, <1>8, <1>13, <2>2, <3>1 DEF TasksInv, DeletedTasksStayAway, MemoryInv, Ended
  <2> QED
    BY <1>1, <2>1, <2>2
<1>17. ContentInv'
  <2> SUFFICES ASSUME NEW o \in content \ (spoiled \cup removed)
               PROVE  /\ \/ taskDir'[o].manifest \in {"inline", "source"}
                         \/ taskDir'[o].manifest = "plain" /\ taskDir'[o].blob = "full"
                      /\ tasks'[o] # "unknown" => tasks'[o] = "plain" /\ taskDir'[o].manifest = "plain"
                      /\ taskCall.before[o] # "unknown" =>
                           taskCall.before[o] = "plain" /\ taskDir'[o].manifest = "plain"
    BY <1>1, <1>4, <1>5 DEF ContentInv
  <2>1. o \in Task
    BY DEF TasksInv, TaskTypeOK
  <2>2. /\ \/ taskDir[o].manifest \in {"inline", "source"}
           \/ taskDir[o].manifest = "plain" /\ taskDir[o].blob = "full"
        /\ taskCall.task = o => taskDir[o].blob = "full"
        /\ tasks[o] # "unknown" => tasks[o] = "plain" /\ taskDir[o].manifest = "plain"
        /\ taskCall.before[o] # "unknown" =>
             taskCall.before[o] = "plain" /\ taskDir[o].manifest = "plain"
    BY <1>1 DEF TasksInv, ContentInv
  <2>3. CASE o # t
    BY <1>6, <1>7, <2>1, <2>2, <2>3
  <2>4. CASE o = t
    <3>1. Stripped(t) = "plain"
      <4>1. CASE taskCall.kind = "load"
        BY <2>2, <2>4, <4>1 DEF Stripped, Given
      <4>2. CASE taskCall.kind = "save"
        <5>1. t \in Known
          BY <1>1, <4>2 DEF TasksInv, CallInv
        <5> QED
          BY <2>2, <2>4, <4>2, <5>1 DEF Stripped, Given, Known
      <4> QED
        BY <1>1, <4>1, <4>2
    <3>2. taskDir'[o].manifest = "plain" /\ taskDir'[o].blob = "full"
      BY <1>1, <1>3, <1>6, <2>2, <2>4, <3>1
    <3>3. tasks'[o] # "unknown" => tasks'[o] = "plain"
      BY <1>1, <1>7, <1>14, <2>2, <2>4, <3>1
    <3> QED
      BY <2>2, <3>2, <3>3
  <2> QED
    BY <2>3, <2>4
<1> QED
  BY <1>9, <1>10, <1>11, <1>12, <1>15, <1>16, <1>17 DEF TasksInv

LEMMA FinishLoadInv == ASSUME TasksInv, FinishLoad PROVE TasksInv'
<1>1. /\ taskCall.kind = "load" /\ taskCall.step = "none" /\ taskCall.todo = {} /\ taskCall.task = "none"
      /\ tasks' = [t \in Task |-> IF Ended(t) THEN tasks[t] ELSE "unknown"]
      /\ taskUp' = TRUE /\ taskCall' = IdleCall /\ taskDir \in [Task -> DirTypes]
      /\ tasks \in [Task -> {"unknown", "none", "plain"}]
      /\ UNCHANGED <<taskIndex, taskDir, running, sourceThere, taskFaults, deleted, spoiled, removed, content>>
  BY DEF FinishLoad, TasksInv, TaskTypeOK, CallInv, DirTypes
<1>2. /\ tasks' \in [Task -> {"unknown", "none", "plain"}]
      /\ \A t \in Task : tasks'[t] = IF Ended(t) THEN tasks[t] ELSE "unknown"
  BY <1>1
<1>3. InIndex' = InIndex /\ InIndex \subseteq Task
  BY <1>1 DEF TasksInv, TaskTypeOK, InIndex
<1>4. TaskTypeOK'
  BY <1>1, <1>2, IdleFacts DEF TasksInv, TaskTypeOK, CallTypes, TaskSession
<1>5. CallInv' /\ WrittenInv'
  BY <1>1, IdleFacts DEF CallInv, WrittenInv, CleaningUp, IdleCall
<1>6. IndexNeverDangles'
  BY <1>1, <1>3 DEF TasksInv, IndexNeverDangles
<1>7. Fallback = tasks /\ Fallback' = tasks'
  BY <1>1, IdleFacts DEF Fallback
<1>8. DeletedTasksStayAway'
  BY <1>1, <1>2, <1>3 DEF TasksInv, DeletedTasksStayAway, Known, Ended
<1>9. MemoryInv'
  <2>1. \A t \in InIndex : tasks[t] # "unknown"
    BY <1>1, <1>3, TaskAssumption DEF TasksInv, WrittenInv, Known
  <2>2. \A t \in Task : Owner[t] \in deleted /\ Ended(t) => tasks[t] = "unknown"
    BY <1>7 DEF TasksInv, MemoryInv
  <2>3. \A t \in Task : Ended(t)' <=> Ended(t)
    BY <1>1 DEF Ended
  <2> QED
    BY <1>1, <1>2, <1>3, <1>7, <2>1, <2>2, <2>3 DEF MemoryInv
<1>10. ContentInv'
  BY <1>1, <1>2, IdleFacts DEF TasksInv, ContentInv, TaskTypeOK
<1> QED
  BY <1>4, <1>5, <1>6, <1>8, <1>9, <1>10 DEF TasksInv

LEMMA DeleteBySessionInv == ASSUME TasksInv, NEW s \in TaskSession, DeleteBySession(s) PROVE TasksInv'
<1>1. /\ taskUp /\ taskCall = IdleCall /\ taskDir \in [Task -> DirTypes]
      /\ tasks \in [Task -> {"unknown", "none", "plain"}] /\ Fallback = tasks
      /\ taskCall.kind = "idle" /\ taskCall.step = "none"
      /\ UNCHANGED <<taskIndex, taskDir, running, sourceThere, taskUp, taskFaults, spoiled, removed, content>>
  BY IdleFacts DEF DeleteBySession, TasksInv, TaskTypeOK, CallInv, DirTypes, Fallback
<1>2. InIndex' = InIndex /\ InIndex \subseteq Task
  BY <1>1 DEF TasksInv, TaskTypeOK, InIndex
<1>3. IndexNeverDangles'
  BY <1>1, <1>2 DEF TasksInv, IndexNeverDangles
<1>4. /\ \A t \in InIndex : Ended(t) => tasks[t] # "unknown"
      /\ \A t \in Task : Owner[t] \in deleted /\ Ended(t) => tasks[t] = "unknown" /\ t \notin InIndex
  BY <1>1 DEF TasksInv, MemoryInv, DeletedTasksStayAway
<1>5. CASE OfSession(s) = {}
  <2>1. deleted' = deleted \cup {s} /\ UNCHANGED <<tasks, taskCall>>
    BY <1>5 DEF DeleteBySession
  <2>2. \A t \in Task : Owner[t] = s => tasks[t] = "unknown"
    BY <1>5 DEF OfSession, Known
  <2>3. TaskTypeOK' /\ CallInv' /\ WrittenInv' /\ ContentInv' /\ Fallback' = tasks
    BY <1>1, <1>2, <2>1 DEF TasksInv, TaskTypeOK, CallInv, WrittenInv, ContentInv, CleaningUp,
       Known, Unknown, Fallback, TaskSession
  <2>4. \A t \in Task : Owner[t] \in deleted' /\ Ended(t) => tasks[t] = "unknown" /\ t \notin InIndex
    BY <1>4, <2>1, <2>2
  <2>5. DeletedTasksStayAway' /\ MemoryInv'
    BY <1>1, <1>2, <1>4, <2>1, <2>3, <2>4 DEF DeletedTasksStayAway, MemoryInv, Known, Ended
  <2> QED
    BY <1>3, <2>3, <2>5 DEF TasksInv
<1>6. CASE OfSession(s) # {}
  <2> DEFINE left == [t \in Task |-> IF t \in OfSession(s) THEN "unknown" ELSE tasks[t]]
             call == [kind |-> "save", todo |-> Kept(left), task |-> "none", step |-> "none",
                      sess |-> s, before |-> tasks]
  <2>1. tasks' = left /\ taskCall' = call /\ deleted' = deleted
    BY <1>6 DEF DeleteBySession
  <2>2. /\ left \in [Task -> {"unknown", "none", "plain"}]
        /\ \A t \in Task : left[t] = IF Owner[t] = s THEN "unknown" ELSE tasks[t]
    BY <1>1 DEF OfSession, Known
  <2> HIDE DEF left
  <2>3. /\ call \in CallTypes /\ call.kind = "save" /\ call.todo = Kept(left) /\ call.task = "none"
        /\ call.step = "none" /\ call.sess = s /\ call.before = tasks
    BY <1>1 DEF CallTypes, Kept
  <2> HIDE DEF call
  <2>4. TaskTypeOK'
    BY <1>1, <2>1, <2>2, <2>3 DEF TasksInv, TaskTypeOK, CallTypes, TaskSession
  <2>5. Known' = Kept(left) /\ Kept(left) \subseteq Task
    BY <2>1 DEF Known, Kept
  <2>6. CallInv' /\ WrittenInv'
    BY <1>1, <2>1, <2>2, <2>3, <2>5 DEF CallInv, WrittenInv, CleaningUp
  <2>7. Fallback' = tasks
    BY <2>1, <2>3 DEF Fallback
  <2>8. DeletedTasksStayAway' /\ MemoryInv'
    BY <1>1, <1>2, <1>4, <2>1, <2>2, <2>7 DEF DeletedTasksStayAway, MemoryInv, Known, Ended
  <2>9. ContentInv'
    BY <1>1, <2>1, <2>2, <2>3 DEF TasksInv, ContentInv, TaskTypeOK
  <2> QED
    BY <1>3, <2>4, <2>6, <2>8, <2>9 DEF TasksInv
<1> QED
  BY <1>5, <1>6

LEMMA WriteMetaInv == ASSUME TasksInv, NEW t \in Task, WriteMeta(t) PROVE TasksInv'
<1> DEFINE d == [taskDir[t] EXCEPT !.meta = "ok"]
           call == [taskCall EXCEPT !.todo = @ \ {t}, !.task = t, !.step = "snapshot"]
<1>1. /\ taskCall.kind = "save" /\ taskCall.step = "none" /\ t \in taskCall.todo
      /\ taskCall \in CallTypes /\ t # "none" /\ taskCall.task = "none" /\ t \in Known /\ taskUp
      /\ taskDir \in [Task -> DirTypes] /\ taskDir[t] \in DirTypes
      /\ UNCHANGED <<taskIndex, running, sourceThere, tasks, taskUp, taskFaults, deleted,
                     spoiled, removed, content>>
  BY TaskAssumption DEF WriteMeta, TasksInv, TaskTypeOK, CallTypes, DirTypes, CallInv
<1>2. d \in DirTypes /\ d.meta = "ok" /\ d.manifest = taskDir[t].manifest /\ d.blob = taskDir[t].blob
  BY <1>1 DEF DirTypes
<1>3. /\ call \in CallTypes /\ call.kind = "save" /\ call.todo = taskCall.todo \ {t}
      /\ call.task = t /\ call.step = "snapshot" /\ call.sess = taskCall.sess
      /\ call.before = taskCall.before
  BY <1>1 DEF CallTypes
<1>4. taskDir' = [taskDir EXCEPT ![t] = d] /\ taskCall' = call
  BY <1>1 DEF WriteMeta
<1> HIDE DEF d, call
<1>5. /\ taskDir' \in [Task -> DirTypes] /\ taskDir'[t] = d
      /\ \A o \in Task \ {t} : taskDir'[o] = taskDir[o]
  BY <1>2, <1>4, OneFile DEF TasksInv
<1>6. /\ \A o \in Task : taskDir'[o].manifest = taskDir[o].manifest /\ taskDir'[o].blob = taskDir[o].blob
      /\ \A o \in Task : taskDir'[o].meta = "ok" \/ taskDir'[o].meta = taskDir[o].meta
  BY <1>2, <1>5
<1>7. TaskTypeOK'
  BY <1>1, <1>3, <1>4, <1>5 DEF TasksInv, TaskTypeOK, CallTypes, DirTypes, TaskSession
<1>8. Known' = Known /\ InIndex' = InIndex /\ InIndex \subseteq Task /\ Known \subseteq Task
  BY <1>1 DEF TasksInv, TaskTypeOK, InIndex, Known
<1>9. CallInv'
  BY <1>1, <1>3, <1>4, <1>8 DEF TasksInv, CallInv, CleaningUp
<1>10. WrittenInv'
  <2> SUFFICES ASSUME NEW o \in Known \ taskCall'.todo
               PROVE  taskDir'[o].meta = "ok" /\ (o # t => taskDir'[o].manifest # "torn")
    BY <1>3, <1>4, <1>8 DEF WrittenInv
  <2>1. CASE o = t
    BY <1>2, <1>5, <2>1
  <2>2. CASE o # t
    <3>1. o \in Known \ taskCall.todo /\ o # "none" /\ o \in Task
      BY <1>3, <1>4, <1>8, <2>2, TaskAssumption
    <3>2. taskDir[o].meta = "ok" /\ taskDir[o].manifest # "torn"
      BY <1>1, <3>1 DEF TasksInv, WrittenInv, CleaningUp
    <3> QED
      BY <1>5, <2>2, <3>1, <3>2
  <2> QED
    BY <2>1, <2>2
<1>11. IndexNeverDangles' /\ DeletedTasksStayAway'
  BY <1>1, <1>6, <1>8 DEF TasksInv, IndexNeverDangles, DeletedTasksStayAway, Ended
<1>12. MemoryInv'
  BY <1>1, <1>3, <1>4, <1>8 DEF TasksInv, MemoryInv, Fallback, Ended
<1>13. ContentInv'
  BY <1>1, <1>3, <1>4, <1>6 DEF TasksInv, ContentInv, TaskTypeOK
<1> QED
  BY <1>7, <1>9, <1>10, <1>11, <1>12, <1>13 DEF TasksInv

LEMMA WriteIndexInv == ASSUME TasksInv, WriteIndex PROVE TasksInv'
<1> DEFINE call == [taskCall EXCEPT !.step = "remove"]
<1>1. /\ taskCall.kind = "save" /\ taskCall.step = "none" /\ taskCall.todo = {}
      /\ taskCall \in CallTypes /\ taskCall.task = "none" /\ taskUp
      /\ taskIndex' = [st |-> "ok", tasks |-> Known]
      /\ UNCHANGED <<taskDir, running, sourceThere, tasks, taskUp, taskFaults, deleted, spoiled, removed, content>>
  BY DEF WriteIndex, TasksInv, TaskTypeOK, CallTypes, CallInv
<1>2. /\ call \in CallTypes /\ call.kind = "save" /\ call.todo = {} /\ call.task = "none"
      /\ call.step = "remove" /\ call.sess = taskCall.sess /\ call.before = taskCall.before
  BY <1>1 DEF CallTypes
<1>3. taskCall' = call
  BY <1>1 DEF WriteIndex
<1> HIDE DEF call
<1>4. Known' = Known /\ InIndex' = Known /\ Known \subseteq Task
  BY <1>1 DEF InIndex, Known
<1>5. TaskTypeOK'
  BY <1>1, <1>2, <1>3, <1>4 DEF TasksInv, TaskTypeOK, CallTypes, TaskSession
<1>6. CallInv' /\ WrittenInv'
  BY <1>1, <1>2, <1>3, <1>4 DEF TasksInv, CallInv, WrittenInv, CleaningUp
<1>7. IndexNeverDangles'
  BY <1>1, <1>4, TaskAssumption DEF TasksInv, WrittenInv, CleaningUp, IndexNeverDangles
<1>8. DeletedTasksStayAway'
  BY <1>1, <1>4 DEF TasksInv, DeletedTasksStayAway, Ended
<1>9. MemoryInv'
  <2>1. \A t \in Known : taskCall.before[t] # "unknown"
    BY <1>1 DEF TasksInv, CallInv, Known
  <2> QED
    BY <1>1, <1>2, <1>3, <1>4, <2>1 DEF TasksInv, MemoryInv, Fallback, Ended
<1>10. ContentInv'
  BY <1>1, <1>2, <1>3 DEF TasksInv, ContentInv
<1> QED
  BY <1>5, <1>6, <1>7, <1>8, <1>9, <1>10 DEF TasksInv

LEMMA RemoveDirInv == ASSUME TasksInv, NEW t \in Task, RemoveDir(t) PROVE TasksInv'
<1>1. /\ CleaningUp /\ t \notin Known /\ taskCall.kind = "save" /\ InIndex = Known
      /\ taskDir' = [taskDir EXCEPT ![t] = NoDir] /\ removed' = removed \cup {t}
      /\ UNCHANGED <<taskIndex, running, sourceThere, tasks, taskUp, taskCall, taskFaults, deleted,
                     spoiled, content>>
  BY DEF RemoveDir, Stray, TasksInv, CallInv, InIndex
<1>2. /\ taskDir' \in [Task -> DirTypes] /\ \A o \in Task \ {t} : taskDir'[o] = taskDir[o]
  BY <1>1, IdleFacts, OneFile DEF TasksInv
<1>3. Known' = Known /\ InIndex' = InIndex /\ Known \subseteq Task
  BY <1>1 DEF InIndex, Known
<1>4. TaskTypeOK'
  BY <1>1, <1>2 DEF TasksInv, TaskTypeOK, CallTypes, DirTypes, TaskSession
<1>5. CallInv' /\ WrittenInv'
  BY <1>1, <1>3 DEF TasksInv, CallInv, WrittenInv, CleaningUp
<1>6. IndexNeverDangles' /\ DeletedTasksStayAway'
  BY <1>1, <1>2, <1>3 DEF TasksInv, IndexNeverDangles, DeletedTasksStayAway, Ended
<1>7. MemoryInv'
  BY <1>1, <1>3 DEF TasksInv, MemoryInv, Fallback, Ended
<1>8. ContentInv'
  BY <1>1, <1>2 DEF TasksInv, ContentInv, TaskTypeOK
<1> QED
  BY <1>4, <1>5, <1>6, <1>7, <1>8 DEF TasksInv

LEMMA FinishDeleteInv == ASSUME TasksInv, FinishDelete PROVE TasksInv'
<1>1. /\ taskCall.step = "remove" /\ taskCall.kind = "save" /\ InIndex = Known
      /\ deleted' = deleted \cup {taskCall.sess} /\ taskCall' = IdleCall /\ taskUp
      /\ UNCHANGED <<taskIndex, taskDir, running, sourceThere, tasks, taskUp, taskFaults, spoiled,
                     removed, content>>
  BY DEF FinishDelete, TasksInv, CallInv, InIndex, CleaningUp
<1>2. Known' = Known /\ InIndex' = InIndex /\ Known \subseteq Task
  BY <1>1 DEF InIndex, Known
<1>3. \A t \in Task : tasks[t] = IF Owner[t] = taskCall.sess THEN "unknown" ELSE taskCall.before[t]
  BY <1>1 DEF TasksInv, CallInv
<1>4. Fallback' = tasks /\ Fallback = taskCall.before
  BY <1>1, IdleFacts DEF Fallback
<1>5. taskCall.sess \in TaskSession
  BY <1>1 DEF TasksInv, CallInv
<1>6. TaskTypeOK'
  BY <1>1, <1>5, IdleFacts DEF TasksInv, TaskTypeOK, CallTypes, TaskSession
<1>7. CallInv' /\ WrittenInv'
  BY <1>1, IdleFacts DEF CallInv, WrittenInv, CleaningUp, IdleCall
<1>8. IndexNeverDangles'
  BY <1>1, <1>2 DEF TasksInv, IndexNeverDangles
<1>9. \A t \in Task : Owner[t] \in deleted' /\ Ended(t) => tasks[t] = "unknown"
  BY <1>1, <1>3, <1>4 DEF TasksInv, MemoryInv
<1>10. DeletedTasksStayAway' /\ MemoryInv'
  BY <1>1, <1>2, <1>4, <1>9 DEF DeletedTasksStayAway, MemoryInv, Known, Ended
<1>11. ContentInv'
  BY <1>1, IdleFacts DEF TasksInv, ContentInv, TaskTypeOK
<1> QED
  BY <1>6, <1>7, <1>8, <1>10, <1>11 DEF TasksInv

\* What a write that was cut has done to the files.
LEMMA CutLeaves ==
  ASSUME TasksInv, Cut
  PROVE  /\ taskIndex' \in [st : {"ok", "torn"}, tasks : SUBSET Task] /\ InIndex' \subseteq InIndex
         /\ taskDir' \in [Task -> DirTypes]
         /\ spoiled \subseteq spoiled' /\ removed \subseteq removed' /\ {spoiled', removed'} \subseteq SUBSET Task
         /\ \A t \in Task \ spoiled' : taskDir'[t] = taskDir[t]
         /\ \A t \in InIndex' : taskDir'[t].meta # "none"
<1>1. /\ taskIndex \in [st : {"ok", "torn"}, tasks : SUBSET Task] /\ taskDir \in [Task -> DirTypes]
      /\ spoiled \subseteq Task /\ removed \subseteq Task /\ InIndex \subseteq Task
      /\ \A t \in InIndex : taskDir[t].meta # "none"
  BY DEF TasksInv, TaskTypeOK, DirTypes, InIndex, IndexNeverDangles
<1>2. CASE UNCHANGED <<taskIndex, taskDir, spoiled, removed>>
  BY <1>1, <1>2 DEF InIndex
<1>3. CASE /\ taskIndex' = [st |-> "torn", tasks |-> {}] /\ UNCHANGED <<taskDir, spoiled, removed>>
  BY <1>1, <1>3 DEF InIndex
<1>4. CASE \E t \in Task :
       /\ UNCHANGED taskIndex /\ spoiled' = spoiled \cup {t}
       /\ removed' = removed \cup (IF taskCall.step = "remove" THEN {t} ELSE {})
       /\ \/ taskDir' = [taskDir EXCEPT ![t].meta = "torn"]
          \/ taskDir' = [taskDir EXCEPT ![t].blob = "empty"]
          \/ taskDir' = [taskDir EXCEPT ![t].manifest = "torn"]
          \/ /\ taskCall.step = "remove" /\ t \notin Known
             /\ taskDir' = [taskDir EXCEPT ![t].meta = "none"]
  <2>1. PICK t \in Task :
       /\ UNCHANGED taskIndex /\ spoiled' = spoiled \cup {t}
       /\ removed' = removed \cup (IF taskCall.step = "remove" THEN {t} ELSE {})
       /\ \/ taskDir' = [taskDir EXCEPT ![t].meta = "torn"]
          \/ taskDir' = [taskDir EXCEPT ![t].blob = "empty"]
          \/ taskDir' = [taskDir EXCEPT ![t].manifest = "torn"]
          \/ /\ taskCall.step = "remove" /\ t \notin Known
             /\ taskDir' = [taskDir EXCEPT ![t].meta = "none"]
    BY <1>4
  <2>2. PICK d \in DirTypes : /\ taskDir' = [taskDir EXCEPT ![t] = d]
                              /\ d.meta # "none" \/ t \notin InIndex \/ d.meta = taskDir[t].meta
    <3>1. taskDir[t] \in DirTypes
      BY <1>1
    <3>2. CASE taskDir' = [taskDir EXCEPT ![t].meta = "torn"]
      <4>1. [taskDir[t] EXCEPT !.meta = "torn"] \in DirTypes /\ [taskDir[t] EXCEPT !.meta = "torn"].meta = "torn"
        BY <3>1 DEF DirTypes
      <4> QED
        BY <3>2, <4>1
    <3>3. CASE taskDir' = [taskDir EXCEPT ![t].blob = "empty"]
      <4>1. /\ [taskDir[t] EXCEPT !.blob = "empty"] \in DirTypes
            /\ [taskDir[t] EXCEPT !.blob = "empty"].meta = taskDir[t].meta
        BY <3>1 DEF DirTypes
      <4> QED
        BY <3>3, <4>1
    <3>4. CASE taskDir' = [taskDir EXCEPT ![t].manifest = "torn"]
      <4>1. /\ [taskDir[t] EXCEPT !.manifest = "torn"] \in DirTypes
            /\ [taskDir[t] EXCEPT !.manifest = "torn"].meta = taskDir[t].meta
        BY <3>1 DEF DirTypes
      <4> QED
        BY <3>4, <4>1
    <3>5. CASE /\ taskCall.step = "remove" /\ t \notin Known
               /\ taskDir' = [taskDir EXCEPT ![t].meta = "none"]
      <4>1. [taskDir[t] EXCEPT !.meta = "none"] \in DirTypes
        BY <3>1 DEF DirTypes
      <4>2. t \notin InIndex
        BY <3>5 DEF TasksInv, CallInv, CleaningUp, InIndex
      <4> QED
        BY <3>5, <4>1, <4>2
    <3> QED
      BY <2>1, <3>2, <3>3, <3>4, <3>5
  <2>3. /\ taskDir' \in [Task -> DirTypes] /\ taskDir'[t] = d
        /\ \A o \in Task \ {t} : taskDir'[o] = taskDir[o]
    BY <1>1, <2>2
  <2>4. InIndex' = InIndex
    BY <2>1 DEF InIndex
  <2>5. removed' \subseteq Task /\ spoiled' \subseteq Task /\ removed \subseteq removed'
    BY <1>1, <2>1
  <2>6. \A o \in InIndex : taskDir'[o].meta # "none"
    BY <1>1, <2>2, <2>3
  <2> QED
    BY <1>1, <2>1, <2>3, <2>4, <2>5, <2>6
<1> QED
  BY <1>2, <1>3, <1>4 DEF Cut

\* Whoever held the locks is gone, and memory is what it was before or empty.
LEMMA TaskFault ==
  ASSUME TasksInv, Cut, taskCall' = IdleCall, NEW left \in [Task -> {"unknown", "none", "plain"}],
         tasks' = left, taskUp' \in {taskUp, FALSE}, taskFaults' \in 0 .. MaxTaskFaults,
         left = Unknown \/ left = Fallback, taskUp' => left = Fallback,
         \A t \in Task : left[t] = "unknown" \/ left[t] = tasks[t] \/ left[t] = taskCall.before[t],
         UNCHANGED <<running, sourceThere, deleted, content>>
  PROVE  TasksInv'
<1>1. /\ taskIndex' \in [st : {"ok", "torn"}, tasks : SUBSET Task] /\ InIndex' \subseteq InIndex
      /\ taskDir' \in [Task -> DirTypes]
      /\ spoiled \subseteq spoiled' /\ removed \subseteq removed' /\ {spoiled', removed'} \subseteq SUBSET Task
      /\ \A t \in Task \ spoiled' : taskDir'[t] = taskDir[t]
      /\ \A t \in InIndex' : taskDir'[t].meta # "none"
  BY CutLeaves
<1>2. /\ running' = running /\ deleted' = deleted /\ content' = content /\ InIndex \subseteq Task
      /\ \A t \in Task : Ended(t)' <=> Ended(t)
  BY DEF Ended, TasksInv, TaskTypeOK, InIndex
<1>3. TaskTypeOK'
  <2>1. taskUp' \in BOOLEAN /\ tasks' \in [Task -> {"unknown", "none", "plain"}]
    BY DEF TasksInv, TaskTypeOK
  <2>2. taskCall' \in CallTypes
    BY IdleFacts
  <2>3. running' \subseteq Task /\ sourceThere' \in BOOLEAN /\ deleted' \subseteq TaskSession /\ content' \subseteq Task
    BY DEF TasksInv, TaskTypeOK
  <2> QED
    BY <1>1, <2>1, <2>2, <2>3 DEF TaskTypeOK, CallTypes, DirTypes, TaskSession
<1>4. CallInv' /\ WrittenInv'
  BY IdleFacts DEF CallInv, WrittenInv, CleaningUp, IdleCall
<1>5. IndexNeverDangles'
  BY <1>1, <1>2 DEF TasksInv, IndexNeverDangles
<1>6. Fallback' = left
  BY IdleFacts DEF Fallback
<1>7. \A t \in Task : Owner[t] \in deleted /\ Ended(t) => left[t] = "unknown" /\ t \notin InIndex
  BY IdleFacts DEF TasksInv, MemoryInv, DeletedTasksStayAway
<1>8. \A t \in InIndex : taskUp' /\ Ended(t) => left[t] # "unknown"
  BY DEF TasksInv, MemoryInv
<1>9. DeletedTasksStayAway' /\ MemoryInv'
  BY <1>1, <1>2, <1>6, <1>7, <1>8 DEF DeletedTasksStayAway, MemoryInv, Known
<1>10. ContentInv'
  <2> SUFFICES ASSUME NEW t \in content \ (spoiled' \cup removed')
               PROVE  /\ \/ taskDir'[t].manifest \in {"inline", "source"}
                         \/ taskDir'[t].manifest = "plain" /\ taskDir'[t].blob = "full"
                      /\ left[t] # "unknown" => left[t] = "plain" /\ taskDir'[t].manifest = "plain"
    <3>1. content \subseteq Task /\ taskCall'.step = "none" /\ taskCall'.before = Unknown
      BY IdleFacts DEF TasksInv, TaskTypeOK
    <3> QED
      BY <1>2, <3>1, IdleFacts DEF ContentInv
  <2>1. t \in Task /\ t \in content \ (spoiled \cup removed)
    BY <1>1 DEF TasksInv, TaskTypeOK
  <2>2. taskDir'[t] = taskDir[t]
    BY <1>1, <2>1
  <2>3. /\ \/ taskDir[t].manifest \in {"inline", "source"}
           \/ taskDir[t].manifest = "plain" /\ taskDir[t].blob = "full"
        /\ tasks[t] # "unknown" => tasks[t] = "plain" /\ taskDir[t].manifest = "plain"
        /\ taskCall.before[t] # "unknown" =>
             taskCall.before[t] = "plain" /\ taskDir[t].manifest = "plain"
    BY <2>1 DEF TasksInv, ContentInv
  <2>4. left[t] = "unknown" \/ left[t] = tasks[t] \/ left[t] = taskCall.before[t]
    BY <2>1
  <2> QED
    BY <2>2, <2>3, <2>4
<1> QED
  BY <1>3, <1>4, <1>5, <1>9, <1>10 DEF TasksInv

LEMMA TaskFaultsInv == ASSUME TasksInv, WriteFails \/ TaskCrash PROVE TasksInv'
<1>1. /\ taskCall \in CallTypes /\ taskFaults \in Nat /\ MaxTaskFaults \in Nat
      /\ taskCall.before \in [Task -> {"unknown", "none", "plain"}]
  BY TaskAssumption DEF TasksInv, TaskTypeOK, CallTypes
<1>2. CASE WriteFails
  <2>1. /\ taskCall.kind # "idle" /\ taskFaults < MaxTaskFaults /\ Cut /\ tasks' = taskCall.before
        /\ taskCall' = IdleCall /\ taskFaults' = taskFaults + 1
        /\ UNCHANGED <<running, sourceThere, taskUp, deleted, content>>
    BY <1>2 DEF WriteFails
  <2>2. CASE taskCall.kind = "save"
    <3>1. taskCall.before = Fallback
      BY <2>2 DEF Fallback
    <3> QED
      BY <1>1, <2>1, <3>1, TaskFault
  <2>3. CASE taskCall.kind = "load"
    <3>1. taskCall.before = Unknown /\ ~taskUp
      BY <2>3 DEF TasksInv, CallInv
    <3> QED
      BY <1>1, <2>1, <3>1, TaskFault
  <2> QED
    BY <1>1, <2>1, <2>2, <2>3 DEF CallTypes
<1>3. CASE TaskCrash
  <2>1. /\ taskFaults < MaxTaskFaults /\ Cut /\ tasks' = Unknown
        /\ taskCall' = IdleCall /\ taskUp' = FALSE /\ taskFaults' = taskFaults + 1
        /\ UNCHANGED <<running, sourceThere, deleted, content>>
    BY <1>3 DEF TaskCrash
  <2>2. taskFaults' \in 0 .. MaxTaskFaults
    BY <1>1, <2>1
  <2> QED
    <3>1. Unknown \in [Task -> {"unknown", "none", "plain"}] /\ \A t \in Task : Unknown[t] = "unknown"
      BY IdleFacts
    <3>2. taskUp' \in {taskUp, FALSE} /\ (taskUp' => Unknown = Fallback)
      BY <2>1
    <3> HIDE DEF Unknown
    <3> QED
      BY <2>1, <2>2, <3>1, <3>2, TaskFault
<1> QED
  BY <1>2, <1>3

LEMMA CalmTaskStep == ASSUME TasksInv, LoseSource \/ UNCHANGED taskVars PROVE TasksInv'
<1>1. /\ UNCHANGED <<taskIndex, taskDir, running, tasks, taskUp, taskCall, deleted, spoiled, removed, content>>
      /\ sourceThere' \in BOOLEAN /\ taskFaults' \in 0 .. MaxTaskFaults
  <2>1. taskFaults \in 0 .. MaxTaskFaults /\ MaxTaskFaults \in Nat /\ sourceThere \in BOOLEAN
    BY TaskAssumption DEF TasksInv, TaskTypeOK
  <2>2. CASE LoseSource
    <3>1. taskFaults < MaxTaskFaults /\ taskFaults' = taskFaults + 1 /\ sourceThere' = FALSE
      BY <2>2 DEF LoseSource
    <3>2. taskFaults' \in 0 .. MaxTaskFaults
      BY <2>1, <3>1
    <3> QED
      BY <2>2, <3>1, <3>2 DEF LoseSource
  <2>3. CASE UNCHANGED taskVars
    BY <2>1, <2>3 DEF taskVars
  <2> QED
    BY <2>2, <2>3
<1>2. Known' = Known /\ InIndex' = InIndex /\ Fallback' = Fallback /\ CleaningUp' = CleaningUp
  BY <1>1 DEF Known, InIndex, Fallback, CleaningUp
<1>3. TaskTypeOK'
  BY <1>1 DEF TasksInv, TaskTypeOK, TaskSession
<1>4. CallInv' /\ WrittenInv'
  BY <1>1, <1>2 DEF TasksInv, CallInv, WrittenInv
<1>5. IndexNeverDangles' /\ DeletedTasksStayAway' /\ MemoryInv' /\ ContentInv'
  BY <1>1, <1>2 DEF TasksInv, IndexNeverDangles, DeletedTasksStayAway, MemoryInv, ContentInv, Ended
<1> QED
  BY <1>3, <1>4, <1>5 DEF TasksInv

LEMMA TaskStepInv == TasksInv /\ [TaskNext]_taskVars => TasksInv'
<1> SUFFICES ASSUME TasksInv, [TaskNext]_taskVars PROVE TasksInv'
  OBVIOUS
<1>1. CASE UNCHANGED taskVars \/ LoseSource
  BY <1>1, CalmTaskStep
<1>2. CASE BeginLoad \/ FinishLoad \/ WriteIndex \/ FinishDelete
  BY <1>2, BeginLoadInv, FinishLoadInv, WriteIndexInv, FinishDeleteInv
<1>3. CASE \E t \in Task : LoadEntry(t) \/ Snapshot(t) \/ WriteManifest(t) \/ WriteMeta(t) \/ RemoveDir(t)
  BY <1>3, LoadEntryInv, SnapshotInv, WriteManifestInv, WriteMetaInv, RemoveDirInv
<1>4. CASE \E s \in TaskSession : DeleteBySession(s)
  BY <1>4, DeleteBySessionInv
<1>5. CASE WriteFails \/ TaskCrash
  BY <1>5, TaskFaultsInv
<1> QED
  BY <1>1, <1>2, <1>3, <1>4, <1>5 DEF TaskNext

\* However often a save or a load is cut short: the index lists nothing whose
\* description is gone, the tasks of a deleted session do not come back, and the
\* content of an artifact survives its move; for any tasks, sessions and faults.
THEOREM TasksAreKeptAlways == TaskSpec => []TasksAreKept
<1>1. TasksInv => TasksAreKept
  <2> SUFFICES ASSUME TasksInv PROVE TasksAreKept
    OBVIOUS
  <2>1. ContentIsKept
    <3> SUFFICES ASSUME NEW t \in InIndex \cap content, t \notin spoiled \cup removed
                 PROVE  taskDir[t].manifest \in {"inline", "source"} \/ taskDir[t].blob = "full"
      BY DEF ContentIsKept
    <3> QED
      BY DEF TasksInv, ContentInv
  <2> QED
    BY <2>1 DEF TasksInv, TasksAreKept
<1> QED
  BY <1>1, TaskInitInv, TaskStepInv, PTL DEF TaskSpec

-----------------------------------------------------------------------------
(* A chat's repository: the inductive invariant *)

Binding == {NoBinding} \cup [status : {"preparing", "ready", "failed"}, repo : Repo, name : RepoName]
TurnOfChat == [status : {"running", "completed", "failed", "interrupted"}, files : Seq(UploadedFile)]
ChatRecord == [is : {"alive", "deleting", "deleted", "left"}, binding : Binding,
               turns : Seq(TurnOfChat), emptied : BOOLEAN]
WsDriver == [pc : {"idle", "prepare", "clone", "publish", "mark", "attach", "agent"}, file : Nat]

\* The files of the workspace are whatever turns have written.
WorkspaceTypes ==
  /\ hub \in Seq(RepoEntry) /\ walk.next \in 0 .. Len(hub)
  /\ walk = [shown |-> walk.shown, next |-> walk.next, of |-> walk.of]
  /\ chat \in ChatRecord /\ wsDriver \in WsDriver
  /\ disk = [dir |-> disk.dir, staging |-> disk.staging, target |-> disk.target, files |-> disk.files]
  /\ {disk.staging, disk.target} \subseteq Checkout \cup {NoCheckout}
  /\ cleanup \in Nat

\* The checkout that the turn under way has come to.
WholeFor(c, binding) == c # NoCheckout /\ c.whole /\ c.name = binding.name

Whole(c) == c.is \in {"alive", "deleting"} /\ ~c.emptied

CheckoutInv ==
  /\ cleanup > 0 => ~Whole(chat)
  /\ Running => chat.turns # <<>>
  /\ wsDriver.pc \in {"clone", "publish", "mark"} => chat.binding # NoBinding
  /\ wsDriver.pc \in {"clone", "publish"} /\ disk.staging # NoCheckout =>
       disk.staging.name = chat.binding.name
  /\ wsDriver.pc = "publish" /\ disk.staging # NoCheckout => disk.staging.whole
  /\ Whole(chat) /\ (chat.binding.status = "ready" \/ wsDriver.pc = "mark") =>
       WholeFor(disk.target, chat.binding)
  /\ InUse /\ wsDriver.pc \in {"attach", "agent"} /\ chat.binding # NoBinding =>
       chat.binding.status = "ready"

\* What the turn under way has written of its attachments.
Written(n) ==
  (\A m \in DOMAIN Attached : FileName(m, Attached[m]) = FileName(n, Attached[n]) => m = n) =>
     /\ <<LastTurn, FileName(n, Attached[n])>> \in DOMAIN disk.files
     /\ disk.files[<<LastTurn, FileName(n, Attached[n])>>] = Attached[n]

FilesInv ==
  /\ wsDriver.pc \in {"prepare", "clone", "publish", "mark"} => wsDriver.file = 0
  /\ wsDriver.pc \in {"attach", "agent"} /\ InUse =>
       wsDriver.file <= Len(Attached) /\ \A n \in 1 .. wsDriver.file : Written(n)
  /\ wsDriver.pc = "agent" /\ InUse => wsDriver.file = Len(Attached)

RepositoriesInv == WorkspaceTypes /\ CheckoutInv /\ FilesInv /\ PickerShowsAll

-----------------------------------------------------------------------------
(* A chat's repository: the steps *)

LEMMA BindingFacts ==
  /\ NoBinding \in Binding /\ NoBinding.status = "none"
  /\ \A b \in Binding : /\ b.status \in {"none", "preparing", "ready", "failed"}
                        /\ b = NoBinding <=> b.status = "none"
                        /\ FailedBinding(b) \in Binding /\ FailedBinding(b).status \in {"none", "failed"}
                        /\ b # NoBinding => \A s \in {"preparing", "ready", "failed"} :
                             /\ [b EXCEPT !.status = s] \in Binding /\ [b EXCEPT !.status = s].status = s
                             /\ [b EXCEPT !.status = s] # NoBinding
                             /\ [b EXCEPT !.status = s].name = b.name
  /\ \A item \in RepoEntry : Bound(item) \in Binding /\ Bound(item).status = "preparing"
<1>1. NoBinding \in Binding /\ NoBinding.status = "none"
  BY DEF NoBinding, Binding
<1>2. ASSUME NEW b \in Binding
      PROVE  /\ b.status \in {"none", "preparing", "ready", "failed"}
             /\ b = NoBinding <=> b.status = "none"
             /\ FailedBinding(b) \in Binding /\ FailedBinding(b).status \in {"none", "failed"}
             /\ b # NoBinding => \A s \in {"preparing", "ready", "failed"} :
                  /\ [b EXCEPT !.status = s] \in Binding /\ [b EXCEPT !.status = s].status = s
                  /\ [b EXCEPT !.status = s] # NoBinding
                  /\ [b EXCEPT !.status = s].name = b.name
  <2>1. CASE b = NoBinding
    BY <1>1, <2>1 DEF FailedBinding
  <2>2. CASE b \in [status : {"preparing", "ready", "failed"}, repo : Repo, name : RepoName]
    <3>1. b.status \in {"preparing", "ready", "failed"} /\ b # NoBinding
      BY <1>1, <2>2
    <3>2. \A s \in {"preparing", "ready", "failed"} :
            /\ [b EXCEPT !.status = s] \in Binding /\ [b EXCEPT !.status = s].status = s
            /\ [b EXCEPT !.status = s] # NoBinding /\ [b EXCEPT !.status = s].name = b.name
      <4> SUFFICES ASSUME NEW s \in {"preparing", "ready", "failed"}
                   PROVE  /\ [b EXCEPT !.status = s] \in Binding /\ [b EXCEPT !.status = s].status = s
                          /\ [b EXCEPT !.status = s] # NoBinding /\ [b EXCEPT !.status = s].name = b.name
        OBVIOUS
      <4>1. /\ [b EXCEPT !.status = s] \in Binding /\ [b EXCEPT !.status = s].status = s
            /\ [b EXCEPT !.status = s].name = b.name
        BY <2>2 DEF Binding
      <4>2. [b EXCEPT !.status = s] # NoBinding
        BY <1>1, <4>1
      <4> QED
        BY <4>1, <4>2
    <3>3. FailedBinding(b) = [b EXCEPT !.status = "failed"]
      BY <3>1 DEF FailedBinding
    <3> QED
      BY <1>1, <3>1, <3>2, <3>3
  <2> QED
    BY <2>1, <2>2 DEF Binding
<1>3. \A item \in RepoEntry : Bound(item) \in Binding /\ Bound(item).status = "preparing"
  BY DEF RepoEntry, Bound, Binding
<1> QED
  BY <1>1, <1>2, <1>3

\* The picker: what it has shown of a list that has not changed.
LEMMA PickerKept == ASSUME PickerShowsAll, UNCHANGED <<hub, walk>> PROVE PickerShowsAll'
BY DEF PickerShowsAll

LEMMA ShowPageKeeps ==
  ASSUME WorkspaceTypes, PickerShowsAll, ShowPage
  PROVE  PickerShowsAll' /\ walk'.next \in 0 .. Len(hub)
         /\ walk' = [shown |-> walk'.shown, next |-> walk'.next, of |-> walk'.of]
<1> DEFINE e == PageEnd(walk.next)
<1>1. /\ hub \in Seq(RepoEntry) /\ walk.next \in 0 .. Len(hub) /\ walk.next < Len(hub)
      /\ Len(hub) \in Nat /\ PageSize \in Nat \ {0}
      /\ walk = [shown |-> walk.shown, next |-> walk.next, of |-> walk.of]
  BY WorkspaceAssumption DEF WorkspaceTypes, ShowPage
<1>2. e \in 0 .. Len(hub) /\ walk.next < e
  BY <1>1 DEF PageEnd
<1>3. /\ walk'.shown = walk.shown \o SubSeq(hub, walk.next + 1, e) /\ walk'.next = e
      /\ walk'.of = walk.of /\ hub' = hub
      /\ walk' = [shown |-> walk'.shown, next |-> walk'.next, of |-> walk'.of]
  BY <1>1 DEF ShowPage, NextFrom
<1> HIDE DEF e
<1>4. CASE walk.of = hub
  <2>1. walk.shown = SubSeq(hub, 1, walk.next)
    BY <1>4 DEF PickerShowsAll
  <2>2. SubSeq(hub, 1, walk.next) \o SubSeq(hub, walk.next + 1, e) = SubSeq(hub, 1, e)
    <3>1. 1 \in 1 .. Len(hub) + 1 /\ walk.next \in 1 - 1 .. Len(hub) /\ e \in walk.next .. Len(hub)
      BY <1>1, <1>2
    <3> QED
      BY <1>1, <3>1, ConcatAdjacentSubSeq, Zenon
  <2> QED
    BY <1>2, <1>3, <2>1, <2>2 DEF PickerShowsAll
<1> QED
  BY <1>2, <1>3, <1>4 DEF PickerShowsAll

LEMMA HubChangesKeeps == ASSUME RepositoriesInv, HubChanges PROVE RepositoriesInv'
<1>1. /\ hub \in Seq(RepoEntry) /\ walk.next \in 0 .. Len(hub)
      /\ walk = [shown |-> walk.shown, next |-> walk.next, of |-> walk.of]
      /\ walk' = [walk EXCEPT !.of = <<>>] /\ UNCHANGED <<chat, wsDriver, disk, cleanup>>
  BY DEF RepositoriesInv, WorkspaceTypes, HubChanges
<1>2. PICK n \in DOMAIN hub :
        \/ \E name \in RepoName : hub' = [hub EXCEPT ![n].name = name]
        \/ n > 1 /\ hub' = <<hub[n]>> \o RemoveAt(hub, n)
  BY DEF HubChanges
<1>3. n \in 1 .. Len(hub) /\ Len(hub) \in Nat /\ hub[n] \in RepoEntry /\ hub # <<>>
  BY <1>1
<1>4. hub' \in Seq(RepoEntry) /\ Len(hub') = Len(hub)
  <2>1. CASE \E name \in RepoName : hub' = [hub EXCEPT ![n].name = name]
    <3>1. PICK name \in RepoName : hub' = [hub EXCEPT ![n].name = name]
      BY <2>1
    <3> DEFINE entry == [hub[n] EXCEPT !.name = name]
    <3>2. entry \in RepoEntry /\ hub' = [hub EXCEPT ![n] = entry]
      BY <1>3, <3>1 DEF RepoEntry
    <3> HIDE DEF entry
    <3> QED
      BY <1>1, <1>3, <3>2
  <2>2. CASE n > 1 /\ hub' = <<hub[n]>> \o RemoveAt(hub, n)
    <3> DEFINE before == SubSeq(hub, 1, n - 1)
               after  == SubSeq(hub, n + 1, Len(hub))
    <3>1. before \in Seq(RepoEntry) /\ Len(before) = n - 1
      BY <1>1, <1>3, SubSeqProperties
    <3>2. after \in Seq(RepoEntry) /\ Len(after) = Len(hub) - n
      BY <1>1, <1>3, SubSeqProperties
    <3>3. hub' = <<hub[n]>> \o (before \o after)
      BY <2>2 DEF RemoveAt
    <3> HIDE DEF before, after
    <3>4. before \o after \in Seq(RepoEntry) /\ Len(before \o after) = Len(hub) - 1
      BY <1>3, <3>1, <3>2, ConcatProperties
    <3>5. <<hub[n]>> \in Seq(RepoEntry) /\ Len(<<hub[n]>>) = 1
      BY <1>3
    <3> QED
      BY <1>3, <3>3, <3>4, <3>5, ConcatProperties
  <2> QED
    BY <1>2, <2>1, <2>2
<1>5. walk'.next = walk.next /\ walk'.of = <<>>
      /\ walk' = [shown |-> walk'.shown, next |-> walk'.next, of |-> walk'.of]
  BY <1>1
<1>6. walk'.of # hub'
  BY <1>3, <1>4, <1>5
<1>7. WorkspaceTypes'
  BY <1>1, <1>4, <1>5 DEF RepositoriesInv, WorkspaceTypes
<1>8. CheckoutInv' /\ FilesInv'
  BY <1>1 DEF RepositoriesInv, CheckoutInv, FilesInv, Running, WholeFor, Whole, InUse, Written, Attached, LastTurn
<1> QED
  BY <1>6, <1>7, <1>8 DEF RepositoriesInv, PickerShowsAll

LEMMA ShowPageInv == ASSUME RepositoriesInv, ShowPage PROVE RepositoriesInv'
<1>1. UNCHANGED <<hub, chat, wsDriver, disk, cleanup>>
  BY DEF ShowPage
<1>2. PickerShowsAll' /\ walk'.next \in 0 .. Len(hub)
      /\ walk' = [shown |-> walk'.shown, next |-> walk'.next, of |-> walk'.of]
  BY ShowPageKeeps DEF RepositoriesInv
<1>3. WorkspaceTypes'
  BY <1>1, <1>2 DEF RepositoriesInv, WorkspaceTypes
<1>4. CheckoutInv' /\ FilesInv'
  BY <1>1 DEF RepositoriesInv, CheckoutInv, FilesInv, Running, WholeFor, Whole, InUse, Written, Attached, LastTurn
<1> QED
  BY <1>2, <1>3, <1>4 DEF RepositoriesInv

\* A turn that ends leaves a record as it may be between turns.
LEMMA TurnEnds ==
  ASSUME RepositoriesInv, Running, NEW outcome \in {"completed", "failed"}, NEW binding \in Binding,
         Ends(outcome, binding)
  PROVE  /\ wsDriver' = [pc |-> "idle", file |-> 0] /\ chat' \in ChatRecord /\ chat'.is = chat.is
         /\ chat'.emptied = chat.emptied
         /\ chat'.binding = IF chat.is = "alive" THEN binding ELSE chat.binding
<1>1. chat \in ChatRecord /\ chat.turns \in Seq(TurnOfChat) /\ chat.turns # <<>>
  BY DEF RepositoriesInv, WorkspaceTypes, CheckoutInv, ChatRecord
<1>2. LastTurn \in 1 .. Len(chat.turns) /\ chat.turns[LastTurn] \in TurnOfChat
  BY <1>1 DEF LastTurn
<1> DEFINE turn == [chat.turns[LastTurn] EXCEPT !.status = outcome]
           ended == [chat.turns EXCEPT ![LastTurn] = turn]
<1>3. turn \in TurnOfChat
  BY <1>2 DEF TurnOfChat
<1>4. chat.is = "alive" => chat' = [chat EXCEPT !.turns = ended, !.binding = binding]
  BY <1>1 DEF Ends
<1> HIDE DEF turn
<1>5. ended \in Seq(TurnOfChat)
  BY <1>1, <1>2, <1>3
<1> HIDE DEF ended
<1>6. CASE chat.is = "alive"
  BY <1>1, <1>4, <1>5, <1>6 DEF ChatRecord, Ends
<1>7. CASE chat.is # "alive"
  BY <1>1, <1>7 DEF Ends
<1> QED
  BY <1>6, <1>7

\* Between turns nothing is left to say but what is bound, and what is ready.
LEMMA BetweenTurns ==
  ASSUME RepositoriesInv, wsDriver' = [pc |-> "idle", file |-> 0], chat' \in ChatRecord,
         UNCHANGED <<hub, walk>>,
         disk' = [dir |-> disk'.dir, staging |-> disk'.staging, target |-> disk'.target, files |-> disk'.files],
         {disk'.staging, disk'.target} \subseteq Checkout \cup {NoCheckout},
         cleanup' \in Nat, cleanup' > 0 => ~Whole(chat'),
         Whole(chat') /\ chat'.binding.status = "ready" => WholeFor(disk'.target, chat'.binding)
  PROVE  RepositoriesInv'
<1>1. wsDriver' \in WsDriver /\ wsDriver'.pc = "idle"
  BY DEF WsDriver
<1>2. WorkspaceTypes'
  BY <1>1 DEF RepositoriesInv, WorkspaceTypes
<1>3. CheckoutInv' /\ FilesInv'
  BY <1>1 DEF CheckoutInv, FilesInv, Running, WholeFor, InUse
<1> QED
  BY <1>2, <1>3, PickerKept DEF RepositoriesInv

LEMMA WorkspaceFacts ==
  ASSUME WorkspaceTypes
  PROVE  /\ chat \in ChatRecord /\ chat.binding \in Binding /\ chat.turns \in Seq(TurnOfChat)
         /\ chat.is \in {"alive", "deleting", "deleted", "left"} /\ chat.emptied \in BOOLEAN
         /\ wsDriver \in WsDriver /\ wsDriver.file \in Nat
         /\ wsDriver.pc \in {"idle", "prepare", "clone", "publish", "mark", "attach", "agent"}
         /\ disk = [dir |-> disk.dir, staging |-> disk.staging, target |-> disk.target, files |-> disk.files]
         /\ {disk.staging, disk.target} \subseteq Checkout \cup {NoCheckout} /\ cleanup \in Nat
BY DEF WorkspaceTypes, ChatRecord, WsDriver

LEMMA SendInputInv ==
  ASSUME RepositoriesInv, NEW files \in Seq(UploadedFile), NEW item \in SUBSET RepoEntry,
         item = {} \/ \E i \in RepoEntry : item = {i}, SendInput(files, item)
  PROVE  RepositoriesInv'
<1> DEFINE turn == [status |-> "running", files |-> files]
           binding == IF item = {} THEN chat.binding ELSE Bound(CHOOSE i \in item : TRUE)
<1>1. /\ chat \in ChatRecord /\ chat.turns \in Seq(TurnOfChat) /\ chat.binding \in Binding
      /\ hub \in Seq(RepoEntry) /\ Len(hub) \in Nat
  <2>1. hub \in Seq(RepoEntry)
    BY DEF RepositoriesInv, WorkspaceTypes
  <2> QED
    BY <2>1, WorkspaceFacts DEF RepositoriesInv
<1>2. /\ chat.is = "alive" /\ wsDriver.pc = "idle"
      /\ wsDriver' = [pc |-> "prepare", file |-> 0] /\ walk' = [shown |-> <<>>, next |-> 0, of |-> <<>>]
      /\ UNCHANGED <<hub, disk, cleanup>>
  BY DEF SendInput, Running
<1>3. chat' = [chat EXCEPT !.turns = Append(@, turn), !.binding = binding]
  BY DEF SendInput
<1>4. turn \in TurnOfChat
  BY DEF TurnOfChat
<1> HIDE DEF turn
<1>5. /\ Append(chat.turns, turn) \in Seq(TurnOfChat) /\ Append(chat.turns, turn) # <<>>
  BY <1>1, <1>4, AppendProperties
<1>6. binding \in Binding /\ (binding = chat.binding \/ binding.status = "preparing")
  <2>1. CASE item = {}
    BY <1>1, <2>1
  <2>2. CASE item # {}
    <3>1. (CHOOSE i \in item : TRUE) \in RepoEntry
      BY <2>2
    <3> QED
      BY <2>2, <3>1, BindingFacts
  <2> QED
    BY <2>1, <2>2
<1> HIDE DEF binding
<1>7. /\ chat' \in ChatRecord /\ chat'.is = "alive" /\ chat'.binding = binding /\ chat'.turns # <<>>
      /\ chat'.emptied = chat.emptied
  BY <1>1, <1>2, <1>3, <1>5, <1>6 DEF ChatRecord
<1>8. wsDriver' \in WsDriver /\ wsDriver'.pc = "prepare" /\ wsDriver'.file = 0
  BY <1>2 DEF WsDriver
<1>9. WorkspaceTypes'
  BY <1>1, <1>2, <1>7, <1>8 DEF RepositoriesInv, WorkspaceTypes
<1>10. binding.status = "ready" => binding = chat.binding /\ chat.binding.status = "ready"
  BY <1>6
<1>11. CheckoutInv' /\ FilesInv'
  BY <1>1, <1>2, <1>7, <1>8, <1>10 DEF RepositoriesInv, CheckoutInv, FilesInv, Running, WholeFor, Whole, InUse
<1>12. PickerShowsAll'
  <2>1. SubSeq(hub, 1, 0) = <<>>
    BY <1>1, SubSeqEmpty
  <2> QED
    BY <1>2, <2>1 DEF PickerShowsAll
<1> QED
  BY <1>9, <1>11, <1>12 DEF RepositoriesInv

\* A step of the turn that neither writes attachments nor touches the picker.
LEMMA TurnMoves ==
  ASSUME RepositoriesInv, UNCHANGED <<hub, walk, cleanup>>,
         wsDriver' \in WsDriver, wsDriver'.pc # "idle", wsDriver'.file = 0,
         chat' \in ChatRecord, chat'.is = chat.is, chat'.emptied = chat.emptied, chat'.turns # <<>>,
         disk' = [dir |-> disk'.dir, staging |-> disk'.staging, target |-> disk'.target, files |-> disk'.files],
         {disk'.staging, disk'.target} \subseteq Checkout \cup {NoCheckout},
         wsDriver'.pc \in {"clone", "publish", "mark"} => chat'.binding # NoBinding,
         wsDriver'.pc \in {"clone", "publish"} /\ disk'.staging # NoCheckout =>
           disk'.staging.name = chat'.binding.name,
         wsDriver'.pc = "publish" /\ disk'.staging # NoCheckout => disk'.staging.whole,
         Whole(chat') /\ (chat'.binding.status = "ready" \/ wsDriver'.pc = "mark") =>
           WholeFor(disk'.target, chat'.binding),
         wsDriver'.pc = "attach" /\ InUse' /\ chat'.binding # NoBinding =>
           chat'.binding.status = "ready",
         wsDriver'.pc # "agent"
  PROVE  RepositoriesInv'
<1>1. WorkspaceTypes'
  BY DEF RepositoriesInv, WorkspaceTypes
<1>2. CheckoutInv'
  BY DEF RepositoriesInv, CheckoutInv, Running, WholeFor, Whole, InUse
<1>3. chat'.turns \in Seq(TurnOfChat) /\ LastTurn' \in 1 .. Len(chat'.turns) /\ Attached' \in Seq(UploadedFile)
  <2>1. chat'.turns \in Seq(TurnOfChat) /\ LastTurn' = Len(chat'.turns) /\ chat'.turns # <<>>
    BY DEF ChatRecord, LastTurn
  <2>2. LastTurn' \in 1 .. Len(chat'.turns)
    BY <2>1
  <2>3. chat'.turns[LastTurn'] \in TurnOfChat
    BY <2>1, <2>2
  <2> QED
    BY <2>1, <2>2, <2>3 DEF Attached, TurnOfChat
<1>4. FilesInv'
  BY <1>3 DEF FilesInv
<1> QED
  BY <1>1, <1>2, <1>4, PickerKept DEF RepositoriesInv

LEMMA RetryInv == ASSUME RepositoriesInv, Retry PROVE RepositoriesInv'
<1> DEFINE turn == [chat.turns[LastTurn] EXCEPT !.status = "running"]
           again == [chat.turns EXCEPT ![LastTurn] = turn]
           binding == [chat.binding EXCEPT !.status = "preparing"]
<1>1. /\ chat \in ChatRecord /\ chat.turns \in Seq(TurnOfChat) /\ chat.binding \in Binding
      /\ chat.is = "alive" /\ chat.binding.status = "failed" /\ LastTurn \in 1 .. Len(chat.turns)
      /\ wsDriver' = [pc |-> "prepare", file |-> 0] /\ UNCHANGED <<hub, walk, disk, cleanup>>
      /\ disk = [dir |-> disk.dir, staging |-> disk.staging, target |-> disk.target, files |-> disk.files]
      /\ {disk.staging, disk.target} \subseteq Checkout \cup {NoCheckout}
  BY WorkspaceFacts DEF RepositoriesInv, Retry, LastTurn
<1>2. chat' = [chat EXCEPT !.turns = again, !.binding = binding]
  BY <1>1 DEF Retry, ChatRecord
<1>3. turn \in TurnOfChat
  <2>1. chat.turns[LastTurn] \in TurnOfChat
    BY <1>1
  <2> QED
    BY <2>1 DEF TurnOfChat
<1> HIDE DEF turn
<1>4. again \in Seq(TurnOfChat) /\ again # <<>>
  BY <1>1, <1>3, ExceptSeq
<1>5. binding \in Binding /\ binding.status = "preparing"
  BY <1>1, BindingFacts
<1> HIDE DEF again, binding
<1>6. chat' \in ChatRecord /\ chat'.is = chat.is /\ chat'.binding = binding /\ chat'.turns # <<>>
      /\ chat'.emptied = chat.emptied
  BY <1>1, <1>2, <1>4, <1>5 DEF ChatRecord
<1>7. wsDriver' \in WsDriver /\ wsDriver'.pc = "prepare" /\ wsDriver'.file = 0
  BY <1>1 DEF WsDriver
<1> QED
  BY <1>1, <1>5, <1>6, <1>7, TurnMoves

LEMMA DriverFacts ==
  \A pc \in {"idle", "prepare", "clone", "publish", "mark", "attach", "agent"} :
    \A d \in WsDriver : /\ [d EXCEPT !.pc = pc] \in WsDriver /\ [d EXCEPT !.pc = pc].pc = pc
                        /\ [d EXCEPT !.pc = pc].file = d.file
BY DEF WsDriver

\* A turn that ends when its checkout or its attachments failed, or with its agent.
LEMMA TurnEndsInv ==
  ASSUME RepositoriesInv, Running, NEW outcome \in {"completed", "failed"},
         NEW binding \in {chat.binding, FailedBinding(chat.binding)}, Ends(outcome, binding),
         UNCHANGED <<hub, walk, cleanup>>,
         disk' = [dir |-> disk'.dir, staging |-> disk'.staging, target |-> disk'.target, files |-> disk'.files],
         disk'.target = disk.target, disk'.staging \in {disk.staging, NoCheckout}
  PROVE  RepositoriesInv'
<1>1. chat.binding \in Binding /\ {disk.staging, disk.target} \subseteq Checkout \cup {NoCheckout} /\ cleanup \in Nat
  BY WorkspaceFacts DEF RepositoriesInv
<1>2. binding \in Binding /\ (binding = chat.binding \/ binding.status # "ready")
  <2>1. FailedBinding(chat.binding) \in Binding /\ FailedBinding(chat.binding).status # "ready"
    BY <1>1, BindingFacts
  <2> QED
    BY <1>1, <2>1
<1>3. /\ wsDriver' = [pc |-> "idle", file |-> 0] /\ chat' \in ChatRecord /\ chat'.is = chat.is
      /\ chat'.emptied = chat.emptied
      /\ chat'.binding = IF chat.is = "alive" THEN binding ELSE chat.binding
  BY <1>2, TurnEnds
<1>4. Whole(chat') /\ chat'.binding.status = "ready" => WholeFor(disk'.target, chat'.binding)
  BY <1>2, <1>3 DEF RepositoriesInv, CheckoutInv, WholeFor, Whole
<1>5. cleanup' \in Nat /\ (cleanup' > 0 => ~Whole(chat'))
  BY <1>1, <1>3 DEF RepositoriesInv, CheckoutInv, Whole
<1>6. {disk'.staging, disk'.target} \subseteq Checkout \cup {NoCheckout}
  BY <1>1
<1> QED
  BY <1>3, <1>4, <1>5, <1>6, BetweenTurns

LEMMA SkipCheckoutInv == ASSUME RepositoriesInv, SkipCheckout PROVE RepositoriesInv'
<1>1. /\ wsDriver.pc = "prepare" /\ wsDriver \in WsDriver /\ wsDriver.file = 0 /\ ~NeedsCheckout
      /\ chat \in ChatRecord /\ chat.binding \in Binding /\ chat.turns # <<>>
      /\ disk = [dir |-> disk.dir, staging |-> disk.staging, target |-> disk.target, files |-> disk.files]
      /\ {disk.staging, disk.target} \subseteq Checkout \cup {NoCheckout}
      /\ UNCHANGED <<hub, walk, chat, disk, cleanup>> /\ wsDriver' = [wsDriver EXCEPT !.pc = "attach"]
  BY WorkspaceFacts DEF RepositoriesInv, CheckoutInv, FilesInv, SkipCheckout, Running
<1>2. wsDriver' \in WsDriver /\ wsDriver'.pc = "attach" /\ wsDriver'.file = 0
  BY <1>1, DriverFacts
<1>3. chat.binding # NoBinding => chat.binding.status = "ready"
  BY <1>1, BindingFacts DEF NeedsCheckout
<1>4. Whole(chat) /\ chat.binding.status = "ready" => WholeFor(disk.target, chat.binding)
  BY DEF RepositoriesInv, CheckoutInv
<1> QED
  BY <1>1, <1>2, <1>3, <1>4, TurnMoves DEF WholeFor, InUse

LEMMA ReuseCheckoutInv == ASSUME RepositoriesInv, ReuseCheckout PROVE RepositoriesInv'
<1>1. /\ wsDriver.pc = "prepare" /\ wsDriver \in WsDriver /\ wsDriver.file = 0 /\ NeedsCheckout
      /\ disk.target # NoCheckout
      /\ chat \in ChatRecord /\ chat.binding \in Binding /\ chat.turns # <<>>
      /\ disk = [dir |-> disk.dir, staging |-> disk.staging, target |-> disk.target, files |-> disk.files]
      /\ {disk.staging, disk.target} \subseteq Checkout \cup {NoCheckout}
      /\ UNCHANGED <<hub, walk, cleanup>>
  BY WorkspaceFacts DEF RepositoriesInv, CheckoutInv, FilesInv, ReuseCheckout, Running
<1>2. CASE /\ Accepted(disk.target, chat.binding.name)
           /\ wsDriver' = [wsDriver EXCEPT !.pc = "mark"] /\ UNCHANGED <<chat, disk>>
  <2>1. wsDriver' \in WsDriver /\ wsDriver'.pc = "mark" /\ wsDriver'.file = 0
    BY <1>1, <1>2, DriverFacts
  <2>2. chat.binding # NoBinding /\ WholeFor(disk.target, chat.binding)
    BY <1>1, <1>2, BindingFacts DEF NeedsCheckout, Accepted, WholeFor
  <2> QED
    BY <1>1, <1>2, <2>1, <2>2, TurnMoves DEF WholeFor, InUse
<1>3. CASE Ends("failed", FailedBinding(chat.binding)) /\ disk' = LeftAsIs(disk)
  <2>1. disk' = disk /\ Running
    BY <1>1, <1>3 DEF LeftAsIs, Running
  <2> QED
    BY <1>1, <1>3, <2>1, TurnEndsInv
<1> QED
  BY <1>2, <1>3 DEF ReuseCheckout

LEMMA StartCloneInv == ASSUME RepositoriesInv, StartClone PROVE RepositoriesInv'
<1> DEFINE c == [repo |-> chat.binding.repo, whole |-> FALSE, name |-> chat.binding.name, worked |-> FALSE]
<1>1. /\ wsDriver.pc = "prepare" /\ wsDriver \in WsDriver /\ wsDriver.file = 0 /\ NeedsCheckout
      /\ disk.target = NoCheckout
      /\ chat \in ChatRecord /\ chat.binding \in Binding /\ chat.turns # <<>>
      /\ disk = [dir |-> disk.dir, staging |-> disk.staging, target |-> disk.target, files |-> disk.files]
      /\ disk' = [disk EXCEPT !.dir = TRUE, !.staging = c]
      /\ UNCHANGED <<hub, walk, chat, cleanup>> /\ wsDriver' = [wsDriver EXCEPT !.pc = "clone"]
  BY WorkspaceFacts DEF RepositoriesInv, CheckoutInv, FilesInv, StartClone, Running
<1>2. chat.binding # NoBinding /\ chat.binding.status # "ready"
  BY <1>1, BindingFacts DEF NeedsCheckout
<1>3. chat.binding.repo \in Repo /\ chat.binding.name \in RepoName
  BY <1>1, <1>2 DEF Binding
<1>4. c \in Checkout /\ c.name = chat.binding.name
  BY <1>3 DEF Checkout
<1> HIDE DEF c
<1>5. /\ disk'.target = NoCheckout /\ disk'.staging = c
      /\ disk' = [dir |-> disk'.dir, staging |-> disk'.staging, target |-> disk'.target, files |-> disk'.files]
  BY <1>1
<1>6. wsDriver' \in WsDriver /\ wsDriver'.pc = "clone" /\ wsDriver'.file = 0
  BY <1>1, DriverFacts
<1> QED
  BY <1>1, <1>2, <1>4, <1>5, <1>6, TurnMoves

LEMMA EndCloneInv == ASSUME RepositoriesInv, EndClone PROVE RepositoriesInv'
<1>1. /\ wsDriver.pc = "clone" /\ wsDriver \in WsDriver /\ wsDriver.file = 0
      /\ disk.staging # NoCheckout /\ disk.staging.name = chat.binding.name
      /\ chat \in ChatRecord /\ chat.binding # NoBinding /\ chat.turns # <<>>
      /\ disk = [dir |-> disk.dir, staging |-> disk.staging, target |-> disk.target, files |-> disk.files]
      /\ disk.staging \in Checkout /\ disk.target \in Checkout \cup {NoCheckout}
      /\ UNCHANGED <<hub, walk, chat, cleanup>> /\ wsDriver' = [wsDriver EXCEPT !.pc = "publish"]
      /\ hub \in Seq(RepoEntry)
  BY WorkspaceFacts DEF RepositoriesInv, CheckoutInv, FilesInv, EndClone, Running, WorkspaceTypes
<1>2. PICK n \in ReposNamed(chat.binding.name) :
        disk' = [disk EXCEPT !.staging = [@ EXCEPT !.repo = hub[n].repo, !.whole = TRUE]]
  BY DEF EndClone
<1> DEFINE c == [disk.staging EXCEPT !.repo = hub[n].repo, !.whole = TRUE]
<1>3. hub[n].repo \in Repo
  <2>1. hub[n] \in RepoEntry
    BY <1>1 DEF ReposNamed
  <2> QED
    BY <2>1 DEF RepoEntry
<1>4. c \in Checkout /\ c.name = chat.binding.name /\ c.whole
  BY <1>1, <1>3 DEF Checkout
<1>5. disk' = [disk EXCEPT !.staging = c]
  BY <1>2
<1> HIDE DEF c
<1>6. /\ disk'.target = disk.target /\ disk'.staging = c
      /\ disk' = [dir |-> disk'.dir, staging |-> disk'.staging, target |-> disk'.target, files |-> disk'.files]
  BY <1>1, <1>5
<1>7. wsDriver' \in WsDriver /\ wsDriver'.pc = "publish" /\ wsDriver'.file = 0
  BY <1>1, DriverFacts
<1>8. Whole(chat) /\ chat.binding.status = "ready" => WholeFor(disk.target, chat.binding)
  BY DEF RepositoriesInv, CheckoutInv
<1> QED
  BY <1>1, <1>4, <1>6, <1>7, <1>8, TurnMoves DEF WholeFor, InUse

LEMMA FailCloneInv == ASSUME RepositoriesInv, FailClone PROVE RepositoriesInv'
<1>1. /\ disk = [dir |-> disk.dir, staging |-> disk.staging, target |-> disk.target, files |-> disk.files]
      /\ disk' = [disk EXCEPT !.staging = NoCheckout] /\ Running
      /\ Ends("failed", FailedBinding(chat.binding)) /\ UNCHANGED <<hub, walk, cleanup>>
  BY WorkspaceFacts DEF RepositoriesInv, FailClone, Running
<1>2. /\ disk'.target = disk.target /\ disk'.staging = NoCheckout
      /\ disk' = [dir |-> disk'.dir, staging |-> disk'.staging, target |-> disk'.target, files |-> disk'.files]
  BY <1>1
<1> QED
  BY <1>1, <1>2, TurnEndsInv

LEMMA PublishInv == ASSUME RepositoriesInv, Publish PROVE RepositoriesInv'
<1>1. /\ wsDriver.pc = "publish" /\ wsDriver \in WsDriver /\ wsDriver.file = 0
      /\ chat \in ChatRecord /\ chat.binding # NoBinding /\ chat.turns # <<>>
      /\ disk = [dir |-> disk.dir, staging |-> disk.staging, target |-> disk.target, files |-> disk.files]
      /\ {disk.staging, disk.target} \subseteq Checkout \cup {NoCheckout}
      /\ disk.staging # NoCheckout => disk.staging.whole /\ disk.staging.name = chat.binding.name
      /\ UNCHANGED <<hub, walk, cleanup>>
  BY WorkspaceFacts DEF RepositoriesInv, CheckoutInv, FilesInv, Publish, Running
<1>2. CASE /\ disk.staging # NoCheckout /\ disk.target = NoCheckout
           /\ disk' = [disk EXCEPT !.target = disk.staging, !.staging = NoCheckout]
           /\ wsDriver' = [wsDriver EXCEPT !.pc = "mark"] /\ UNCHANGED chat
  <2>1. wsDriver' \in WsDriver /\ wsDriver'.pc = "mark" /\ wsDriver'.file = 0
    BY <1>1, <1>2, DriverFacts
  <2>2. /\ disk'.target = disk.staging /\ disk'.staging = NoCheckout
        /\ disk' = [dir |-> disk'.dir, staging |-> disk'.staging, target |-> disk'.target, files |-> disk'.files]
    BY <1>1, <1>2
  <2>3. WholeFor(disk'.target, chat'.binding)
    BY <1>1, <1>2, <2>2 DEF WholeFor
  <2> QED
    BY <1>1, <1>2, <2>1, <2>2, <2>3, TurnMoves
<1>3. CASE /\ disk' = [disk EXCEPT !.staging = NoCheckout]
           /\ Ends("failed", FailedBinding(chat.binding))
  <2>1. /\ disk'.target = disk.target /\ disk'.staging = NoCheckout /\ Running
        /\ disk' = [dir |-> disk'.dir, staging |-> disk'.staging, target |-> disk'.target, files |-> disk'.files]
    BY <1>1, <1>3 DEF Running
  <2> QED
    BY <1>1, <1>3, <2>1, TurnEndsInv
<1> QED
  BY <1>2, <1>3 DEF Publish

LEMMA MarkReadyInv == ASSUME RepositoriesInv, MarkReady PROVE RepositoriesInv'
<1> DEFINE binding == [chat.binding EXCEPT !.status = "ready"]
<1>1. /\ wsDriver.pc = "mark" /\ wsDriver \in WsDriver /\ wsDriver.file = 0
      /\ chat \in ChatRecord /\ chat.binding \in Binding /\ chat.binding # NoBinding /\ chat.turns # <<>>
      /\ Whole(chat) => WholeFor(disk.target, chat.binding)
      /\ disk = [dir |-> disk.dir, staging |-> disk.staging, target |-> disk.target, files |-> disk.files]
      /\ {disk.staging, disk.target} \subseteq Checkout \cup {NoCheckout}
      /\ wsDriver' = [wsDriver EXCEPT !.pc = "attach"] /\ UNCHANGED <<hub, walk, disk, cleanup>>
  BY WorkspaceFacts DEF RepositoriesInv, CheckoutInv, FilesInv, MarkReady, Running
<1>2. binding \in Binding /\ binding.status = "ready" /\ binding.name = chat.binding.name
  BY <1>1 DEF Binding
<1>3. /\ chat.is = "alive" => chat' = [chat EXCEPT !.binding = binding]
      /\ chat.is # "alive" => chat' = chat
  BY <1>1 DEF MarkReady, ChatRecord
<1> HIDE DEF binding
<1>4. /\ chat' \in ChatRecord /\ chat'.is = chat.is /\ chat'.turns # <<>>
      /\ chat'.emptied = chat.emptied
      /\ chat.is = "alive" => chat'.binding = binding
  BY <1>1, <1>2, <1>3 DEF ChatRecord
<1>5. wsDriver' \in WsDriver /\ wsDriver'.pc = "attach" /\ wsDriver'.file = 0
  BY <1>1, DriverFacts
<1>6. Whole(chat') => WholeFor(disk'.target, chat'.binding)
  BY <1>1, <1>2, <1>4, BindingFacts DEF WholeFor, Whole, MarkReady
<1> QED
  BY <1>1, <1>2, <1>4, <1>5, <1>6, TurnMoves DEF InUse

-----------------------------------------------------------------------------
(* The attachments *)

\* Another file of the turn has another name, or neither is spoken of.
LEMMA WriteFileInv == ASSUME RepositoriesInv, WriteFile PROVE RepositoriesInv'
<1> DEFINE n == wsDriver.file + 1
           key == <<LastTurn, FileName(n, Attached[n])>>
           files == [k \in {key} \cup DOMAIN disk.files |-> IF k = key THEN Attached[n] ELSE disk.files[k]]
<1>1. /\ wsDriver.pc = "attach" /\ wsDriver \in WsDriver /\ wsDriver.file \in Nat /\ Running
      /\ wsDriver.file < Len(Attached) /\ chat.turns # <<>> /\ chat.turns \in Seq(TurnOfChat)
      /\ disk = [dir |-> disk.dir, staging |-> disk.staging, target |-> disk.target, files |-> disk.files]
      /\ disk' = [disk EXCEPT !.dir = TRUE, !.files = files] /\ wsDriver' = [wsDriver EXCEPT !.file = n]
      /\ UNCHANGED <<hub, walk, chat, cleanup>>
  BY WorkspaceFacts DEF RepositoriesInv, CheckoutInv, WriteFile, Running
<1>2. Attached \in Seq(UploadedFile)
  <2>1. chat.turns[LastTurn] \in TurnOfChat
    BY <1>1 DEF LastTurn
  <2> QED
    BY <2>1 DEF Attached, TurnOfChat
<1>3. n \in DOMAIN Attached /\ n \in Nat /\ Len(Attached) \in Nat /\ DOMAIN Attached = 1 .. Len(Attached)
  BY <1>1, <1>2
<1>4. wsDriver' \in WsDriver /\ wsDriver'.pc = "attach" /\ wsDriver'.file = n
  BY <1>1, <1>3 DEF WsDriver
<1>5. /\ disk'.staging = disk.staging /\ disk'.target = disk.target /\ disk'.files = files
      /\ disk' = [dir |-> disk'.dir, staging |-> disk'.staging, target |-> disk'.target, files |-> disk'.files]
  BY <1>1
<1>6. Attached' = Attached /\ LastTurn' = LastTurn
  BY <1>1 DEF Attached, LastTurn
<1>7. WorkspaceTypes'
  BY <1>1, <1>4, <1>5 DEF RepositoriesInv, WorkspaceTypes
<1>8. CheckoutInv'
  BY <1>1, <1>4, <1>5 DEF RepositoriesInv, CheckoutInv, Running, WholeFor, Whole, InUse
<1>9. ASSUME InUse PROVE n <= Len(Attached) /\ \A i \in 1 .. n : Written(i)'
  <2>1. /\ \A i \in 1 .. wsDriver.file : Written(i)
    BY <1>1, <1>9 DEF RepositoriesInv, FilesInv
  <2> SUFFICES ASSUME NEW i \in 1 .. n PROVE Written(i)'
    BY <1>3
  <2> SUFFICES ASSUME \A m \in DOMAIN Attached : FileName(m, Attached[m]) = FileName(i, Attached[i]) => m = i
               PROVE  /\ <<LastTurn, FileName(i, Attached[i])>> \in DOMAIN files
                      /\ files[<<LastTurn, FileName(i, Attached[i])>>] = Attached[i]
    BY <1>5, <1>6 DEF Written
  <2>2. CASE i = n
    BY <2>2
  <2>3. CASE i # n
    <3>1. i \in 1 .. wsDriver.file
      BY <1>1, <1>3, <2>3
    <3>2. /\ <<LastTurn, FileName(i, Attached[i])>> \in DOMAIN disk.files
          /\ disk.files[<<LastTurn, FileName(i, Attached[i])>>] = Attached[i]
      BY <2>1, <3>1 DEF Written
    <3>3. FileName(n, Attached[n]) # FileName(i, Attached[i])
      BY <1>3, <2>3
    <3>4. <<LastTurn, FileName(i, Attached[i])>> # key
      BY <3>3
    <3> QED
      BY <3>2, <3>4
  <2> QED
    BY <2>2, <2>3
<1> HIDE DEF n, files, key
<1>10. FilesInv'
  BY <1>1, <1>4, <1>6, <1>9 DEF FilesInv, InUse
<1> QED
  BY <1>1, <1>7, <1>8, <1>10, PickerKept DEF RepositoriesInv

LEMMA FailWriteInv == ASSUME RepositoriesInv, FailWrite PROVE RepositoriesInv'
<1>1. /\ disk = [dir |-> disk.dir, staging |-> disk.staging, target |-> disk.target, files |-> disk.files]
      /\ Running /\ Ends("failed", chat.binding) /\ UNCHANGED <<hub, walk, cleanup, disk>>
  BY WorkspaceFacts DEF RepositoriesInv, FailWrite, Running
<1> QED
  BY <1>1, TurnEndsInv

LEMMA StartAgentInv == ASSUME RepositoriesInv, StartAgent PROVE RepositoriesInv'
<1>1. /\ disk = [dir |-> disk.dir, staging |-> disk.staging, target |-> disk.target, files |-> disk.files]
      /\ Running /\ UNCHANGED <<hub, walk, cleanup, disk>> /\ wsDriver \in WsDriver
      /\ wsDriver.pc = "attach" /\ wsDriver.file = Len(Attached)
  BY WorkspaceFacts DEF RepositoriesInv, StartAgent, Running
<1>2. CASE Ends("failed", chat.binding)
  BY <1>1, <1>2, TurnEndsInv
<1>3. CASE wsDriver' = [wsDriver EXCEPT !.pc = "agent"] /\ UNCHANGED chat
  <2>1. wsDriver' \in WsDriver /\ wsDriver'.pc = "agent" /\ wsDriver'.file = wsDriver.file
    BY <1>1, <1>3, DriverFacts
  <2>2. WorkspaceTypes' /\ CheckoutInv'
    BY <1>1, <1>3, <2>1 DEF RepositoriesInv, WorkspaceTypes, CheckoutInv, Running, WholeFor, Whole, InUse
  <2>3. FilesInv'
    BY <1>1, <1>3, <2>1 DEF RepositoriesInv, FilesInv, InUse, Written, Attached, LastTurn
  <2> QED
    BY <1>1, <2>2, <2>3, PickerKept DEF RepositoriesInv
<1> QED
  BY <1>2, <1>3 DEF StartAgent

LEMMA AgentWorksInv == ASSUME RepositoriesInv, AgentWorks PROVE RepositoriesInv'
<1> DEFINE c == [disk.target EXCEPT !.worked = TRUE]
<1>1. /\ disk = [dir |-> disk.dir, staging |-> disk.staging, target |-> disk.target, files |-> disk.files]
      /\ disk.target \in Checkout /\ UNCHANGED <<hub, walk, chat, wsDriver, cleanup>>
  BY WorkspaceFacts DEF RepositoriesInv, AgentWorks
<1>2. disk' = [disk EXCEPT !.target = c]
  BY <1>1 DEF AgentWorks
<1>3. c \in Checkout /\ c.name = disk.target.name /\ c.whole = disk.target.whole
  BY <1>1 DEF Checkout
<1>4. c # NoCheckout
  BY <1>3, WorkspaceAssumption
<1> HIDE DEF c
<1>5. /\ disk'.staging = disk.staging /\ disk'.target = c /\ disk'.files = disk.files
      /\ disk' = [dir |-> disk'.dir, staging |-> disk'.staging, target |-> disk'.target, files |-> disk'.files]
  BY <1>1, <1>2
<1>6. WorkspaceTypes' /\ CheckoutInv'
  BY <1>1, <1>3, <1>4, <1>5 DEF RepositoriesInv, WorkspaceTypes, CheckoutInv, Running, WholeFor, Whole, InUse
<1>7. FilesInv'
  BY <1>1, <1>5 DEF RepositoriesInv, FilesInv, InUse, Written, Attached, LastTurn
<1> QED
  BY <1>1, <1>6, <1>7, PickerKept DEF RepositoriesInv

LEMMA AgentEndsInv == ASSUME RepositoriesInv, AgentEnds PROVE RepositoriesInv'
<1>1. /\ disk = [dir |-> disk.dir, staging |-> disk.staging, target |-> disk.target, files |-> disk.files]
      /\ Running /\ UNCHANGED <<hub, walk, cleanup, disk>>
  BY WorkspaceFacts DEF RepositoriesInv, AgentEnds, Running
<1>2. PICK outcome \in {"completed", "failed"} : Ends(outcome, chat.binding)
  BY DEF AgentEnds
<1> QED
  BY <1>1, <1>2, TurnEndsInv

-----------------------------------------------------------------------------
(* Deletion, crash and restart *)

\* Nothing is asked of the workspace of a chat whose workspace may be gone.
LEMMA GoneInv ==
  ASSUME RepositoriesInv, UNCHANGED <<hub, walk, wsDriver>>, chat' \in ChatRecord, ~Whole(chat'),
         chat'.binding = chat.binding, chat'.turns = chat.turns,
         disk' \in {disk, NoWorkspace}, cleanup' \in Nat
  PROVE  RepositoriesInv'
<1>1. /\ disk' = [dir |-> disk'.dir, staging |-> disk'.staging, target |-> disk'.target, files |-> disk'.files]
      /\ {disk'.staging, disk'.target} \subseteq Checkout \cup {NoCheckout}
      /\ disk'.staging \in {disk.staging, NoCheckout}
  <2>1. CASE disk' = disk
    BY <2>1, WorkspaceFacts DEF RepositoriesInv
  <2>2. CASE disk' = NoWorkspace
    BY <2>2 DEF NoWorkspace
  <2> QED
    BY <2>1, <2>2
<1>2. WorkspaceTypes'
  BY <1>1 DEF RepositoriesInv, WorkspaceTypes
<1>3. ~InUse'
  BY DEF Whole, InUse
<1>4. CheckoutInv' /\ FilesInv'
  BY <1>1, <1>3 DEF RepositoriesInv, CheckoutInv, FilesInv, Running
<1> QED
  BY <1>2, <1>4, PickerKept DEF RepositoriesInv

LEMMA DeleteInv == ASSUME RepositoriesInv, Delete PROVE RepositoriesInv'
<1>1. /\ chat \in ChatRecord /\ chat.is = "alive" /\ chat' = [chat EXCEPT !.is = "deleting"]
      /\ UNCHANGED <<hub, walk, wsDriver, disk, cleanup>>
  BY WorkspaceFacts DEF RepositoriesInv, Delete
<1>2. /\ chat' \in ChatRecord /\ chat'.is = "deleting" /\ chat'.binding = chat.binding
      /\ chat'.turns = chat.turns /\ chat'.emptied = chat.emptied
  BY <1>1 DEF ChatRecord
<1>3. WorkspaceTypes'
  BY <1>1, <1>2 DEF RepositoriesInv, WorkspaceTypes
<1>4. Whole(chat') <=> Whole(chat)
  BY <1>1, <1>2 DEF Whole
<1>5. CheckoutInv' /\ FilesInv'
  BY <1>1, <1>2, <1>4 DEF RepositoriesInv, CheckoutInv, FilesInv, Running, WholeFor, InUse
<1> QED
  BY <1>1, <1>3, <1>5, PickerKept DEF RepositoriesInv

LEMMA RemovalInv == ASSUME RepositoriesInv, RemoveWorkspace \/ CleanUp PROVE RepositoriesInv'
<1>1. chat \in ChatRecord /\ cleanup \in Nat /\ (cleanup > 0 => ~Whole(chat))
  BY WorkspaceFacts DEF RepositoriesInv, CheckoutInv
<1>2. CASE RemoveWorkspace
  <2>1. /\ \E is \in {"deleted", "left"} : chat' = [chat EXCEPT !.is = is]
        /\ UNCHANGED <<hub, walk, wsDriver>>
        /\ disk' \in {disk, NoWorkspace} /\ cleanup' \in Nat
    BY <1>1, <1>2 DEF RemoveWorkspace
  <2>2. /\ chat' \in ChatRecord /\ chat'.is \in {"deleted", "left"} /\ chat'.binding = chat.binding
        /\ chat'.turns = chat.turns
    BY <1>1, <2>1 DEF ChatRecord
  <2>3. ~Whole(chat') /\ ~InUse'
    BY <2>2 DEF Whole, InUse
  <2> QED
    BY <2>1, <2>2, <2>3, GoneInv
<1>3. CASE CleanUp
  <2>1. /\ cleanup > 0 /\ UNCHANGED <<hub, walk, wsDriver, chat>>
        /\ disk' \in {disk, NoWorkspace} /\ cleanup' \in Nat
    BY <1>1, <1>3 DEF CleanUp
  <2>2. ~Whole(chat')
    BY <1>1, <2>1 DEF Whole
  <2> QED
    BY <1>1, <2>1, <2>2, GoneInv
<1> QED
  BY <1>2, <1>3

LEMMA RestoredFacts ==
  ASSUME NEW c \in ChatRecord
  PROVE  /\ Restored(c) \in ChatRecord /\ Restored(c).is = c.is /\ Restored(c).emptied = c.emptied
         /\ Restored(c).binding.status = "ready" => Restored(c).binding = c.binding
<1> DEFINE binding == IF c.binding.status = "preparing" THEN FailedBinding(c.binding) ELSE c.binding
           turns == [n \in DOMAIN c.turns |-> IF c.turns[n].status = "running"
                                              THEN [c.turns[n] EXCEPT !.status = "interrupted"]
                                              ELSE c.turns[n]]
<1>1. c.binding \in Binding /\ c.turns \in Seq(TurnOfChat)
  BY DEF ChatRecord
<1>2. binding \in Binding /\ (binding.status = "ready" => binding = c.binding)
  <2>1. FailedBinding(c.binding) \in Binding /\ FailedBinding(c.binding).status # "ready"
    BY <1>1, BindingFacts
  <2> QED
    BY <1>1, <2>1
<1>3. turns \in Seq(TurnOfChat)
  <2>1. Len(c.turns) \in Nat /\ DOMAIN c.turns = 1 .. Len(c.turns)
    BY <1>1
  <2>2. \A n \in 1 .. Len(c.turns) : turns[n] \in TurnOfChat
    <3> SUFFICES ASSUME NEW n \in 1 .. Len(c.turns) PROVE turns[n] \in TurnOfChat
      OBVIOUS
    <3>1. c.turns[n] \in TurnOfChat
      BY <1>1
    <3> QED
      BY <2>1, <3>1 DEF TurnOfChat
  <2>3. turns \in [1 .. Len(c.turns) -> TurnOfChat]
    BY <2>1, <2>2
  <2> HIDE DEF turns
  <2> QED
    BY <2>1, <2>3, SeqDef
<1>4. Restored(c) = [c EXCEPT !.binding = binding, !.turns = turns]
  BY DEF Restored
<1> HIDE DEF binding, turns
<1> QED
  BY <1>2, <1>3, <1>4 DEF ChatRecord

LEMMA ReturnedFacts ==
  ASSUME NEW c \in ChatRecord
  PROVE  Returned(c) \in ChatRecord /\ ~Whole(Returned(c))
<1> DEFINE r == [c EXCEPT !.is = "alive", !.emptied = TRUE]
<1>1. r \in ChatRecord /\ r.emptied
  BY DEF ChatRecord
<1>2. Returned(c) = Restored(r)
  BY DEF Returned
<1> HIDE DEF r
<1> QED
  BY <1>1, <1>2, RestoredFacts DEF Whole

LEMMA ComesBackInv == ASSUME RepositoriesInv, ComesBack PROVE RepositoriesInv'
<1>1. /\ chat \in ChatRecord /\ cleanup \in Nat /\ wsDriver \in WsDriver /\ wsDriver.pc = "idle"
      /\ disk = [dir |-> disk.dir, staging |-> disk.staging, target |-> disk.target, files |-> disk.files]
      /\ {disk.staging, disk.target} \subseteq Checkout \cup {NoCheckout}
      /\ chat' = Returned(chat) /\ UNCHANGED <<hub, walk, wsDriver, disk, cleanup>>
  BY WorkspaceFacts DEF RepositoriesInv, ComesBack, Running
<1>2. chat' \in ChatRecord /\ ~Whole(chat')
  BY <1>1, ReturnedFacts DEF Whole
<1>3. WorkspaceTypes'
  BY <1>1, <1>2 DEF RepositoriesInv, WorkspaceTypes
<1>4. ~InUse'
  BY <1>2 DEF Whole, InUse
<1>5. CheckoutInv' /\ FilesInv'
  BY <1>1, <1>2, <1>4 DEF CheckoutInv, FilesInv, Running
<1> QED
  BY <1>1, <1>3, <1>5, PickerKept DEF RepositoriesInv

LEMMA CrashRestartInv == ASSUME RepositoriesInv, CrashRestart PROVE RepositoriesInv'
<1>1. /\ chat \in ChatRecord /\ cleanup' = 0 /\ wsDriver' = [pc |-> "idle", file |-> 0]
      /\ UNCHANGED <<hub, walk, disk>>
      /\ disk = [dir |-> disk.dir, staging |-> disk.staging, target |-> disk.target, files |-> disk.files]
      /\ {disk.staging, disk.target} \subseteq Checkout \cup {NoCheckout}
      /\ Whole(chat) /\ chat.binding.status = "ready" => WholeFor(disk.target, chat.binding)
  BY WorkspaceFacts DEF RepositoriesInv, CheckoutInv, CrashRestart
<1>2. /\ chat' \in ChatRecord
      /\ Whole(chat') /\ chat'.binding.status = "ready" => WholeFor(disk.target, chat'.binding)
  <2>1. CASE chat.is = "deleting" /\ chat' = [chat EXCEPT !.is = "deleted"]
    BY <1>1, <2>1 DEF ChatRecord, Whole
  <2>2. CASE chat.is = "deleting" /\ chat' = Restored([chat EXCEPT !.is = "alive"])
    <3> DEFINE c == [chat EXCEPT !.is = "alive"]
    <3>1. c \in ChatRecord /\ c.binding = chat.binding /\ c.emptied = chat.emptied
      BY <1>1 DEF ChatRecord
    <3>2. chat' = Restored(c)
      BY <2>2
    <3> HIDE DEF c
    <3> QED
      BY <1>1, <2>2, <3>1, <3>2, RestoredFacts DEF Whole
  <2>3. CASE chat' = Returned(chat)
    BY <1>1, <2>3, ReturnedFacts DEF Whole
  <2>4. CASE chat' = Restored(chat)
    BY <1>1, <2>4, RestoredFacts DEF Whole
  <2>5. CASE chat.is = "deleting"
    BY <2>1, <2>2, <2>5 DEF CrashRestart
  <2>6. CASE chat.is = "left"
    BY <2>3, <2>6 DEF CrashRestart
  <2>7. CASE chat.is \notin {"deleting", "left"}
    BY <2>4, <2>7 DEF CrashRestart
  <2> QED
    BY <2>5, <2>6, <2>7
<1>3. /\ Whole(chat') /\ chat'.binding.status = "ready" => WholeFor(disk'.target, chat'.binding)
      /\ disk' = disk /\ cleanup' \in Nat /\ ~(cleanup' > 0)
  BY <1>1, <1>2
<1> QED
  BY <1>1, <1>2, <1>3, BetweenTurns

-----------------------------------------------------------------------------
(* A chat's repository: the theorems *)

LEMMA WorkspaceInitInv == WorkspaceInit => RepositoriesInv
<1> SUFFICES ASSUME WorkspaceInit PROVE RepositoriesInv
  OBVIOUS
<1>1. hub \in Seq(RepoEntry) /\ walk = [shown |-> <<>>, next |-> 0, of |-> hub] /\ Len(hub) \in Nat
  <2>1. Cardinality(Repo) \in Nat
    BY WorkspaceAssumption, FS_CardinalityType
  <2>2. hub \in [1 .. Cardinality(Repo) -> RepoEntry]
    BY DEF WorkspaceInit
  <2> QED
    BY <2>1, <2>2, SeqDef DEF WorkspaceInit
<1>2. /\ chat = [is |-> "alive", binding |-> NoBinding, turns |-> <<>>, emptied |-> FALSE]
      /\ wsDriver = [pc |-> "idle", file |-> 0] /\ cleanup = 0
  BY DEF WorkspaceInit
<1>3. chat \in ChatRecord /\ wsDriver \in WsDriver
  BY <1>2, BindingFacts DEF ChatRecord, WsDriver
<1>4. /\ disk = [dir |-> disk.dir, staging |-> disk.staging, target |-> disk.target, files |-> disk.files]
      /\ {disk.staging, disk.target} \subseteq Checkout \cup {NoCheckout}
  <2>1. PICK left \in {NoCheckout} \cup [repo : Repo, name : RepoName, whole : {TRUE}, worked : {TRUE}] :
          disk = [NoWorkspace EXCEPT !.dir = TRUE, !.target = left]
    BY DEF WorkspaceInit
  <2>2. left \in Checkout \cup {NoCheckout}
    BY DEF Checkout
  <2>3. disk = [dir |-> TRUE, staging |-> NoCheckout, target |-> left, files |-> <<>>]
    BY <2>1 DEF NoWorkspace
  <2> QED
    BY <2>2, <2>3
<1>5. WorkspaceTypes
  BY <1>1, <1>2, <1>3, <1>4 DEF WorkspaceTypes
<1>6. CheckoutInv /\ FilesInv
  BY <1>2, BindingFacts DEF CheckoutInv, FilesInv, Running
<1>7. PickerShowsAll
  <2>1. SubSeq(hub, 1, 0) = <<>>
    BY <1>1, SubSeqEmpty
  <2> QED
    BY <1>1, <2>1 DEF PickerShowsAll
<1> QED
  BY <1>5, <1>6, <1>7 DEF RepositoriesInv

LEMMA SomeInputInv ==
  ASSUME RepositoriesInv,
         \E files \in SeqOf(UploadedFile, MaxTurnFiles) :
           \/ SendInput(files, {})
           \/ \E n \in DOMAIN hub : SendInput(files, {hub[n]})
  PROVE  RepositoriesInv'
<1>1. PICK files \in SeqOf(UploadedFile, MaxTurnFiles) :
        \/ SendInput(files, {})
        \/ \E n \in DOMAIN hub : SendInput(files, {hub[n]})
  OBVIOUS
<1>2. files \in Seq(UploadedFile)
  <2>1. PICK m \in 0 .. MaxTurnFiles : files \in [1 .. m -> UploadedFile]
    BY DEF SeqOf
  <2>2. m \in Nat
    BY <2>1, WorkspaceAssumption
  <2> QED
    BY <2>1, <2>2, SeqDef
<1>3. CASE SendInput(files, {})
  BY <1>2, <1>3, SendInputInv
<1>4. CASE \E n \in DOMAIN hub : SendInput(files, {hub[n]})
  <2>1. PICK n \in DOMAIN hub : SendInput(files, {hub[n]})
    BY <1>4
  <2>2. hub[n] \in RepoEntry
    BY DEF RepositoriesInv, WorkspaceTypes
  <2> DEFINE item == {hub[n]}
  <2>3. item \in SUBSET RepoEntry /\ (\E i \in RepoEntry : item = {i}) /\ SendInput(files, item)
    BY <2>1, <2>2
  <2> HIDE DEF item
  <2> QED
    BY <1>2, <2>3, SendInputInv
<1> QED
  BY <1>1, <1>3, <1>4

LEMMA WorkspaceStutters == RepositoriesInv /\ UNCHANGED wsVars => RepositoriesInv'
BY DEF wsVars, RepositoriesInv, WorkspaceTypes, CheckoutInv, FilesInv, PickerShowsAll, Running, WholeFor,
       Whole, InUse, Written, Attached, LastTurn

LEMMA WorkspaceStepInv == RepositoriesInv /\ [WorkspaceNext]_wsVars => RepositoriesInv'
<1> SUFFICES ASSUME RepositoriesInv, [WorkspaceNext]_wsVars PROVE RepositoriesInv'
  OBVIOUS
<1>1. CASE UNCHANGED wsVars
  BY <1>1, WorkspaceStutters
<1>2. CASE HubChanges \/ ShowPage
  BY <1>2, HubChangesKeeps, ShowPageInv
<1>3. CASE Retry
  BY <1>3, RetryInv
<1>4. CASE SkipCheckout \/ ReuseCheckout \/ StartClone \/ EndClone \/ FailClone \/ Publish \/ MarkReady
  BY <1>4, SkipCheckoutInv, ReuseCheckoutInv, StartCloneInv, EndCloneInv, FailCloneInv, PublishInv, MarkReadyInv
<1>5. CASE WriteFile \/ FailWrite
  BY <1>5, WriteFileInv, FailWriteInv
<1>6. CASE StartAgent \/ AgentWorks \/ AgentEnds
  BY <1>6, StartAgentInv, AgentWorksInv, AgentEndsInv
<1>7. CASE Delete \/ RemoveWorkspace \/ CleanUp \/ ComesBack \/ CrashRestart
  BY <1>7, DeleteInv, RemovalInv, ComesBackInv, CrashRestartInv
<1> QED
  BY <1>1, <1>2, <1>3, <1>4, <1>5, <1>6, <1>7, SomeInputInv DEF WorkspaceNext

\* Whatever failed, crashed, was retried or was left by an earlier chat of the same id:
\* a repository that is ready is a whole clone of the name the chat is bound to, the
\* picker shows GitHub's list once, and the agent is told of files as they were
\* attached; for any repositories, files, and faults.
THEOREM RepositoriesAreTrueAlways == WorkspaceSpec => []RepositoriesAreTrue
<1>1. RepositoriesInv => RepositoriesAreTrue
  <2> SUFFICES ASSUME RepositoriesInv PROVE RepositoriesAreTrue
    OBVIOUS
  <2>1. ReadyIsWhole
    BY DEF RepositoriesInv, CheckoutInv, ReadyIsWhole, WholeFor, Whole, InUse
  <2>2. FilesAreTheirOwn
    <3> SUFFICES ASSUME wsDriver.pc = "agent", InUse, NEW n \in DOMAIN Attached,
                        \A m \in DOMAIN Attached : FileName(m, Attached[m]) = FileName(n, Attached[n]) => m = n
                 PROVE  /\ <<LastTurn, FileName(n, Attached[n])>> \in DOMAIN disk.files
                        /\ disk.files[<<LastTurn, FileName(n, Attached[n])>>] = Attached[n]
      BY DEF FilesAreTheirOwn
    <3>1. Attached \in Seq(UploadedFile)
      <4>1. chat.turns \in Seq(TurnOfChat) /\ chat.turns # <<>>
        BY WorkspaceFacts DEF RepositoriesInv, CheckoutInv, Running
      <4>2. chat.turns[LastTurn] \in TurnOfChat
        BY <4>1 DEF LastTurn
      <4> QED
        BY <4>2 DEF Attached, TurnOfChat
    <3>2. wsDriver.file = Len(Attached) /\ \A m \in 1 .. wsDriver.file : Written(m)
      BY DEF RepositoriesInv, FilesInv
    <3>3. Written(n)
      BY <3>1, <3>2
    <3> QED
      BY <3>3 DEF Written
  <2> QED
    BY <2>1, <2>2 DEF RepositoriesInv, RepositoriesAreTrue
<1> QED
  BY <1>1, WorkspaceInitInv, WorkspaceStepInv, PTL DEF WorkspaceSpec

\* No step but the removal of a deleted chat's workspace touches a checkout the agent
\* has worked in: neither a retry, nor the preparation of a later turn, nor a clone that
\* fails, nor a restart.
THEOREM WorkIsKeptAlways == WorkspaceSpec => WorkIsKept
<1>1. RepositoriesInv /\ [WorkspaceNext]_wsVars =>
        [disk.target # NoCheckout /\ disk.target.worked /\ InUse => disk'.target = disk.target]_wsVars
  <2> SUFFICES ASSUME RepositoriesInv, WorkspaceNext, disk.target # NoCheckout, disk.target.worked, InUse
               PROVE  disk'.target = disk.target
    OBVIOUS
  <2>1. disk = [dir |-> disk.dir, staging |-> disk.staging, target |-> disk.target, files |-> disk.files]
    BY WorkspaceFacts DEF RepositoriesInv
  <2>2. CASE UNCHANGED disk
    BY <2>2
  <2>3. CASE ReuseCheckout
    BY <2>3 DEF ReuseCheckout, LeftAsIs
  <2>4. CASE StartClone \/ Publish
    BY <2>1, <2>4 DEF StartClone, Publish
  <2>5. CASE EndClone \/ FailClone
    BY <2>1, <2>5 DEF EndClone, FailClone
  <2>6. CASE WriteFile
    BY <2>1, <2>6 DEF WriteFile
  <2>7. CASE AgentWorks
    BY <2>7 DEF AgentWorks
  <2>8. CASE RemoveWorkspace
    BY <2>8 DEF RemoveWorkspace, InUse
  <2>9. CASE CleanUp
    <3>1. ~Whole(chat) /\ Whole(chat)
      BY <2>9 DEF RepositoriesInv, CheckoutInv, CleanUp, Whole, InUse
    <3> QED
      BY <3>1
  <2>10. CASE HubChanges \/ ShowPage \/ Retry \/ SkipCheckout \/ MarkReady \/ FailWrite \/ StartAgent \/ AgentEnds
    BY <2>2, <2>10 DEF HubChanges, ShowPage, Retry, SkipCheckout, MarkReady, FailWrite, StartAgent, AgentEnds
  <2>11. CASE Delete \/ ComesBack \/ CrashRestart
    BY <2>2, <2>11 DEF Delete, ComesBack, CrashRestart
  <2>12. CASE \E files \in SeqOf(UploadedFile, MaxTurnFiles) :
                \/ SendInput(files, {})
                \/ \E n \in DOMAIN hub : SendInput(files, {hub[n]})
    BY <2>2, <2>12 DEF SendInput
  <2> QED
    BY <2>3, <2>4, <2>5, <2>6, <2>7, <2>8, <2>9, <2>10, <2>11, <2>12 DEF WorkspaceNext
<1> QED
  BY <1>1, WorkspaceInitInv, WorkspaceStepInv, PTL DEF WorkspaceSpec, WorkIsKept

-----------------------------------------------------------------------------
(* Providers: the operators *)

AnyDefault == ProvId \cup {NoProv}

\* A registry that messages can be resolved with.
Sound(c) ==
  /\ Distinct(c.list)
  /\ \A n \in DOMAIN c.list : HasKey(c.list[n])
  /\ c.def = NoProv <=> On(c.list) = {}
  /\ \A n \in DOMAIN c.list : c.list[n].flag <=> c.list[n].id = c.def
  /\ c.def # NoProv => \E n \in On(c.list) : c.list[n].id = c.def

ReadRegistry == [list : Seq(Provider), def : AnyDefault, is : {"read"}]

SoundRegistry(c) == c \in ReadRegistry /\ Sound(c)

LEMMA RegistryFacts ==
  /\ NoProv \notin ProvId /\ NoKey \notin ApiKey
  /\ NoRegistry \notin ReadRegistry /\ TornRegistry \notin ReadRegistry /\ NoRegistry # TornRegistry
BY ProvidersAssumption DEF NoRegistry, TornRegistry, ReadRegistry

LEMMA LeastOf ==
  ASSUME NEW ns \in SUBSET Nat, ns # {}
  PROVE  \E k \in ns : \A m \in ns : k <= m
<1> DEFINE R == OpToRel(<, Nat)
<1>1. R = {ss \in Nat \X Nat : ss[1] < ss[2]}
  BY Zenon DEF OpToRel
<1>2. IsWellFoundedOn(R, Nat)
  BY NatLessThanWellFounded, Zenon
<1> HIDE DEF R
<1>3. \E k \in ns : \A m \in ns : ~(<<m, k>> \in R)
  BY <1>2, WFMin, Zenon
<1>4. PICK k \in ns : \A m \in ns : ~(<<m, k>> \in R)
  BY <1>3
<1>5. ASSUME NEW m \in ns PROVE k <= m
  <2>1. m \in Nat /\ k \in Nat
    OBVIOUS
  <2>2. ~(<<m, k>> \in {ss \in Nat \X Nat : ss[1] < ss[2]})
    BY <1>1, <1>4
  <2> QED BY <2>1, <2>2
<1> QED
  BY <1>5

\* The default that is chosen is one that is enabled, if there is any, and the given
\* one if that is enabled.
LEMMA ChosenIsOn ==
  ASSUME NEW list \in Seq(Provider), NEW def \in AnyDefault
  PROVE  /\ Chosen(list, def) \in AnyDefault
         /\ Chosen(list, def) = NoProv <=> On(list) = {}
         /\ Chosen(list, def) # NoProv => \E n \in On(list) : list[n].id = Chosen(list, def)
         /\ (\E n \in On(list) : list[n].id = def) => Chosen(list, def) = def
<1>1. On(list) \subseteq 1 .. Len(list) /\ On(list) \subseteq DOMAIN list
  BY DEF On
<1>2. \A n \in On(list) : list[n] \in Provider /\ list[n].id \in ProvId
  <2>1. \A n \in On(list) : list[n] \in Provider
    BY <1>1
  <2> QED
    BY <2>1 DEF Provider
<1>3. CASE \E n \in On(list) : list[n].id = def
  BY <1>2, <1>3, RegistryFacts DEF Chosen, AnyDefault
<1>4. CASE On(list) = {}
  BY <1>4 DEF Chosen, AnyDefault
<1>5. CASE On(list) # {} /\ ~\E n \in On(list) : list[n].id = def
  <2>1. PICK k \in On(list) : \A m \in On(list) : k <= m
    BY <1>1, <1>5, LeastOf
  <2>2. \A k2 \in On(list) : (\A m \in On(list) : k2 <= m) => k2 = k
    BY <1>1, <2>1
  <2>3. Chosen(list, def) = list[k].id
    BY <1>5, <2>1, <2>2 DEF Chosen
  <2> QED
    BY <1>2, <1>5, <2>1, <2>3, RegistryFacts DEF AnyDefault
<1> QED
  BY <1>3, <1>4, <1>5

LEMMA NormalIsSound ==
  ASSUME NEW list \in Seq(Provider), NEW def \in AnyDefault,
         Distinct(list), \A n \in DOMAIN list : HasKey(list[n])
  PROVE  LET c == Normal(list, def)
         IN  /\ SoundRegistry(c)
             /\ DOMAIN c.list = DOMAIN list /\ On(c.list) = On(list)
             /\ \A n \in DOMAIN list : c.list[n].id = list[n].id
             /\ c.def = Chosen(list, def)
<1> DEFINE chosen == Chosen(list, def)
           marked == [n \in DOMAIN list |-> [list[n] EXCEPT !.flag = list[n].id = chosen]]
<1>1. Normal(list, def) = Holds(marked, chosen)
  BY DEF Normal
<1>2. \A n \in DOMAIN list : list[n] \in Provider
  OBVIOUS
<1>3. /\ chosen \in AnyDefault
      /\ chosen = NoProv <=> On(list) = {}
      /\ chosen # NoProv => \E n \in On(list) : list[n].id = chosen
  BY ChosenIsOn
<1> HIDE DEF chosen
<1>4. \A n \in DOMAIN list :
         /\ marked[n] \in Provider
         /\ marked[n].id = list[n].id /\ marked[n].name = list[n].name
         /\ marked[n].key = list[n].key /\ marked[n].on = list[n].on
         /\ marked[n].flag = (list[n].id = chosen)
  BY <1>2 DEF Provider
<1>5. marked \in Seq(Provider) /\ DOMAIN marked = DOMAIN list
  <2>1. DOMAIN marked = DOMAIN list /\ DOMAIN list = 1 .. Len(list) /\ Len(list) \in Nat
    OBVIOUS
  <2>2. marked = [n \in DOMAIN marked |-> marked[n]]
    OBVIOUS
  <2> HIDE DEF marked
  <2>3. marked \in [1 .. Len(list) -> Provider]
    BY <1>4, <2>1, <2>2
  <2> QED
    BY <2>1, <2>3, SeqDef
<1> HIDE DEF marked
<1>6. On(marked) = On(list)
  BY <1>4, <1>5 DEF On
<1>7. Distinct(marked)
  BY <1>4, <1>5 DEF Distinct
<1>8. \A n \in DOMAIN marked : HasKey(marked[n])
  BY <1>4, <1>5 DEF HasKey
<1>9. \A n \in On(list) : n \in DOMAIN list
  BY DEF On
<1>10. SoundRegistry(Holds(marked, chosen))
  <2>1. Holds(marked, chosen) \in ReadRegistry
    BY <1>3, <1>5 DEF Holds, ReadRegistry
  <2>2. Sound(Holds(marked, chosen))
    BY <1>3, <1>4, <1>5, <1>6, <1>7, <1>8, <1>9 DEF Sound, Holds
  <2> QED
    BY <2>1, <2>2 DEF SoundRegistry
<1> QED
  BY <1>1, <1>4, <1>5, <1>6, <1>10 DEF Holds, chosen

\* A registry that was saved loads as it was.
LEMMA SoundLoadsAsItIs ==
  ASSUME NEW c, SoundRegistry(c)
  PROVE  Normal(Reconciled(c.list), c.def) = c
<1>1. c \in ReadRegistry /\ Sound(c)
  BY DEF SoundRegistry
<1>2. c = [list |-> c.list, def |-> c.def, is |-> "read"] /\ c.list \in Seq(Provider) /\ c.def \in AnyDefault
  BY <1>1 DEF ReadRegistry
<1>3. \A n \in DOMAIN c.list : c.list[n] \in Provider
  BY <1>2
<1>4. \A n \in DOMAIN c.list : c.list[n].key = NoKey => ~c.list[n].on /\ ~c.list[n].flag
  <2> SUFFICES ASSUME NEW n \in DOMAIN c.list, c.list[n].key = NoKey, c.list[n].flag
               PROVE  c.list[n].on
    BY <1>1, <1>3 DEF Sound, HasKey, Provider
  <2>1. c.list[n].id = c.def
    BY <1>1 DEF Sound
  <2>2. c.def # NoProv
    BY <1>3, <2>1, RegistryFacts DEF Provider
  <2>3. PICK m \in On(c.list) : c.list[m].id = c.def
    BY <1>1, <2>2 DEF Sound
  <2> QED
    BY <1>1, <2>1, <2>3 DEF Sound, Distinct, On
<1>5. \A n \in DOMAIN c.list : c.list[n].key = NoKey =>
         [c.list[n] EXCEPT !.on = FALSE, !.flag = FALSE] = c.list[n]
  BY <1>3, <1>4 DEF Provider
<1>6. Reconciled(c.list) = c.list
  <2> DEFINE off(n) == IF c.list[n].key = NoKey
                       THEN [c.list[n] EXCEPT !.on = FALSE, !.flag = FALSE] ELSE c.list[n]
  <2>1. \A n \in DOMAIN c.list : off(n) = c.list[n]
    BY <1>5, Zenon
  <2>2. Reconciled(c.list) = [n \in DOMAIN c.list |-> off(n)]
    BY Zenon DEF Reconciled
  <2> HIDE DEF off
  <2> QED
    BY <1>2, <2>1, <2>2
<1>7. Chosen(c.list, c.def) = c.def
  BY <1>1, <1>2, ChosenIsOn DEF Sound
<1>8. \A n \in DOMAIN c.list : [c.list[n] EXCEPT !.flag = c.list[n].id = c.def] = c.list[n]
  BY <1>1, <1>3 DEF Sound, Provider
<1>9. [n \in DOMAIN c.list |-> [c.list[n] EXCEPT !.flag = c.list[n].id = c.def]] = c.list
  BY <1>2, <1>8
<1> QED
  BY <1>2, <1>6, <1>7, <1>9 DEF Normal, Holds

\* What the file has that loads is made sound by loading it.
LEMMA LoadedIsSound ==
  ASSUME stored \in {NoRegistry, TornRegistry} \cup ReadRegistry
  PROVE  \A c \in Loadable : SoundRegistry(c)
<1>1. CASE stored = NoRegistry
  <2>1. Loadable = {Holds(<<>>, NoProv)}
    BY <1>1, RegistryFacts DEF Loadable
  <2>2. <<>> \in Seq(Provider) /\ DOMAIN <<>> = {}
    OBVIOUS
  <2>3. SoundRegistry(Holds(<<>>, NoProv))
    BY <2>2 DEF SoundRegistry, ReadRegistry, Sound, Holds, AnyDefault, Distinct, On
  <2> QED
    BY <2>1, <2>3
<1>2. CASE stored = TornRegistry
  BY <1>2, RegistryFacts DEF Loadable
<1>3. CASE stored \in ReadRegistry
  <2>1. stored # NoRegistry /\ stored # TornRegistry
    BY <1>3, RegistryFacts
  <2>2. stored.list \in Seq(Provider) /\ stored.def \in AnyDefault
    BY <1>3 DEF ReadRegistry
  <2>3. Loadable = IF Distinct(stored.list) THEN {Normal(Reconciled(stored.list), stored.def)} ELSE {}
    BY <2>1 DEF Loadable
  <2> SUFFICES ASSUME Distinct(stored.list)
               PROVE  SoundRegistry(Normal(Reconciled(stored.list), stored.def))
    BY <2>3
  <2> DEFINE list == stored.list
             given == Reconciled(list)
  <2>4. \A n \in DOMAIN list : list[n] \in Provider
    BY <2>2
  <2>5. DOMAIN given = DOMAIN list
        /\ \A n \in DOMAIN list : given[n] = IF list[n].key = NoKey
                                             THEN [list[n] EXCEPT !.on = FALSE, !.flag = FALSE]
                                             ELSE list[n]
    BY Zenon DEF Reconciled
  <2>6. \A n \in DOMAIN list :
          /\ given[n] \in Provider /\ HasKey(given[n])
          /\ given[n].id = list[n].id /\ given[n].name = list[n].name
    <3> SUFFICES ASSUME NEW n \in DOMAIN list
                 PROVE  /\ given[n] \in Provider /\ HasKey(given[n])
                        /\ given[n].id = list[n].id /\ given[n].name = list[n].name
      OBVIOUS
    <3>1. list[n] \in Provider
      BY <2>4
    <3>2. given[n] = IF list[n].key = NoKey THEN [list[n] EXCEPT !.on = FALSE, !.flag = FALSE] ELSE list[n]
      BY <2>5
    <3> HIDE DEF given, list
    <3> QED
      BY <3>1, <3>2 DEF Provider, HasKey
  <2>7. given \in Seq(Provider)
    <3>1. DOMAIN list = 1 .. Len(list) /\ Len(list) \in Nat
      BY <2>2
    <3>2. given = [n \in DOMAIN given |-> given[n]]
      BY Zenon DEF Reconciled
    <3> HIDE DEF given, list
    <3>3. given \in [1 .. Len(list) -> Provider]
      BY <2>5, <2>6, <3>1, <3>2
    <3> QED
      BY <3>1, <3>3, SeqDef
  <2>8. Distinct(given)
    <3>1. Distinct(list) /\ DOMAIN given = DOMAIN list
      BY <2>5
    <3> HIDE DEF given, list
    <3> QED
      BY <2>6, <3>1 DEF Distinct
  <2>9. \A n \in DOMAIN given : HasKey(given[n])
    BY <2>5, <2>6
  <2> HIDE DEF given
  <2>10. SoundRegistry(Normal(given, stored.def))
    BY <2>2, <2>7, <2>8, <2>9, NormalIsSound
  <2> QED
    BY <2>10 DEF given
<1> QED
  BY <1>1, <1>2, <1>3

-----------------------------------------------------------------------------
(* Providers: the changes *)

LlmOps == {"add", "update", "remove", "default", "enable", "disable"}

\* The default of c is the provider k, or k is not an enabled one of c.
DefaultIs(c, k) == c.def = k \/ ~\E n \in On(c.list) : c.list[n].id = k

\* What a change of c makes: a sound registry, whose default is still the one of c
\* unless the request was for another.
GoodChange(c, q, d) ==
  /\ SoundRegistry(d)
  /\ q.op # "default" /\ c.def # NoProv =>
       DefaultIs(d, IF q.op = "update" /\ q.id = c.def THEN q.new[1].id ELSE c.def)

LEMMA NormalIsGood ==
  ASSUME NEW list \in Seq(Provider), NEW def \in AnyDefault,
         Distinct(list), \A n \in DOMAIN list : HasKey(list[n])
  PROVE  /\ SoundRegistry(Normal(list, def))
         /\ DefaultIs(Normal(list, def), def)
<1> DEFINE c == Normal(list, def)
<1>1. /\ SoundRegistry(c) /\ DOMAIN c.list = DOMAIN list /\ On(c.list) = On(list)
      /\ \A n \in DOMAIN list : c.list[n].id = list[n].id
      /\ c.def = Chosen(list, def)
  BY NormalIsSound, Zenon
<1>2. (\E n \in On(list) : list[n].id = def) => Chosen(list, def) = def
  BY ChosenIsOn
<1>3. On(list) \subseteq DOMAIN list
  BY DEF On
<1> HIDE DEF c
<1>4. DefaultIs(c, def)
  BY <1>1, <1>2, <1>3 DEF DefaultIs
<1> QED
  BY <1>1, <1>4 DEF c

LEMMA IndexIsInList ==
  ASSUME NEW list \in Seq(Provider), NEW id, InList(list, id)
  PROVE  Index(list, id) \in 1 .. Len(list) /\ list[Index(list, id)].id = id
<1>1. \E n \in DOMAIN list : list[n].id = id
  BY DEF InList, Ids
<1> QED
  BY <1>1 DEF Index

LEMMA AddedIsGood ==
  ASSUME NEW c, SoundRegistry(c), NEW p \in Provider, NEW d \in Added(c, p)
  PROVE  SoundRegistry(d) /\ DefaultIs(d, c.def)
<1> DEFINE shown == [p EXCEPT !.flag = FALSE]
           list == Append(c.list, shown)
<1>1. c.list \in Seq(Provider) /\ c.def \in AnyDefault /\ Sound(c)
  BY DEF SoundRegistry, ReadRegistry
<1>2. HasKey(p) /\ Distinct(Append(c.list, p)) /\ d = Normal(list, c.def)
  BY DEF Added
<1>3. /\ shown \in Provider /\ shown.id = p.id /\ shown.name = p.name
      /\ shown.key = p.key /\ shown.on = p.on
  BY DEF Provider
<1> HIDE DEF shown
<1>4. list \in Seq(Provider) /\ Len(list) = Len(c.list) + 1 /\ DOMAIN list = 1 .. Len(list)
  BY <1>1, <1>3
<1>5. \A n \in DOMAIN list : list[n] = IF n = Len(list) THEN shown ELSE c.list[n]
  BY <1>1, <1>3, <1>4
<1>6. DOMAIN Append(c.list, p) = DOMAIN list
      /\ \A n \in DOMAIN list : Append(c.list, p)[n] = IF n = Len(list) THEN p ELSE c.list[n]
  BY <1>1, <1>4
<1>7. \A n \in DOMAIN list : n # Len(list) => n \in DOMAIN c.list
  BY <1>1, <1>4
<1>8. \A n \in DOMAIN list : list[n].id = Append(c.list, p)[n].id /\ list[n].name = Append(c.list, p)[n].name
  BY <1>3, <1>5, <1>6
<1> HIDE DEF list
<1>9. Distinct(list)
  BY <1>2, <1>6, <1>8 DEF Distinct
<1>10. \A n \in DOMAIN list : HasKey(list[n])
  BY <1>1, <1>2, <1>3, <1>5, <1>7 DEF HasKey, Sound
<1> QED
  BY <1>1, <1>2, <1>4, <1>9, <1>10, NormalIsGood

LEMMA ReconfiguredIsGood ==
  ASSUME NEW c, SoundRegistry(c), NEW p \in Provider, NEW id, NEW d \in Reconfigured(c, id, p)
  PROVE  SoundRegistry(d) /\ DefaultIs(d, IF c.def = id THEN p.id ELSE c.def)
<1> DEFINE i == Index(c.list, id)
           list == [c.list EXCEPT ![i] = p]
<1>1. c.list \in Seq(Provider) /\ c.def \in AnyDefault /\ Sound(c)
  BY DEF SoundRegistry, ReadRegistry
<1>2. HasKey(p) /\ InList(c.list, id) /\ Distinct(list) /\ d = Normal(list, DefaultFollowed(c, id, p))
  BY Zenon DEF Reconfigured
<1>3. i \in 1 .. Len(c.list)
  BY <1>1, <1>2, IndexIsInList
<1> HIDE DEF i
<1>4. list \in Seq(Provider) /\ DOMAIN list = DOMAIN c.list
      /\ \A n \in DOMAIN list : list[n] = IF n = i THEN p ELSE c.list[n]
  BY <1>1, <1>3
<1> HIDE DEF list
<1>5. \A n \in DOMAIN list : HasKey(list[n])
  BY <1>1, <1>2, <1>4 DEF Sound
<1>6. DefaultFollowed(c, id, p) \in AnyDefault
  BY <1>1 DEF DefaultFollowed, AnyDefault, Provider
<1>7. SoundRegistry(d) /\ DefaultIs(d, DefaultFollowed(c, id, p))
  BY <1>2, <1>4, <1>5, <1>6, NormalIsGood
<1> QED
  BY <1>7 DEF DefaultFollowed

LEMMA DeregisteredIsGood ==
  ASSUME NEW c, SoundRegistry(c), NEW id, NEW d \in Deregistered(c, id)
  PROVE  SoundRegistry(d) /\ (c.def # NoProv => DefaultIs(d, c.def))
<1> DEFINE i == Index(c.list, id)
           list == RemoveAt(c.list, i)
           def == IF c.def = id THEN NoProv ELSE c.def
<1>1. c.list \in Seq(Provider) /\ c.def \in AnyDefault /\ Sound(c)
  BY DEF SoundRegistry, ReadRegistry
<1>2. InList(c.list, id) /\ d = Normal(list, def)
  BY Zenon DEF Deregistered
<1>3. i \in 1 .. Len(c.list) /\ c.list[i].id = id
  BY <1>1, <1>2, IndexIsInList
<1> HIDE DEF i
<1> DEFINE from(n) == IF n < i THEN n ELSE n + 1
<1>4. /\ list \in Seq(Provider) /\ DOMAIN list = 1 .. (Len(c.list) - 1)
      /\ \A n \in DOMAIN list : list[n] = c.list[from(n)]
  <2>1. Len(c.list) \in Nat /\ i \in Nat
    BY <1>1, <1>3
  <2>2. SubSeq(c.list, 1, i - 1) \in Seq(Provider) /\ Len(SubSeq(c.list, 1, i - 1)) = i - 1
        /\ \A n \in 1 .. i - 1 : SubSeq(c.list, 1, i - 1)[n] = c.list[n]
    BY <1>1, <1>3, <2>1
  <2>3. SubSeq(c.list, i + 1, Len(c.list)) \in Seq(Provider)
        /\ Len(SubSeq(c.list, i + 1, Len(c.list))) = Len(c.list) - i
        /\ \A n \in 1 .. Len(c.list) - i : SubSeq(c.list, i + 1, Len(c.list))[n] = c.list[i + n]
    BY <1>1, <1>3, <2>1
  <2> DEFINE before == SubSeq(c.list, 1, i - 1)
             after == SubSeq(c.list, i + 1, Len(c.list))
  <2>4. list = before \o after
    BY DEF RemoveAt
  <2> HIDE DEF before, after
  <2>5. before \in Seq(Provider) /\ after \in Seq(Provider)
        /\ Len(before) = i - 1 /\ Len(after) = Len(c.list) - i
    BY <2>2, <2>3 DEF before, after
  <2>6. before \o after \in Seq(Provider) /\ Len(before \o after) = Len(c.list) - 1
        /\ \A n \in 1 .. Len(c.list) - 1 :
              (before \o after)[n] = IF n <= i - 1 THEN before[n] ELSE after[n - (i - 1)]
    BY <1>3, <2>1, <2>5
  <2>7. DOMAIN (before \o after) = 1 .. (Len(c.list) - 1)
    BY <2>6
  <2>8. ASSUME NEW n \in 1 .. (Len(c.list) - 1)
        PROVE  (before \o after)[n] = c.list[from(n)]
    <3>1. CASE n < i
      <4>1. n \in 1 .. i - 1 /\ n <= i - 1
        BY <2>1, <3>1
      <4> QED
        BY <2>2, <2>6, <3>1, <4>1 DEF before
    <3>2. CASE ~(n < i)
      <4>1. n - (i - 1) \in 1 .. Len(c.list) - i /\ ~(n <= i - 1) /\ i + (n - (i - 1)) = n + 1
        BY <2>1, <3>2
      <4>2. after[n - (i - 1)] = c.list[i + (n - (i - 1))]
        BY <2>3, <4>1 DEF after
      <4> QED
        BY <2>6, <3>2, <4>1, <4>2
    <3> QED
      BY <3>1, <3>2
  <2> QED
    BY <2>4, <2>6, <2>7, <2>8
<1>5. \A n \in DOMAIN list : from(n) \in DOMAIN c.list /\ from(n) # i
  BY <1>1, <1>3, <1>4
<1>6. \A m, n \in DOMAIN list : m # n => from(m) # from(n)
  BY <1>1, <1>3, <1>4
<1> HIDE DEF list, from
<1>7. Distinct(list)
  BY <1>1, <1>4, <1>5, <1>6 DEF Distinct, Sound
<1>8. \A n \in DOMAIN list : HasKey(list[n])
  BY <1>1, <1>4, <1>5 DEF Sound
<1>9. def \in AnyDefault
  BY <1>1 DEF AnyDefault
<1>10. SoundRegistry(d) /\ DefaultIs(d, def)
  BY <1>2, <1>4, <1>7, <1>8, <1>9, NormalIsGood
<1>11. CASE c.def # id
  BY <1>10, <1>11
<1>12. CASE c.def = id /\ c.def # NoProv
  <2>1. \A n \in DOMAIN list : list[n].id # id
    BY <1>1, <1>3, <1>4, <1>5 DEF Distinct, Sound
  <2> DEFINE e == Normal(list, def)
  <2>2. /\ DOMAIN e.list = DOMAIN list
        /\ \A n \in DOMAIN list : e.list[n].id = list[n].id
    BY <1>4, <1>7, <1>8, <1>9, NormalIsSound, Zenon
  <2> HIDE DEF e, def
  <2>3. ~\E n \in On(e.list) : e.list[n].id = id
    BY <2>1, <2>2 DEF On
  <2>4. e = d
    BY <1>2 DEF e
  <2> QED
    BY <1>10, <1>12, <2>3, <2>4 DEF DefaultIs
<1> QED
  BY <1>10, <1>11, <1>12

LEMMA MadeDefaultIsGood ==
  ASSUME NEW c, SoundRegistry(c), NEW id, NEW d \in MadeDefault(c, id)
  PROVE  SoundRegistry(d)
<1>1. c.list \in Seq(Provider) /\ c.def \in AnyDefault /\ Sound(c)
  BY DEF SoundRegistry, ReadRegistry
<1>2. InList(c.list, id) /\ d = Normal(c.list, id)
  BY DEF MadeDefault
<1>3. id \in AnyDefault
  <2>1. c.list[Index(c.list, id)] \in Provider /\ c.list[Index(c.list, id)].id = id
    BY <1>1, <1>2, IndexIsInList
  <2> QED
    BY <2>1 DEF Provider, AnyDefault
<1> QED
  BY <1>1, <1>2, <1>3, NormalIsGood DEF Sound

LEMMA SwitchedIsGood ==
  ASSUME NEW c, SoundRegistry(c), NEW id, NEW on \in BOOLEAN, NEW d \in Switched(c, id, on)
  PROVE  SoundRegistry(d) /\ DefaultIs(d, c.def)
<1> DEFINE i == Index(c.list, id)
           list == [c.list EXCEPT ![i].on = on]
<1>1. c.list \in Seq(Provider) /\ c.def \in AnyDefault /\ Sound(c)
  BY DEF SoundRegistry, ReadRegistry
<1>2. InList(c.list, id) /\ (on => c.list[i].key # NoKey) /\ d = Normal(list, c.def)
  BY Zenon DEF Switched, Provided
<1>3. i \in 1 .. Len(c.list)
  BY <1>1, <1>2, IndexIsInList
<1> HIDE DEF i
<1>4. \A n \in DOMAIN c.list : c.list[n] \in Provider
  BY <1>1
<1>5. /\ [c.list[i] EXCEPT !.on = on] \in Provider
      /\ [c.list[i] EXCEPT !.on = on].id = c.list[i].id
      /\ [c.list[i] EXCEPT !.on = on].name = c.list[i].name
      /\ [c.list[i] EXCEPT !.on = on].key = c.list[i].key
      /\ [c.list[i] EXCEPT !.on = on].on = on
  <2>1. c.list[i] \in Provider
    BY <1>1, <1>3
  <2> QED
    BY <2>1 DEF Provider
<1> DEFINE p == [c.list[i] EXCEPT !.on = on]
<1>6. list = [c.list EXCEPT ![i] = p]
  OBVIOUS
<1> HIDE DEF p
<1>7. list \in Seq(Provider) /\ DOMAIN list = DOMAIN c.list
      /\ \A n \in DOMAIN list : list[n] = IF n = i THEN p ELSE c.list[n]
  BY <1>1, <1>3, <1>5, <1>6 DEF p
<1> HIDE DEF list
<1>8. p.id = c.list[i].id /\ p.name = c.list[i].name /\ HasKey(p)
  BY <1>2, <1>5 DEF p, HasKey
<1>9. Distinct(list)
  <2>1. \A n \in DOMAIN list : list[n].id = c.list[n].id /\ list[n].name = c.list[n].name
    BY <1>7, <1>8
  <2> QED
    BY <1>1, <1>7, <2>1 DEF Distinct, Sound
<1>10. \A n \in DOMAIN list : HasKey(list[n])
  BY <1>1, <1>7, <1>8 DEF Sound
<1> QED
  BY <1>1, <1>2, <1>7, <1>9, <1>10, NormalIsGood

LEMMA ChangesAreGood ==
  ASSUME NEW c, SoundRegistry(c), NEW q, q.op \in LlmOps, q.new[1] \in Provider,
         NEW d \in ChangeOf(c, q)
  PROVE  GoodChange(c, q, d)
<1>1. CASE q.op = "add"
  <2>1. d \in Added(c, q.new[1])
    BY <1>1 DEF ChangeOf
  <2> QED
    BY <1>1, <2>1, AddedIsGood DEF GoodChange
<1>2. CASE q.op = "update"
  <2>1. d \in Reconfigured(c, q.id, q.new[1])
    BY <1>2 DEF ChangeOf
  <2>2. SoundRegistry(d) /\ DefaultIs(d, IF c.def = q.id THEN q.new[1].id ELSE c.def)
    BY <2>1, ReconfiguredIsGood
  <2> QED
    BY <1>2, <2>2 DEF GoodChange
<1>3. CASE q.op = "remove"
  <2>1. d \in Deregistered(c, q.id)
    BY <1>3 DEF ChangeOf
  <2> QED
    BY <1>3, <2>1, DeregisteredIsGood DEF GoodChange
<1>4. CASE q.op = "default"
  <2>1. d \in MadeDefault(c, q.id)
    BY <1>4 DEF ChangeOf
  <2> QED
    BY <1>4, <2>1, MadeDefaultIsGood DEF GoodChange
<1>5. CASE q.op = "enable"
  <2>1. d \in Switched(c, q.id, TRUE)
    BY <1>5 DEF ChangeOf
  <2> QED
    BY <1>5, <2>1, SwitchedIsGood DEF GoodChange
<1>6. CASE q.op = "disable"
  <2>1. d \in Switched(c, q.id, FALSE)
    BY <1>6 DEF ChangeOf
  <2> QED
    BY <1>6, <2>1, SwitchedIsGood DEF GoodChange
<1> QED
  BY <1>1, <1>2, <1>3, <1>4, <1>5, <1>6 DEF LlmOps

-----------------------------------------------------------------------------
(* Providers: the inductive invariant *)

MayRegistry == {NoRegistry} \cup ReadRegistry

LlmHandling ==
  [pc : {"idle", "existing", "read", "save", "saving", "answer"}, op : LlmOps \cup {"none"},
   id : AnyDefault, new : Seq(Provider), clone : MayRegistry, base : MayRegistry]

\* What a handler has: its request, and when it is about to save, a good change of
\* what it read.
HandlerInv(r) ==
  LET q == handling[r]
  IN  /\ q \in LlmHandling
      /\ q.pc # "idle" => q.op \in LlmOps /\ q.new # <<>>
      /\ q.pc \in {"save", "saving"} => GoodChange(q.base, q, q.clone)
      /\ q.pc = "saving" <=> r \in saver

ProvidersInv ==
  /\ stored \in {NoRegistry, TornRegistry} \cup ReadRegistry
  /\ known = NoRegistry \/ SoundRegistry(known)
  /\ handling = [r \in LlmRequest |-> handling[r]]
  /\ \A r \in LlmRequest : HandlerInv(r)
  /\ saver \in SUBSET LlmRequest
  /\ \A r, s \in saver : r = s
  /\ saver # {} => stored = TornRegistry
  /\ asks \in 0 .. MaxAsks /\ llmFaults \in 0 .. MaxLlmFaults
  /\ RestartFindsIt

LEMMA BoundsAreNat == MaxAsks \in Nat /\ MaxLlmFaults \in Nat
BY ProvidersAssumption

LEMMA UnaskedIsIdle ==
  Unasked \in LlmHandling /\ Unasked.pc = "idle"
<1>1. <<>> \in Seq(Provider)
  OBVIOUS
<1> QED
  BY <1>1 DEF Unasked, LlmHandling, MayRegistry, AnyDefault

LEMMA ProvidersInitInv == ProvidersInit => ProvidersInv
<1> SUFFICES ASSUME ProvidersInit PROVE ProvidersInv
  OBVIOUS
<1>1. stored \in {NoRegistry, TornRegistry} \cup ReadRegistry
  BY RegistriesAssumption DEF ProvidersInit, ReadRegistry, AnyDefault
<1>2. \A r \in LlmRequest : HandlerInv(r)
  BY UnaskedIsIdle DEF ProvidersInit, HandlerInv
<1>3. RestartFindsIt
  BY DEF ProvidersInit, RestartFindsIt
<1> QED
  BY <1>1, <1>2, <1>3, BoundsAreNat DEF ProvidersInit, ProvidersInv

\* Reading the registry leaves a sound one in memory, which is what was read.
LEMMA GetsIsSound ==
  ASSUME ProvidersInv, Gets
  PROVE  /\ saver = {}
         /\ known' = NoRegistry \/ SoundRegistry(known')
         /\ \A c \in Got : SoundRegistry(c) /\ c = known'
         /\ stored' = stored /\ saver' = saver => RestartFindsIt'
<1>1. saver = {} /\ known' = IF Got = {} THEN known ELSE CHOOSE c \in Got : TRUE
  BY DEF Gets
<1>2. CASE known # NoRegistry
  <2>1. Got = {known} /\ SoundRegistry(known)
    BY <1>2 DEF Got, ProvidersInv
  <2>2. known' = known
    BY <1>1, <2>1
  <2>3. stored' = stored /\ saver' = saver => RestartFindsIt'
    BY <2>2 DEF ProvidersInv, RestartFindsIt, Loadable
  <2> QED
    BY <1>1, <2>1, <2>2, <2>3
<1>3. CASE known = NoRegistry
  <2>1. Got = Loadable
    BY <1>3 DEF Got
  <2>2. \A c \in Loadable : SoundRegistry(c)
    BY LoadedIsSound DEF ProvidersInv
  <2>3. \A c, d \in Loadable : c = d
    BY Zenon DEF Loadable
  <2>4. CASE Loadable = {}
    <3>1. known' = NoRegistry
      BY <1>1, <1>3, <2>1, <2>4
    <3> QED
      BY <1>1, <2>1, <2>4, <3>1 DEF RestartFindsIt
  <2>5. CASE Loadable # {}
    <3>1. known' \in Loadable
      BY <1>1, <2>1, <2>5
    <3>2. Loadable = {known'}
      BY <2>3, <3>1
    <3>3. stored' = stored => Loadable' = Loadable
      BY Zenon DEF Loadable
    <3> QED
      BY <1>1, <2>1, <2>2, <3>1, <3>2, <3>3 DEF RestartFindsIt
  <2> QED
    BY <2>4, <2>5
<1> QED
  BY <1>2, <1>3

\* A handler that changes while the others stay and nobody enters or leaves a save.
LEMMA OneHandlerMoves ==
  ASSUME ProvidersInv, NEW r \in LlmRequest, NEW q \in LlmHandling,
         handling' = [handling EXCEPT ![r] = q], saver' = saver,
         q.pc # "idle" => q.op \in LlmOps /\ q.new # <<>>,
         q.pc = "save" => GoodChange(q.base, q, q.clone),
         q.pc # "saving", handling[r].pc # "saving"
  PROVE  handling' = [s \in LlmRequest |-> handling'[s]] /\ \A s \in LlmRequest : HandlerInv(s)'
<1>1. handling' = [s \in LlmRequest |-> handling'[s]]
      /\ \A s \in LlmRequest : handling'[s] = IF s = r THEN q ELSE handling[s]
  BY Zenon DEF ProvidersInv
<1>2. ASSUME NEW s \in LlmRequest PROVE HandlerInv(s)'
  <2>1. HandlerInv(s)
    BY DEF ProvidersInv
  <2>2. CASE s # r
    BY <1>1, <2>1, <2>2 DEF HandlerInv
  <2>3. CASE s = r
    <3>1. handling'[s] = q /\ s \notin saver'
      BY <1>1, <2>1, <2>3 DEF HandlerInv
    <3> QED
      BY <3>1 DEF HandlerInv
  <2> QED
    BY <2>2, <2>3
<1> QED
  BY <1>1, <1>2

LEMMA SubmitKeeps ==
  ASSUME ProvidersInv, NEW r \in LlmRequest, Submit(r)
  PROVE  ProvidersInv'
<1>1. PICK op \in LlmOps, id \in ProvId,
           p \in [id : ProvId, name : ProvName, key : ApiKey \cup {NoKey}, on : BOOLEAN, flag : {FALSE}] :
        handling' = [handling EXCEPT ![r] =
            [Unasked EXCEPT !.pc = IF op = "update" THEN "existing" ELSE "read",
                            !.op = op, !.id = id, !.new = <<p>>]]
  BY Zenon DEF Submit, LlmOps
<1> DEFINE q == [Unasked EXCEPT !.pc = IF op = "update" THEN "existing" ELSE "read",
                                !.op = op, !.id = id, !.new = <<p>>]
<1>2. q \in LlmHandling /\ q.op = op /\ q.new = <<p>> /\ q.pc \in {"existing", "read"}
  <2>1. p \in Provider
    BY DEF Provider
  <2>2. <<p>> \in Seq(Provider)
    BY <2>1
  <2> QED
    BY <2>2, UnaskedIsIdle DEF Unasked, LlmHandling, MayRegistry, AnyDefault
<1>3. <<p>> # <<>>
  OBVIOUS
<1> HIDE DEF q
<1>4. handling' = [handling EXCEPT ![r] = q] /\ handling[r].pc # "saving" /\ saver' = saver
      /\ stored' = stored /\ known' = known /\ llmFaults' = llmFaults
      /\ asks < MaxAsks /\ asks' = asks + 1
  BY <1>1 DEF Submit, HandlerAt, q
<1>5. handling' = [s \in LlmRequest |-> handling'[s]] /\ \A s \in LlmRequest : HandlerInv(s)'
  BY <1>2, <1>3, <1>4, OneHandlerMoves
<1>6. asks' \in 0 .. MaxAsks
  BY <1>4, BoundsAreNat DEF ProvidersInv
<1>7. RestartFindsIt'
  BY <1>4 DEF ProvidersInv, RestartFindsIt, Loadable
<1> QED
  BY <1>4, <1>5, <1>6, <1>7 DEF ProvidersInv

LEMMA ReadExistingKeeps ==
  ASSUME ProvidersInv, NEW r \in LlmRequest, ReadExisting(r)
  PROVE  ProvidersInv'
<1> DEFINE id == handling[r].id
           found == {Provided(c.list, id) : c \in {c \in Got : InList(c.list, id)}}
<1>1. handling[r].pc = "existing" /\ Gets /\ stored' = stored /\ saver' = saver
      /\ asks' = asks /\ llmFaults' = llmFaults
  BY DEF ReadExisting, HandlerAt
<1>2. /\ known' = NoRegistry \/ SoundRegistry(known')
      /\ \A c \in Got : SoundRegistry(c)
      /\ RestartFindsIt'
  BY <1>1, GetsIsSound
<1>3. /\ handling[r] \in LlmHandling /\ handling[r].op \in LlmOps
      /\ handling[r].new # <<>> /\ handling[r].new[1] \in Provider
  <2>1. HandlerInv(r)
    BY DEF ProvidersInv
  <2>2. handling[r] \in LlmHandling /\ handling[r].op \in LlmOps /\ handling[r].new # <<>>
    BY <1>1, <2>1 DEF HandlerInv
  <2>3. handling[r].new \in Seq(Provider)
    BY <2>2 DEF LlmHandling
  <2> QED
    BY <2>2, <2>3
<1>4. \A old \in found : old \in Provider
  <2> SUFFICES ASSUME NEW c \in Got, InList(c.list, id) PROVE Provided(c.list, id) \in Provider
    OBVIOUS
  <2>1. c.list \in Seq(Provider)
    BY <1>2 DEF SoundRegistry, ReadRegistry
  <2> QED
    BY <2>1, IndexIsInList DEF Provided
<1>5. \A old \in found : KeyOf(handling[r].new[1], old) \in Provider
  BY <1>3, <1>4 DEF KeyOf, Provider
<1>6. \/ \E p \in Provider : handling' = [handling EXCEPT ![r].pc = "read", ![r].new = <<p>>]
      \/ handling' = [handling EXCEPT ![r] = Unasked]
  <2> DEFINE submitted == {KeyOf(handling[r].new[1], old) : old \in found}
             Goes(p) == handling' = [handling EXCEPT ![r].pc = "read", ![r].new = <<p>>]
  <2>1. \/ \E p \in submitted : HasKey(p) /\ Goes(p)
        \/ handling' = [handling EXCEPT ![r] = Unasked]
    BY Zenon DEF ReadExisting, Answered
  <2>2. \A p \in submitted : p \in Provider
    BY <1>5
  <2> HIDE DEF Goes, submitted
  <2>3. (\E p \in Provider : Goes(p)) \/ handling' = [handling EXCEPT ![r] = Unasked]
    BY <2>1, <2>2, Zenon
  <2> QED
    BY <2>3, Zenon DEF Goes
<1>7. handling' = [s \in LlmRequest |-> handling'[s]] /\ \A s \in LlmRequest : HandlerInv(s)'
  <2>1. CASE handling' = [handling EXCEPT ![r] = Unasked]
    BY <1>1, <2>1, UnaskedIsIdle, OneHandlerMoves
  <2>2. ASSUME NEW p \in Provider, handling' = [handling EXCEPT ![r].pc = "read", ![r].new = <<p>>]
        PROVE  handling' = [s \in LlmRequest |-> handling'[s]] /\ \A s \in LlmRequest : HandlerInv(s)'
    <3> DEFINE q == [handling[r] EXCEPT !.pc = "read", !.new = <<p>>]
    <3>1. handling' = [handling EXCEPT ![r] = q]
      BY <2>2, Zenon DEF ProvidersInv
    <3>2. <<p>> \in Seq(Provider) /\ <<p>> # <<>>
      OBVIOUS
    <3>3. q \in LlmHandling /\ q.pc = "read" /\ q.op \in LlmOps /\ q.new # <<>>
      BY <1>3, <3>2 DEF LlmHandling
    <3> HIDE DEF q
    <3> QED
      BY <1>1, <3>1, <3>3, OneHandlerMoves
  <2> QED
    BY <1>6, <2>1, <2>2
<1> QED
  BY <1>1, <1>2, <1>7 DEF ProvidersInv

LEMMA ReadAndChangeKeeps ==
  ASSUME ProvidersInv, NEW r \in LlmRequest, ReadAndChange(r)
  PROVE  ProvidersInv'
<1>1. handling[r].pc = "read" /\ Gets /\ stored' = stored /\ saver' = saver
      /\ asks' = asks /\ llmFaults' = llmFaults
  BY DEF ReadAndChange, HandlerAt
<1>2. /\ known' = NoRegistry \/ SoundRegistry(known')
      /\ \A c \in Got : SoundRegistry(c) /\ c = known'
      /\ RestartFindsIt'
  BY <1>1, GetsIsSound
<1>3. /\ handling[r] \in LlmHandling /\ handling[r].op \in LlmOps
      /\ handling[r].new # <<>> /\ handling[r].new[1] \in Provider
  <2>1. HandlerInv(r)
    BY DEF ProvidersInv
  <2>2. handling[r] \in LlmHandling /\ handling[r].op \in LlmOps /\ handling[r].new # <<>>
    BY <1>1, <2>1 DEF HandlerInv
  <2>3. handling[r].new \in Seq(Provider)
    BY <2>2 DEF LlmHandling
  <2> QED
    BY <2>2, <2>3
<1>4. \/ \E c \in Got : \E d \in ChangeOf(c, handling[r]) :
           handling' = [handling EXCEPT ![r].pc = "save", ![r].clone = d, ![r].base = known']
      \/ handling' = [handling EXCEPT ![r] = Unasked]
  <2> DEFINE made == UNION {ChangeOf(c, handling[r]) : c \in Got}
             Goes(d) == handling' = [handling EXCEPT ![r].pc = "save", ![r].clone = d, ![r].base = known']
  <2>1. (\E d \in made : Goes(d)) \/ handling' = [handling EXCEPT ![r] = Unasked]
    BY Zenon DEF ReadAndChange, Answered
  <2> HIDE DEF Goes
  <2>2. (\E c \in Got : \E d \in ChangeOf(c, handling[r]) : Goes(d))
        \/ handling' = [handling EXCEPT ![r] = Unasked]
    BY <2>1
  <2> QED
    BY <2>2, Zenon DEF Goes
<1>5. handling' = [s \in LlmRequest |-> handling'[s]] /\ \A s \in LlmRequest : HandlerInv(s)'
  <2>1. CASE handling' = [handling EXCEPT ![r] = Unasked]
    BY <1>1, <2>1, UnaskedIsIdle, OneHandlerMoves
  <2>2. ASSUME NEW c \in Got, NEW d \in ChangeOf(c, handling[r]),
               handling' = [handling EXCEPT ![r].pc = "save", ![r].clone = d, ![r].base = known']
        PROVE  handling' = [s \in LlmRequest |-> handling'[s]] /\ \A s \in LlmRequest : HandlerInv(s)'
    <3>1. GoodChange(c, handling[r], d) /\ c = known' /\ SoundRegistry(c)
      BY <1>2, <1>3, ChangesAreGood
    <3>2. d \in MayRegistry /\ c \in MayRegistry
      BY <3>1 DEF GoodChange, SoundRegistry, MayRegistry
    <3> DEFINE q == [handling[r] EXCEPT !.pc = "save", !.clone = d, !.base = c]
    <3>3. handling' = [handling EXCEPT ![r] = q]
      BY <2>2, <3>1, Zenon DEF ProvidersInv
    <3>4. /\ q \in LlmHandling /\ q.pc = "save" /\ q.clone = d /\ q.base = c
          /\ q.op = handling[r].op /\ q.new = handling[r].new /\ q.id = handling[r].id
      BY <1>3, <3>2 DEF LlmHandling
    <3> HIDE DEF q
    <3>5. GoodChange(q.base, q, q.clone)
      BY <3>1, <3>4 DEF GoodChange
    <3> QED
      BY <1>1, <1>3, <3>3, <3>4, <3>5, OneHandlerMoves
  <2> QED
    BY <1>4, <2>1, <2>2
<1> QED
  BY <1>1, <1>2, <1>5 DEF ProvidersInv

LEMMA BeginSaveKeeps ==
  ASSUME ProvidersInv, NEW r \in LlmRequest, BeginSave(r)
  PROVE  ProvidersInv'
<1>1. handling[r].pc = "save" /\ saver = {} /\ saver' = {r} /\ stored' = TornRegistry
      /\ handling' = [handling EXCEPT ![r].pc = "saving"]
      /\ known' = known /\ asks' = asks /\ llmFaults' = llmFaults
  BY DEF BeginSave, HandlerAt, HandlerGoes
<1> DEFINE q == [handling[r] EXCEPT !.pc = "saving"]
<1>2. HandlerInv(r)
  BY DEF ProvidersInv
<1>3. handling[r] \in LlmHandling
  BY <1>2 DEF HandlerInv
<1>4. /\ q \in LlmHandling /\ q.pc = "saving" /\ q.clone = handling[r].clone /\ q.base = handling[r].base
      /\ q.op = handling[r].op /\ q.new = handling[r].new /\ q.id = handling[r].id
  BY <1>3 DEF LlmHandling
<1>5. handling' = [s \in LlmRequest |-> handling'[s]]
      /\ \A s \in LlmRequest : handling'[s] = IF s = r THEN q ELSE handling[s]
  BY <1>1, Zenon DEF ProvidersInv
<1> HIDE DEF q
<1>6. GoodChange(q.base, q, q.clone)
  BY <1>1, <1>2, <1>4 DEF HandlerInv, GoodChange
<1>7. ASSUME NEW s \in LlmRequest PROVE HandlerInv(s)'
  <2>1. HandlerInv(s)
    BY DEF ProvidersInv
  <2>2. CASE s # r
    BY <1>1, <1>5, <2>1, <2>2 DEF HandlerInv
  <2>3. CASE s = r
    <3>1. handling'[s] = q /\ s \in saver'
      BY <1>1, <1>5, <2>3
    <3> QED
      BY <1>1, <1>2, <1>4, <1>6, <3>1 DEF HandlerInv
  <2> QED
    BY <2>2, <2>3
<1> QED
  BY <1>1, <1>5, <1>7 DEF ProvidersInv, RestartFindsIt

LEMMA EndSaveKeeps ==
  ASSUME ProvidersInv, NEW r \in LlmRequest, EndSave(r)
  PROVE  ProvidersInv'
<1>1. handling[r].pc = "saving" /\ saver' = {} /\ stored' = handling[r].clone
      /\ known' = handling[r].clone /\ handling' = [handling EXCEPT ![r].pc = "answer"]
      /\ asks' = asks /\ llmFaults' = llmFaults
  BY DEF EndSave, HandlerAt, HandlerGoes, SavedCopy
<1> DEFINE q == [handling[r] EXCEPT !.pc = "answer"]
           c == handling[r].clone
<1>2. HandlerInv(r)
  BY DEF ProvidersInv
<1>3. handling[r] \in LlmHandling /\ SoundRegistry(c) /\ saver = {r}
  BY <1>1, <1>2 DEF HandlerInv, GoodChange, ProvidersInv
<1>4. /\ q \in LlmHandling /\ q.pc = "answer" /\ q.op = handling[r].op /\ q.new = handling[r].new
  BY <1>3 DEF LlmHandling
<1>5. handling' = [s \in LlmRequest |-> handling'[s]]
      /\ \A s \in LlmRequest : handling'[s] = IF s = r THEN q ELSE handling[s]
  BY <1>1, Zenon DEF ProvidersInv
<1> HIDE DEF q, c
<1>6. ASSUME NEW s \in LlmRequest PROVE HandlerInv(s)'
  <2>1. HandlerInv(s)
    BY DEF ProvidersInv
  <2>2. CASE s # r
    BY <1>1, <1>3, <1>5, <2>1, <2>2 DEF HandlerInv
  <2>3. CASE s = r
    <3>1. handling'[s] = q /\ s \notin saver'
      BY <1>1, <1>5, <2>3
    <3> QED
      BY <1>1, <1>2, <1>4, <3>1 DEF HandlerInv
  <2> QED
    BY <2>2, <2>3
<1>7. c \in ReadRegistry /\ stored' = c /\ known' = c
  BY <1>1, <1>3 DEF SoundRegistry, c
<1>8. RestartFindsIt'
  <2>1. Distinct(c.list) /\ Normal(Reconciled(c.list), c.def) = c
    BY <1>3, SoundLoadsAsItIs DEF SoundRegistry, Sound
  <2>2. c # NoRegistry /\ c # TornRegistry
    BY <1>7, RegistryFacts
  <2>3. Loadable' = {c}
    BY <1>7, <2>1, <2>2 DEF Loadable
  <2> QED
    BY <1>7, <2>3 DEF RestartFindsIt
<1> QED
  BY <1>1, <1>3, <1>5, <1>6, <1>7, <1>8 DEF ProvidersInv

LEMMA FailSaveKeeps ==
  ASSUME ProvidersInv, NEW r \in LlmRequest, FailSave(r)
  PROVE  ProvidersInv'
<1>1. handling[r].pc = "saving" /\ saver' = {} /\ stored' = stored
      /\ known' = known /\ handling' = [handling EXCEPT ![r] = Unasked]
      /\ asks' = asks /\ llmFaults < MaxLlmFaults /\ llmFaults' = llmFaults + 1
  BY DEF FailSave, HandlerAt, Answered
<1>2. HandlerInv(r)
  BY DEF ProvidersInv
<1>3. saver = {r}
  BY <1>1, <1>2 DEF HandlerInv, ProvidersInv
<1>8. stored = TornRegistry
  BY <1>3 DEF ProvidersInv
<1>4. handling' = [s \in LlmRequest |-> handling'[s]]
      /\ \A s \in LlmRequest : handling'[s] = IF s = r THEN Unasked ELSE handling[s]
  BY <1>1, Zenon DEF ProvidersInv
<1>5. ASSUME NEW s \in LlmRequest PROVE HandlerInv(s)'
  <2>1. HandlerInv(s)
    BY DEF ProvidersInv
  <2>2. CASE s # r
    BY <1>1, <1>3, <1>4, <2>1, <2>2 DEF HandlerInv
  <2>3. CASE s = r
    BY <1>1, <1>4, <2>3, UnaskedIsIdle DEF HandlerInv
  <2> QED
    BY <2>2, <2>3
<1>6. llmFaults' \in 0 .. MaxLlmFaults
  BY <1>1, BoundsAreNat DEF ProvidersInv
<1>7. RestartFindsIt'
  BY <1>1, <1>8 DEF RestartFindsIt
<1> QED
  BY <1>1, <1>4, <1>5, <1>6, <1>7 DEF ProvidersInv

LEMMA ReplyKeeps ==
  ASSUME ProvidersInv, NEW r \in LlmRequest, Reply(r)
  PROVE  ProvidersInv'
<1>1. handling[r].pc # "saving" /\ saver' = saver /\ stored' = stored /\ known' = known
      /\ handling' = [handling EXCEPT ![r] = Unasked] /\ asks' = asks /\ llmFaults' = llmFaults
  BY DEF Reply, HandlerAt, Answered
<1>2. handling' = [s \in LlmRequest |-> handling'[s]] /\ \A s \in LlmRequest : HandlerInv(s)'
  BY <1>1, UnaskedIsIdle, OneHandlerMoves
<1>3. RestartFindsIt'
  BY <1>1 DEF ProvidersInv, RestartFindsIt, Loadable
<1> QED
  BY <1>1, <1>2, <1>3 DEF ProvidersInv

LEMMA ProvidersStepInv == ProvidersInv /\ [ProvidersNext]_llmVars => ProvidersInv'
<1> SUFFICES ASSUME ProvidersInv, [ProvidersNext]_llmVars PROVE ProvidersInv'
  OBVIOUS
<1>1. CASE UNCHANGED llmVars
  <2>1. stored' = stored /\ known' = known /\ saver' = saver /\ handling' = handling
        /\ asks' = asks /\ llmFaults' = llmFaults
    BY <1>1 DEF llmVars
  <2>2. RestartFindsIt'
    BY <2>1 DEF ProvidersInv, RestartFindsIt, Loadable
  <2> QED
    BY <2>1, <2>2 DEF ProvidersInv, HandlerInv
<1>2. CASE Resolve
  <2>1. Gets /\ stored' = stored /\ saver' = saver /\ handling' = handling
        /\ asks' = asks /\ llmFaults' = llmFaults
    BY <1>2 DEF Resolve
  <2>2. (known' = NoRegistry \/ SoundRegistry(known')) /\ RestartFindsIt'
    BY <2>1, GetsIsSound
  <2> QED
    BY <2>1, <2>2 DEF ProvidersInv, HandlerInv
<1>3. CASE LlmCrash
  <2>1. known' = NoRegistry /\ saver' = {} /\ stored' = stored /\ asks' = asks
        /\ handling' = [r \in LlmRequest |-> Unasked]
        /\ llmFaults < MaxLlmFaults /\ llmFaults' = llmFaults + 1
    BY <1>3 DEF LlmCrash
  <2>2. \A r \in LlmRequest : HandlerInv(r)'
    BY <2>1, UnaskedIsIdle DEF HandlerInv
  <2>3. llmFaults' \in 0 .. MaxLlmFaults
    BY <2>1, BoundsAreNat DEF ProvidersInv
  <2>4. handling' = [r \in LlmRequest |-> handling'[r]]
    BY <2>1
  <2> QED
    BY <2>1, <2>2, <2>3, <2>4 DEF ProvidersInv, RestartFindsIt
<1>4. CASE \E r \in LlmRequest : \/ Submit(r) \/ ReadExisting(r) \/ ReadAndChange(r)
                                \/ BeginSave(r) \/ EndSave(r) \/ FailSave(r) \/ Reply(r)
  BY <1>4, SubmitKeeps, ReadExistingKeeps, ReadAndChangeKeeps, BeginSaveKeeps, EndSaveKeeps,
     FailSaveKeeps, ReplyKeeps
<1> QED
  BY <1>1, <1>2, <1>3, <1>4 DEF ProvidersNext

\* Whatever handlers read, save over each other and leave half done, and whatever an
\* older version left in the file: the registry in memory is one that every message can
\* be resolved with, a restart finds it, and no change picks another default unasked.
THEOREM RegistryIsKeptAlways == ProvidersSpec => []RegistryIsKept
<1>1. ProvidersInv => RegistryIsKept
  <2> SUFFICES ASSUME ProvidersInv PROVE RegistryIsKept
    OBVIOUS
  <2>1. ProvidersTypeOK
    <3>1. /\ stored.is \in {"absent", "torn", "read"} /\ stored.def \in AnyDefault
          /\ stored.list \in Seq(Provider)
      <4>1. <<>> \in Seq(Provider)
        OBVIOUS
      <4>2. CASE stored = NoRegistry
        BY <4>1, <4>2 DEF NoRegistry, AnyDefault
      <4>3. CASE stored = TornRegistry
        BY <4>1, <4>3 DEF TornRegistry, AnyDefault
      <4>4. CASE stored \in ReadRegistry
        BY <4>4 DEF ReadRegistry
      <4> QED
        BY <4>2, <4>3, <4>4 DEF ProvidersInv
    <3>2. /\ known.is \in {"absent", "read"} /\ known.def \in AnyDefault
          /\ known.list \in Seq(Provider)
      <4>1. <<>> \in Seq(Provider)
        OBVIOUS
      <4>2. CASE known = NoRegistry
        BY <4>1, <4>2 DEF NoRegistry, AnyDefault
      <4>3. CASE SoundRegistry(known)
        BY <4>3 DEF SoundRegistry, ReadRegistry
      <4> QED
        BY <4>2, <4>3 DEF ProvidersInv
    <3>3. ToSet(stored.list) \subseteq Provider /\ ToSet(known.list) \subseteq Provider
      BY <3>1, <3>2 DEF ToSet
    <3> QED
      BY <3>1, <3>2, <3>3 DEF ProvidersTypeOK, ProvidersInv, AnyDefault
  <2>2. RegistryIsSound
    <3>1. CASE known = NoRegistry
      <4>1. known.list = <<>> /\ DOMAIN known.list = {} /\ known.def = NoProv
        BY <3>1 DEF NoRegistry
      <4> QED
        BY <4>1 DEF RegistryIsSound, Distinct, On
    <3>2. CASE SoundRegistry(known)
      BY <3>2 DEF SoundRegistry, Sound, RegistryIsSound
    <3> QED
      BY <3>1, <3>2 DEF ProvidersInv
  <2>3. DefaultStaysChosen
    <3> SUFFICES ASSUME NEW r \in LlmRequest, handling[r].pc = "save",
                        handling[r].base.def # NoProv, handling[r].op # "default"
                 PROVE  DefaultIs(handling[r].clone, Carried(handling[r]))
      BY DEF DefaultStaysChosen, DefaultIs, HandlerAt
    <3>1. GoodChange(handling[r].base, handling[r], handling[r].clone)
      BY DEF ProvidersInv, HandlerInv
    <3> QED
      BY <3>1, Zenon DEF GoodChange, Carried
  <2> QED
    BY <2>1, <2>2, <2>3 DEF RegistryIsKept, ProvidersInv
<1> QED
  BY <1>1, ProvidersInitInv, ProvidersStepInv, PTL DEF ProvidersSpec

-----------------------------------------------------------------------------
(* Skills: the inductive invariant *)

InstallSteps == {"install", "setAside", "place", "drop"}

SkillChange ==
  [at : {"none", "store", "installed", "done", "refused", "down"} \cup InstallSteps,
   id : Skill \cup {NoSkill}, prev : Capability, auditLen : Nat, start : BOOLEAN,
   undoing : BOOLEAN, unsaved : BOOLEAN, failed : SUBSET Skill, was : [Skill -> Version],
   todo : SUBSET Skill, installing : Skill \cup {NoSkill}, copy : Version, aside : Directory]

ControlFile == [ok : BOOLEAN, caps : [Skill -> Capability], audits : Seq(Nat)]

ControlTypes ==
  /\ caps \in [Skill -> Capability] /\ controlFile \in ControlFile
  /\ audits \in Seq(Nat) /\ Len(audits) <= AuditLimit
  /\ source \in [Skill -> Version] /\ dest \in [Skill -> Directory]
  /\ kept = [i \in Skill |-> kept[i]]
  /\ change \in SkillChange
  /\ changes \in Nat /\ controlFaults \in Nat

\* The change that is made can be taken back, or it was.
ChangeInv ==
  LET c == change
  IN  /\ c.at = "store" => ~c.undoing /\ ~c.start
      /\ c.at \in {"store", "installed"} \cup InstallSteps /\ ~c.undoing /\ ~c.start =>
           c.id \in Skill /\ c.auditLen <= Len(audits)
      /\ c.at \in {"done", "installed"} \cup InstallSteps /\ ~c.undoing =>
           controlFile = Saved(caps, audits)
      /\ c.undoing => /\ c.at \in {"installed", "refused"} \cup InstallSteps
                      /\ c.id \in Skill /\ caps[c.id] = c.prev
                      /\ ~c.unsaved => controlFile = Saved(caps, audits)
      /\ c.at = "refused" => caps[c.id] = c.prev

\* What codex finds, while a skill is installed and after it.
OverFor(c) == c.at \in {"installed", "done"} \/ (c.at = "refused" /\ c.undoing)
Placed(c, i) == dest[i].kind = "ours" /\ dest[i].version >= c.was[i]

InstallInv ==
  LET c == change
  IN  /\ c.installing = NoSkill => c.aside = NoDirectory
      /\ c.installing # NoSkill <=> c.at \in {"setAside", "place", "drop"}
      /\ c.installing # NoSkill => c.installing \in c.todo /\ dest[c.installing] # Foreign
      /\ c.at = "setAside" => c.aside = NoDirectory
      /\ c.at \in {"setAside", "place"} => c.copy >= c.was[c.installing]
      /\ c.at = "place" => dest[c.installing] = NoDirectory
      /\ c.at = "drop" => Placed(c, c.installing)
      /\ c.aside # Foreign
      /\ \A i \in Skill : c.was[i] <= source[i]
      /\ c.at \in InstallSteps => c.todo \subseteq Wanted(caps)
      /\ c.at \in InstallSteps => \A i \in Wanted(caps) \ (c.todo \cup c.failed) : Placed(c, i)
      /\ OverFor(c) => \A i \in Skill \ c.failed :
           IF i \in Wanted(caps) THEN Placed(c, i) ELSE ~HasMarker(dest[i]) /\ kept[i] = {}
      /\ c.at = "done" => ~c.undoing /\ (c.start \/ c.failed = {})

ControlInv == ControlTypes /\ ChangeInv /\ InstallInv

LEMMA DirectoryFacts ==
  /\ NoDirectory \in Directory /\ Foreign \in Directory /\ NoDirectory # Foreign /\ Damaged \in Directory
  /\ Damaged # Foreign /\ ~HasMarker(NoDirectory) /\ ~HasMarker(Foreign)
  /\ NoDirectory.kind # "ours" /\ Foreign.kind # "ours"
  /\ \A v \in Version : /\ Ours(v) \in Directory /\ Ours(v).kind = "ours" /\ Ours(v).version = v
                       /\ Ours(v) # Foreign /\ Ours(v) # NoDirectory
  /\ Absent \in Capability /\ NoSkill \notin Skill /\ IsFiniteSet(Skill) /\ 0 \in Version
  /\ Version \subseteq Nat /\ Wanted(caps) \subseteq Skill
<1>1. /\ NoDirectory \in Directory /\ Foreign \in Directory /\ Damaged \in Directory
      /\ \A v \in Version : Ours(v) \in Directory
  BY Zenon DEF Directory
<1>2. /\ NoDirectory # Foreign /\ NoDirectory.kind # "ours" /\ Foreign.kind # "ours" /\ Damaged # Foreign
      /\ \A v \in Version : Ours(v).kind = "ours" /\ Ours(v).version = v
      /\ ~HasMarker(NoDirectory) /\ ~HasMarker(Foreign)
  BY DEF NoDirectory, Foreign, Damaged, Ours, HasMarker
<1>3. NoSkill \notin Skill /\ IsFiniteSet(Skill) /\ Absent \in Capability /\ 0 \in Version
      /\ Version \subseteq Nat
  BY ControlAssumption DEF NoSkill, Capability, Version
<1>4. Wanted(caps) \subseteq Skill
  BY DEF Wanted
<1> QED
  BY <1>1, <1>2, <1>3, <1>4

LEMMA TrimmedFacts ==
  ASSUME NEW a \in Seq(Nat)
  PROVE  /\ Trimmed(a) \in Seq(Nat) /\ Len(Trimmed(a)) <= AuditLimit
         /\ Len(a) <= AuditLimit => Trimmed(a) = a
         /\ Len(a) > AuditLimit => Len(Trimmed(a)) = AuditLimit
<1>1. AuditLimit \in Nat /\ AuditLimit > 0 /\ Len(a) \in Nat
  BY ControlAssumption
<1>2. CASE Len(a) > AuditLimit
  <2> DEFINE first == Len(a) - AuditLimit + 1
  <2>1. first \in 1 .. Len(a)
    BY <1>1, <1>2
  <2>2. SubSeq(a, first, Len(a)) \in Seq(Nat) /\ Len(SubSeq(a, first, Len(a))) = Len(a) - first + 1
    BY <1>1, <2>1
  <2>3. Len(a) - first + 1 = AuditLimit
    BY <1>1
  <2> HIDE DEF first
  <2> QED
    BY <1>1, <1>2, <2>2, <2>3 DEF Trimmed, first
<1>3. CASE ~(Len(a) > AuditLimit)
  BY <1>1, <1>3 DEF Trimmed
<1> QED
  BY <1>2, <1>3

LEMMA NoChangeFacts ==
  /\ NoChange \in SkillChange /\ NoChange.at = "none" /\ NoChange.installing = NoSkill
  /\ NoChange.aside = NoDirectory /\ ~NoChange.undoing /\ ~NoChange.start
  /\ NoChange.was \in [Skill -> Version] /\ \A i \in Skill : NoChange.was[i] = 0
<1>1. [i \in Skill |-> 0] \in [Skill -> Version]
  BY DirectoryFacts
<1> QED
  BY <1>1, DirectoryFacts DEF NoChange, SkillChange, InstallSteps

\* A process that is down has no change under way.
LEMMA DownFacts ==
  LET q == [NoChange EXCEPT !.at = "down"]
  IN  /\ q \in SkillChange /\ q.at = "down" /\ q.installing = NoSkill /\ q.aside = NoDirectory
      /\ ~q.undoing /\ ~q.start /\ \A i \in Skill : q.was[i] = 0
BY NoChangeFacts DEF SkillChange, NoChange

LEMMA ControlInitInv == ControlInit => ControlInv
<1> SUFFICES ASSUME ControlInit PROVE ControlInv
  OBVIOUS
<1>1. PICK c \in [Skill -> Capability] : caps = c /\ controlFile = Saved(c, <<>>)
  <2>1. SkillEntry \cup {Absent} \subseteq Capability
    BY ControlAssumption, DirectoryFacts
  <2> QED
    BY <2>1 DEF ControlInit
<1>2. <<>> \in Seq(Nat) /\ Len(<<>>) = 0 /\ AuditLimit \in Nat /\ 0 \in Version
  BY ControlAssumption DEF Version
<1>3. controlFile \in ControlFile
  BY <1>1, <1>2 DEF Saved, ControlFile
<1>4. dest \in [Skill -> Directory]
  BY <1>2, DirectoryFacts DEF ControlInit
<1>5. /\ change \in SkillChange /\ change.at = "down" /\ change.installing = NoSkill
      /\ change.aside = NoDirectory /\ ~change.undoing /\ ~change.start
      /\ \A i \in Skill : change.was[i] = 0 /\ source[i] = 0
  BY DownFacts DEF ControlInit
<1>6. ControlTypes
  BY <1>1, <1>2, <1>3, <1>4, <1>5 DEF ControlInit, ControlTypes
<1>7. ChangeInv
  BY <1>5 DEF ChangeInv, InstallSteps
<1>8. InstallInv
  BY <1>5, DirectoryFacts DEF InstallInv, InstallSteps, OverFor
<1> QED
  BY <1>6, <1>7, <1>8 DEF ControlInv

-----------------------------------------------------------------------------
(* Skills: the steps of a change *)

LEMMA BeginsAChange ==
  ASSUME ControlInv, NEW i \in Skill, NEW c \in Capability, Change(i, c)
  PROVE  ControlInv'
<1> DEFINE q == [NoChange EXCEPT !.at = "store", !.id = i, !.prev = caps[i], !.auditLen = Len(audits)]
<1>1. /\ change = NoChange /\ changes' = changes + 1 /\ caps' = [caps EXCEPT ![i] = c]
      /\ audits' = Audited(changes + 1) /\ change' = q
      /\ controlFile' = controlFile /\ source' = source /\ dest' = dest /\ kept' = kept
      /\ controlFaults' = controlFaults
  BY DEF Change, outside, skillDirectories
<1>2. /\ caps \in [Skill -> Capability] /\ audits \in Seq(Nat) /\ Len(audits) <= AuditLimit
      /\ changes \in Nat /\ Len(audits) \in Nat /\ AuditLimit \in Nat
  BY ControlAssumption DEF ControlInv, ControlTypes
<1>3. /\ q \in SkillChange /\ q.at = "store" /\ q.id = i /\ q.auditLen = Len(audits)
      /\ ~q.undoing /\ ~q.start /\ q.installing = NoSkill /\ q.aside = NoDirectory
      /\ \A j \in Skill : q.was[j] = 0
  BY <1>2, NoChangeFacts DEF SkillChange, NoChange
<1> HIDE DEF q
<1>4. caps' \in [Skill -> Capability]
  BY <1>1, <1>2
<1>5. audits' \in Seq(Nat) /\ Len(audits') <= AuditLimit /\ Len(audits) <= Len(audits')
  <2> DEFINE a == Append(audits, changes + 1)
  <2>1. a \in Seq(Nat) /\ Len(a) = Len(audits) + 1
    BY <1>2
  <2>2. audits' = Trimmed(a)
    BY <1>1 DEF Audited
  <2> HIDE DEF a
  <2>3. /\ Trimmed(a) \in Seq(Nat) /\ Len(Trimmed(a)) <= AuditLimit
        /\ Len(a) <= AuditLimit => Trimmed(a) = a
        /\ Len(a) > AuditLimit => Len(Trimmed(a)) = AuditLimit
    BY <2>1, TrimmedFacts
  <2> QED
    BY <1>2, <2>1, <2>2, <2>3
<1>6. ControlTypes'
  BY <1>1, <1>2, <1>3, <1>4, <1>5 DEF ControlInv, ControlTypes
<1>7. ChangeInv'
  BY <1>1, <1>3, <1>5 DEF ChangeInv, InstallSteps
<1>9. \A j \in Skill : source[j] \in Nat
  BY DirectoryFacts DEF ControlInv, ControlTypes
<1>8. InstallInv'
  BY <1>1, <1>3, <1>9, DirectoryFacts DEF InstallInv, InstallSteps, OverFor
<1> QED
  BY <1>6, <1>7, <1>8 DEF ControlInv

\* What taking a change back leaves.
LEMMA UndoneIsTyped ==
  ASSUME ControlInv, change.id \in Skill, change.auditLen <= Len(audits)
  PROVE  /\ CapsUndone \in [Skill -> Capability] /\ CapsUndone[change.id] = change.prev
         /\ AuditsUndone \in Seq(Nat) /\ Len(AuditsUndone) <= AuditLimit
<1>1. /\ caps \in [Skill -> Capability] /\ change.prev \in Capability /\ change.auditLen \in Nat
      /\ audits \in Seq(Nat) /\ Len(audits) <= AuditLimit
  BY DEF ControlInv, ControlTypes, SkillChange
<1>2. Len(audits) \in Nat /\ AuditLimit \in Nat
  BY <1>1, ControlAssumption
<1>3. SubSeq(audits, 1, change.auditLen) \in Seq(Nat)
      /\ Len(SubSeq(audits, 1, change.auditLen)) = change.auditLen
  BY <1>1, <1>2
<1> QED
  BY <1>1, <1>2, <1>3 DEF CapsUndone, AuditsUndone

LEMMA SavedIsTyped ==
  ASSUME NEW c \in [Skill -> Capability], NEW a \in Seq(Nat)
  PROVE  Saved(c, a) \in ControlFile
BY DEF Saved, ControlFile

LEMMA TornIsTyped == TornControl \in ControlFile
<1>1. <<>> \in Seq(Nat)
  OBVIOUS
<1> QED
  BY <1>1, DirectoryFacts DEF TornControl, ControlFile

\* What the installation of the skills begins with.
LEMMA InstallingFacts ==
  ASSUME ControlInv, NEW c, NEW undoing \in BOOLEAN
  PROVE  LET q == Installing(c, undoing)
         IN  /\ q \in SkillChange /\ q.at = "install" /\ q.todo = Wanted(c) /\ q.was = source
             /\ q.undoing = undoing /\ q.id = change.id /\ q.prev = change.prev
             /\ q.auditLen = change.auditLen /\ q.start = change.start /\ q.unsaved = change.unsaved
             /\ q.installing = change.installing /\ q.aside = change.aside
<1>1. change \in SkillChange
  BY DEF ControlInv, ControlTypes
<1>2. Wanted(c) \in SUBSET Skill /\ source \in [Skill -> Version]
  BY DEF Wanted, ControlInv, ControlTypes
<1> QED
  BY <1>1, <1>2 DEF Installing, SkillChange, InstallSteps

LEMMA StoreChangeKeeps ==
  ASSUME ControlInv, StoreChange
  PROVE  ControlInv'
<1>1. /\ change.at = "store" /\ source' = source /\ dest' = dest /\ kept' = kept /\ changes' = changes
      /\ ~change.undoing /\ ~change.start /\ change.id \in Skill /\ change.auditLen <= Len(audits)
      /\ change.installing = NoSkill /\ change.aside = NoDirectory
  BY DEF StoreChange, outside, skillDirectories, ControlInv, ChangeInv, InstallInv
<1>2. change \in SkillChange /\ controlFile \in ControlFile /\ controlFaults \in Nat
  BY DEF ControlInv, ControlTypes
<1>3. CASE /\ controlFile' = Saved(caps, audits) /\ change' = Installing(caps, FALSE)
           /\ NoFault /\ UNCHANGED <<caps, audits>>
  <2>1. caps' = caps /\ audits' = audits /\ controlFaults' = controlFaults
    BY <1>3 DEF NoFault
  <2>2. /\ change' \in SkillChange /\ change'.at = "install" /\ change'.todo = Wanted(caps)
        /\ change'.was = source /\ ~change'.undoing /\ change'.id = change.id
        /\ change'.auditLen = change.auditLen /\ ~change'.start
        /\ change'.installing = NoSkill /\ change'.aside = NoDirectory
    BY <1>1, <1>3, InstallingFacts
  <2>3. ControlTypes'
    BY <1>1, <1>3, <2>1, <2>2, SavedIsTyped DEF ControlInv, ControlTypes
  <2>4. ChangeInv'
    BY <1>1, <1>3, <2>1, <2>2 DEF ChangeInv, InstallSteps
  <2>5. InstallInv'
    <3>1. Wanted(caps') = Wanted(caps) /\ \A i \in Skill : source[i] \in Nat
      BY <2>1, DirectoryFacts DEF ControlInv, ControlTypes
    <3> QED
      BY <1>1, <2>1, <2>2, <3>1, DirectoryFacts DEF InstallInv, InstallSteps, OverFor
  <2> QED
    BY <2>3, <2>4, <2>5 DEF ControlInv
<1>4. CASE /\ Fault /\ controlFile' \in {controlFile, TornControl}
           /\ caps' = CapsUndone /\ audits' = AuditsUndone
           /\ change' = [change EXCEPT !.at = "refused"]
  <2>1. /\ caps' \in [Skill -> Capability] /\ caps'[change.id] = change.prev
        /\ audits' \in Seq(Nat) /\ Len(audits') <= AuditLimit
    BY <1>1, <1>4, UndoneIsTyped
  <2>2. controlFaults' \in Nat /\ controlFile' \in ControlFile
    BY <1>2, <1>4, TornIsTyped DEF Fault
  <2>3. /\ change' \in SkillChange /\ change'.at = "refused" /\ ~change'.undoing
        /\ change'.id = change.id /\ change'.prev = change.prev
        /\ change'.installing = NoSkill /\ change'.aside = NoDirectory /\ change'.was = change.was
    BY <1>1, <1>2, <1>4 DEF SkillChange
  <2>4. ControlTypes'
    BY <1>1, <2>1, <2>2, <2>3 DEF ControlInv, ControlTypes
  <2>5. ChangeInv'
    BY <2>1, <2>3 DEF ChangeInv, InstallSteps
  <2>6. InstallInv'
    <3>1. \A i \in Skill : change.was[i] <= source[i]
      BY DEF ControlInv, InstallInv
    <3> QED
      BY <1>1, <2>3, <3>1, DirectoryFacts DEF InstallInv, InstallSteps, OverFor
  <2> QED
    BY <2>4, <2>5, <2>6 DEF ControlInv
<1> QED
  BY <1>3, <1>4 DEF StoreChange

LEMMA InstalledKeeps ==
  ASSUME ControlInv, Installed
  PROVE  ControlInv'
<1>1. /\ change.at = "installed" /\ source' = source /\ dest' = dest /\ kept' = kept /\ changes' = changes
      /\ change.installing = NoSkill /\ change.aside = NoDirectory
  BY DEF Installed, outside, skillDirectories, ControlInv, InstallInv
<1>2. change \in SkillChange /\ controlFile \in ControlFile /\ controlFaults \in Nat
  BY DEF ControlInv, ControlTypes
<1>3. CASE change.failed # {} /\ ~change.undoing /\ ~change.start
  <2>1. Undo
    BY <1>3 DEF Installed
  <2>2. change.id \in Skill /\ change.auditLen <= Len(audits)
    BY <1>1, <1>3 DEF ControlInv, ChangeInv
  <2>3. /\ caps' \in [Skill -> Capability] /\ caps'[change.id] = change.prev
        /\ audits' \in Seq(Nat) /\ Len(audits') <= AuditLimit
    BY <2>1, <2>2, UndoneIsTyped DEF Undo
  <2>4. controlFile' \in ControlFile /\ controlFaults' \in Nat
    BY <1>2, <2>1, <2>3, SavedIsTyped, TornIsTyped DEF Undo, Fault, NoFault
  <2>5. change' = [Installing(caps', TRUE) EXCEPT !.unsaved = controlFile' # Saved(caps', audits')]
    BY <2>1 DEF Undo
  <2> DEFINE q == Installing(caps', TRUE)
  <2>6. /\ q \in SkillChange /\ q.at = "install" /\ q.todo = Wanted(caps') /\ q.was = source
        /\ q.undoing /\ q.id = change.id /\ q.prev = change.prev
        /\ q.installing = NoSkill /\ q.aside = NoDirectory
    BY <1>1, InstallingFacts
  <2> HIDE DEF q
  <2> DEFINE lost == controlFile' # Saved(caps', audits')
  <2>7. change' = [q EXCEPT !.unsaved = lost] /\ lost \in BOOLEAN
    BY <2>5 DEF q
  <2>8. lost = (controlFile' # Saved(caps', audits'))
    OBVIOUS
  <2> HIDE DEF lost
  <2>9. /\ change' \in SkillChange /\ change'.at = "install" /\ change'.todo = Wanted(caps')
        /\ change'.was = source /\ change'.undoing /\ change'.id = change.id /\ change'.prev = change.prev
        /\ change'.installing = NoSkill /\ change'.aside = NoDirectory /\ change'.unsaved = lost
    BY <2>6, <2>7 DEF SkillChange
  <2>10. ControlTypes'
    BY <1>1, <2>3, <2>4, <2>9 DEF ControlInv, ControlTypes
  <2>11. ChangeInv'
    BY <2>2, <2>3, <2>8, <2>9 DEF ChangeInv, InstallSteps
  <2>12. InstallInv'
    <3>1. \A i \in Skill : source[i] \in Nat
      BY DirectoryFacts DEF ControlInv, ControlTypes
    <3> QED
      BY <1>1, <2>9, <3>1, DirectoryFacts DEF InstallInv, InstallSteps, OverFor
  <2> QED
    BY <2>10, <2>11, <2>12 DEF ControlInv
<1>4. CASE ~(change.failed # {} /\ ~change.undoing /\ ~change.start)
  <2>1. /\ change' = [change EXCEPT !.at = IF change.undoing THEN "refused" ELSE "done"]
        /\ caps' = caps /\ audits' = audits /\ controlFile' = controlFile /\ controlFaults' = controlFaults
    BY <1>4 DEF Installed
  <2>2. /\ change' \in SkillChange
        /\ change'.at = (IF change.undoing THEN "refused" ELSE "done")
        /\ change'.undoing = change.undoing /\ change'.start = change.start
        /\ change'.id = change.id /\ change'.prev = change.prev /\ change'.unsaved = change.unsaved
        /\ change'.failed = change.failed /\ change'.installing = NoSkill /\ change'.aside = NoDirectory
        /\ change'.was = change.was
    BY <1>1, <1>2, <2>1 DEF SkillChange
  <2>3. ControlTypes'
    BY <1>1, <2>1, <2>2 DEF ControlInv, ControlTypes
  <2>4. ChangeInv'
    BY <1>1, <2>1, <2>2 DEF ControlInv, ChangeInv, InstallSteps
  <2>5. InstallInv'
    <3>1. /\ \A i \in Skill \ change.failed :
               IF i \in Wanted(caps) THEN Placed(change, i) ELSE ~HasMarker(dest[i]) /\ kept[i] = {}
          /\ \A i \in Skill : change.was[i] <= source[i]
      BY <1>1 DEF ControlInv, InstallInv, OverFor
    <3>2. Wanted(caps') = Wanted(caps) /\ \A i \in Skill : Placed(change, i)' = Placed(change, i)
      BY <1>1, <2>1, <2>2 DEF Placed
    <3> QED
      BY <1>1, <1>4, <2>1, <2>2, <3>1, <3>2, DirectoryFacts DEF InstallInv, InstallSteps, OverFor
  <2> QED
    BY <2>3, <2>4, <2>5 DEF ControlInv
<1> QED
  BY <1>3, <1>4

LEMMA AnswerKeeps ==
  ASSUME ControlInv, Answer
  PROVE  ControlInv'
<1>1. /\ change' = NoChange /\ caps' = caps /\ audits' = audits /\ controlFile' = controlFile
      /\ source' = source /\ dest' = dest /\ kept' = kept /\ changes' = changes
      /\ controlFaults' = controlFaults
  BY DEF Answer, outside, skillDirectories
<1>2. ControlTypes'
  BY <1>1, NoChangeFacts DEF ControlInv, ControlTypes
<1>4. \A j \in Skill : source[j] \in Nat
  BY DirectoryFacts DEF ControlInv, ControlTypes
<1>3. ChangeInv' /\ InstallInv'
  BY <1>1, <1>4, NoChangeFacts, DirectoryFacts DEF ChangeInv, InstallInv, InstallSteps, OverFor
<1> QED
  BY <1>2, <1>3 DEF ControlInv

-----------------------------------------------------------------------------
(* Skills: the installation, starts and crashes *)

LEMMA BeginInstallKeeps ==
  ASSUME ControlInv, NEW i \in Skill, BeginInstall(i)
  PROVE  ControlInv'
<1>1. /\ change.at = "install" /\ i \in change.todo
      /\ caps' = caps /\ audits' = audits /\ controlFile' = controlFile
      /\ source' = source /\ dest' = dest /\ kept' = kept /\ changes' = changes
      /\ change.installing = NoSkill /\ change.aside = NoDirectory
  BY DEF BeginInstall, outside, ControlInv, InstallInv
<1>2. /\ change \in SkillChange /\ controlFaults \in Nat /\ source[i] \in Version
      /\ change.was[i] <= source[i]
  BY DEF ControlInv, ControlTypes, InstallInv
<1>5. /\ change.todo \subseteq Wanted(caps) /\ Wanted(caps') = Wanted(caps)
      /\ \A j \in Wanted(caps) \ (change.todo \cup change.failed) : Placed(change, j)
      /\ \A j \in Skill : change.was[j] <= source[j]
  BY <1>1 DEF ControlInv, InstallInv, InstallSteps
<1>3. CASE /\ Installable(i) /\ NoFault
           /\ change' = [change EXCEPT !.at = "setAside", !.installing = i, !.copy = source[i]]
  <2>1. /\ change' \in SkillChange /\ change'.at = "setAside" /\ change'.installing = i
        /\ change'.todo = change.todo /\ change'.failed = change.failed /\ change'.was = change.was
        /\ change'.undoing = change.undoing /\ change'.start = change.start /\ change'.id = change.id
        /\ change'.prev = change.prev /\ change'.auditLen = change.auditLen
        /\ change'.unsaved = change.unsaved /\ change'.aside = NoDirectory /\ change'.copy = source[i]
    BY <1>1, <1>2, <1>3 DEF SkillChange, InstallSteps
  <2>2. ControlTypes'
    BY <1>1, <1>2, <1>3, <2>1 DEF ControlInv, ControlTypes, NoFault
  <2>3. ChangeInv'
    BY <1>1, <2>1 DEF ControlInv, ChangeInv, InstallSteps
  <2>4. InstallInv'
    <3>1. dest[i] # Foreign
      BY <1>3 DEF Installable
    <3>2. \A j \in Skill : Placed(change, j)' = Placed(change, j)
      BY <1>1, <2>1 DEF Placed
    <3> QED
      BY <1>1, <1>2, <1>5, <2>1, <3>1, <3>2, DirectoryFacts DEF InstallInv, InstallSteps, OverFor
  <2> QED
    BY <2>2, <2>3, <2>4 DEF ControlInv
<1>4. CASE /\ IF Installable(i) THEN Fault ELSE NoFault
           /\ change' = [change EXCEPT !.todo = @ \ {i}, !.failed = @ \cup {i}]
  <2>1. /\ change' \in SkillChange /\ change'.at = "install" /\ change'.installing = NoSkill
        /\ change'.todo = change.todo \ {i} /\ change'.failed = change.failed \cup {i}
        /\ change'.was = change.was
        /\ change'.undoing = change.undoing /\ change'.start = change.start /\ change'.id = change.id
        /\ change'.prev = change.prev /\ change'.auditLen = change.auditLen
        /\ change'.unsaved = change.unsaved /\ change'.aside = NoDirectory
    BY <1>1, <1>2, <1>4 DEF SkillChange, InstallSteps
  <2>2. ControlTypes'
    BY <1>1, <1>2, <1>4, <2>1 DEF ControlInv, ControlTypes, Fault, NoFault
  <2>3. ChangeInv'
    BY <1>1, <2>1 DEF ControlInv, ChangeInv, InstallSteps
  <2>4. InstallInv'
    <3>1. \A j \in Skill : Placed(change, j)' = Placed(change, j)
      BY <1>1, <2>1 DEF Placed
    <3> QED
      BY <1>1, <1>5, <2>1, <3>1, DirectoryFacts DEF InstallInv, InstallSteps, OverFor
  <2> QED
    BY <2>2, <2>3, <2>4 DEF ControlInv
<1> QED
  BY <1>3, <1>4 DEF BeginInstall

\* While a skill is installed the directory of that one is not somebody else's.
LEMMA SetAsideKeeps ==
  ASSUME ControlInv, SetAside
  PROVE  ControlInv'
<1> DEFINE i == change.installing
<1>1. /\ change.at = "setAside"
      /\ caps' = caps /\ audits' = audits /\ controlFile' = controlFile
      /\ source' = source /\ kept' = kept /\ changes' = changes /\ controlFaults' = controlFaults
      /\ dest' = [dest EXCEPT ![i] = NoDirectory]
      /\ change' = [change EXCEPT !.at = "place", !.aside = dest[i]]
  BY DEF SetAside, outside
<1>2. /\ change \in SkillChange /\ dest \in [Skill -> Directory] /\ i # NoSkill
      /\ i \in change.todo /\ dest[i] # Foreign /\ change.copy >= change.was[i]
  BY <1>1 DEF ControlInv, ControlTypes, InstallInv
<1>3. i \in Skill
  BY <1>2 DEF SkillChange
<1>9. /\ change.todo \subseteq Wanted(caps) /\ Wanted(caps') = Wanted(caps)
      /\ \A j \in Wanted(caps) \ (change.todo \cup change.failed) : Placed(change, j)
      /\ \A j \in Skill : change.was[j] <= source[j]
  BY <1>1 DEF ControlInv, InstallInv, InstallSteps
<1> HIDE DEF i
<1>4. /\ change' \in SkillChange /\ change'.at = "place" /\ change'.installing = i
      /\ change'.todo = change.todo /\ change'.failed = change.failed /\ change'.was = change.was
      /\ change'.undoing = change.undoing /\ change'.start = change.start /\ change'.id = change.id
      /\ change'.prev = change.prev /\ change'.auditLen = change.auditLen /\ change'.copy = change.copy
      /\ change'.unsaved = change.unsaved /\ change'.aside = dest[i]
  BY <1>1, <1>2, <1>3 DEF SkillChange, InstallSteps, i
<1>5. /\ dest' \in [Skill -> Directory] /\ dest'[i] = NoDirectory
      /\ \A j \in Skill : j # i => dest'[j] = dest[j]
  BY <1>1, <1>2, <1>3, DirectoryFacts
<1>6. ControlTypes'
  BY <1>1, <1>4, <1>5 DEF ControlInv, ControlTypes
<1>7. ChangeInv'
  BY <1>1, <1>4 DEF ControlInv, ChangeInv, InstallSteps
<1>8. InstallInv'
  <2>1. \A j \in Skill : j # i => Placed(change, j)' = Placed(change, j)
    BY <1>4, <1>5 DEF Placed
  <2> QED
    BY <1>1, <1>2, <1>3, <1>4, <1>5, <1>9, <2>1, DirectoryFacts DEF InstallInv, InstallSteps, OverFor
<1> QED
  BY <1>6, <1>7, <1>8 DEF ControlInv

LEMMA InstallOverFacts ==
  ASSUME ControlInv, NEW errors \in SUBSET Skill
  PROVE  LET q == InstallOver(errors)
         IN  /\ q \in SkillChange /\ q.at = "install" /\ q.installing = NoSkill
             /\ q.todo = change.todo \ {change.installing} /\ q.failed = change.failed \cup errors
             /\ q.was = change.was
             /\ q.undoing = change.undoing /\ q.start = change.start /\ q.id = change.id
             /\ q.prev = change.prev /\ q.auditLen = change.auditLen
             /\ q.unsaved = change.unsaved /\ q.aside = NoDirectory
<1>1. change \in SkillChange
  BY DEF ControlInv, ControlTypes
<1> DEFINE bad == change.failed \cup errors
           rest == change.todo \ {change.installing}
<1>2. InstallOver(errors) =
        [change EXCEPT !.at = "install", !.installing = NoSkill, !.copy = 0, !.aside = NoDirectory,
                       !.todo = rest, !.failed = bad]
  BY DEF InstallOver
<1>3. bad \in SUBSET Skill /\ rest \in SUBSET Skill
  BY <1>1 DEF SkillChange
<1> HIDE DEF bad, rest
<1>6. NoDirectory \in Directory /\ 0 \in Version
  BY DirectoryFacts
<1>4. /\ InstallOver(errors) \in SkillChange
      /\ InstallOver(errors).todo = rest /\ InstallOver(errors).failed = bad
  BY <1>1, <1>2, <1>3, <1>6 DEF SkillChange, InstallSteps
<1>5. LET q == InstallOver(errors)
      IN  /\ q.at = "install" /\ q.installing = NoSkill /\ q.aside = NoDirectory /\ q.was = change.was
          /\ q.undoing = change.undoing /\ q.start = change.start /\ q.id = change.id
          /\ q.prev = change.prev /\ q.auditLen = change.auditLen /\ q.unsaved = change.unsaved
  BY <1>1, <1>2 DEF SkillChange
<1> QED
  BY <1>4, <1>5 DEF bad, rest

\* What a step over the leftovers of one skill leaves.
LEMMA KeptStays ==
  ASSUME kept = [j \in Skill |-> kept[j]], NEW i \in Skill, NEW left,
         kept' = [kept EXCEPT ![i] = left]
  PROVE  kept' = [j \in Skill |-> kept'[j]] /\ kept'[i] = left /\ \A j \in Skill : j # i => kept'[j] = kept[j]
OBVIOUS

LEMMA PlaceKeeps ==
  ASSUME ControlInv, Place
  PROVE  ControlInv'
<1> DEFINE i == change.installing
           left == Leftover(i)
<1>1. /\ change.at = "place"
      /\ caps' = caps /\ audits' = audits /\ controlFile' = controlFile
      /\ source' = source /\ changes' = changes
  BY DEF Place, outside
<1>2. /\ change \in SkillChange /\ dest \in [Skill -> Directory] /\ controlFaults \in Nat
      /\ i # NoSkill /\ i \in change.todo /\ dest[i] = NoDirectory /\ change.aside # Foreign
      /\ change.copy >= change.was[i] /\ kept = [j \in Skill |-> kept[j]]
  BY <1>1 DEF ControlInv, ControlTypes, InstallInv
<1>3. i \in Skill /\ change.aside \in Directory /\ change.copy \in Version
  BY <1>2 DEF SkillChange
<1>4. /\ change.todo \subseteq Wanted(caps) /\ Wanted(caps') = Wanted(caps)
      /\ \A j \in Wanted(caps) \ (change.todo \cup change.failed) : Placed(change, j)
      /\ \A j \in Skill : change.was[j] <= source[j]
  BY <1>1 DEF ControlInv, InstallInv, InstallSteps
<1>5. \/ /\ dest' = [dest EXCEPT ![i] = Ours(change.copy)] /\ kept' = kept
         /\ change' = [change EXCEPT !.at = "drop"] /\ NoFault
      \/ /\ Fault /\ change' = InstallOver({i})
         /\ \/ dest' = [dest EXCEPT ![i] = change.aside] /\ kept' = kept
            \/ dest' = dest /\ kept' = [kept EXCEPT ![i] = left]
  BY Zenon DEF Place
<1> HIDE DEF i, left
<1>6. CASE /\ dest' = [dest EXCEPT ![i] = Ours(change.copy)] /\ kept' = kept
           /\ change' = [change EXCEPT !.at = "drop"] /\ NoFault
  <2>1. /\ Ours(change.copy) \in Directory /\ Ours(change.copy).kind = "ours"
        /\ Ours(change.copy).version = change.copy /\ Ours(change.copy) # Foreign
    BY <1>3, DirectoryFacts
  <2>2. /\ change' \in SkillChange /\ change'.at = "drop" /\ change'.installing = i
        /\ change'.todo = change.todo /\ change'.failed = change.failed /\ change'.was = change.was
        /\ change'.undoing = change.undoing /\ change'.start = change.start /\ change'.id = change.id
        /\ change'.prev = change.prev /\ change'.auditLen = change.auditLen
        /\ change'.unsaved = change.unsaved /\ change'.aside = change.aside
    BY <1>2, <1>3, <1>6 DEF SkillChange, InstallSteps, i
  <2>3. /\ dest' \in [Skill -> Directory] /\ dest'[i] = Ours(change.copy)
        /\ \A j \in Skill : j # i => dest'[j] = dest[j]
    BY <1>2, <1>3, <1>6, <2>1
  <2>4. ControlTypes'
    BY <1>1, <1>2, <1>6, <2>2, <2>3 DEF ControlInv, ControlTypes, NoFault
  <2>5. ChangeInv'
    BY <1>1, <2>2 DEF ControlInv, ChangeInv, InstallSteps
  <2>6. InstallInv'
    <3>1. \A j \in Skill : j # i => Placed(change, j)' = Placed(change, j)
      BY <2>2, <2>3 DEF Placed
    <3>2. \A j \in Skill : j = i => Placed(change, j)'
      BY <1>2, <2>1, <2>2, <2>3 DEF Placed
    <3> QED
      BY <1>1, <3>2, <1>2, <1>3, <1>4, <2>1, <2>2, <2>3, <3>1, DirectoryFacts DEF InstallInv, InstallSteps, OverFor
  <2> QED
    BY <2>4, <2>5, <2>6 DEF ControlInv
<1>7. CASE /\ Fault /\ change' = InstallOver({i})
           /\ \/ dest' = [dest EXCEPT ![i] = change.aside] /\ kept' = kept
              \/ dest' = dest /\ kept' = [kept EXCEPT ![i] = left]
  <2>1. {i} \in SUBSET Skill
    BY <1>3
  <2>2. /\ change' \in SkillChange /\ change'.at = "install" /\ change'.installing = NoSkill
        /\ change'.todo = change.todo \ {i} /\ change'.failed = change.failed \cup {i}
        /\ change'.was = change.was
        /\ change'.undoing = change.undoing /\ change'.start = change.start /\ change'.id = change.id
        /\ change'.prev = change.prev /\ change'.auditLen = change.auditLen
        /\ change'.unsaved = change.unsaved /\ change'.aside = NoDirectory
    BY <1>7, <2>1, InstallOverFacts DEF i
  <2>3. /\ dest' \in [Skill -> Directory] /\ kept' = [j \in Skill |-> kept'[j]]
        /\ \A j \in Skill : j # i => dest'[j] = dest[j]
    BY <1>2, <1>3, <1>7, KeptStays
  <2>7. controlFaults' \in Nat
    BY <1>2, <1>7 DEF Fault
  <2>4. ControlTypes'
    BY <1>1, <2>2, <2>3, <2>7 DEF ControlInv, ControlTypes
  <2>5. ChangeInv'
    BY <1>1, <2>2 DEF ControlInv, ChangeInv, InstallSteps
  <2>6. InstallInv'
    <3>1. \A j \in Skill : j # i => Placed(change, j)' = Placed(change, j)
      BY <2>2, <2>3 DEF Placed
    <3> QED
      BY <1>1, <1>4, <2>2, <3>1, DirectoryFacts DEF InstallInv, InstallSteps, OverFor
  <2> QED
    BY <2>4, <2>5, <2>6 DEF ControlInv
<1> QED
  BY <1>5, <1>6, <1>7

LEMMA DropKeeps ==
  ASSUME ControlInv, Drop
  PROVE  ControlInv'
<1> DEFINE i == change.installing
           left == Leftover(i)
<1>1. /\ change.at = "drop" /\ change' = InstallOver({})
      /\ caps' = caps /\ audits' = audits /\ controlFile' = controlFile
      /\ source' = source /\ dest' = dest /\ changes' = changes
      /\ \/ kept' = kept /\ controlFaults' = controlFaults
         \/ controlFaults' = controlFaults + 1 /\ kept' = [kept EXCEPT ![i] = left]
  BY Zenon DEF Drop, outside, Fault, NoFault
<1>2. /\ controlFaults \in Nat /\ Placed(change, i) /\ kept = [j \in Skill |-> kept[j]]
      /\ i # NoSkill /\ change \in SkillChange
  BY <1>1 DEF ControlInv, ControlTypes, InstallInv
<1>9. i \in Skill
  BY <1>2 DEF SkillChange
<1>3. /\ change' \in SkillChange /\ change'.at = "install" /\ change'.installing = NoSkill
      /\ change'.todo = change.todo \ {i} /\ change'.failed = change.failed \cup {}
      /\ change'.was = change.was
      /\ change'.undoing = change.undoing /\ change'.start = change.start /\ change'.id = change.id
      /\ change'.prev = change.prev /\ change'.auditLen = change.auditLen
      /\ change'.unsaved = change.unsaved /\ change'.aside = NoDirectory
  BY <1>1, InstallOverFacts
<1> HIDE DEF i, left
<1>4. kept' = [j \in Skill |-> kept'[j]] /\ controlFaults' \in Nat
  <2>1. CASE kept' = kept
    BY <1>1, <1>2, <2>1
  <2>2. CASE kept' = [kept EXCEPT ![i] = left]
    BY <1>1, <1>2, <1>9, <2>2, KeptStays
  <2> QED
    BY <1>1, <2>1, <2>2
<1>5. ControlTypes'
  <2>1. change' \in SkillChange
    BY <1>3
  <2>2. /\ caps' = caps /\ audits' = audits /\ controlFile' = controlFile
        /\ source' = source /\ dest' = dest /\ changes' = changes
    BY <1>1
  <2> QED
    BY <1>4, <2>1, <2>2 DEF ControlInv, ControlTypes
<1>6. ChangeInv'
  BY <1>1, <1>3 DEF ControlInv, ChangeInv, InstallSteps
<1>7. InstallInv'
  <2>1. /\ change.todo \subseteq Wanted(caps) /\ Wanted(caps') = Wanted(caps)
        /\ \A j \in Wanted(caps) \ (change.todo \cup change.failed) : Placed(change, j)
        /\ \A j \in Skill : change.was[j] <= source[j]
    BY <1>1 DEF ControlInv, InstallInv, InstallSteps
  <2>2. \A j \in Skill : Placed(change, j)' = Placed(change, j)
    BY <1>1, <1>3 DEF Placed
  <2> QED
    BY <1>1, <1>2, <1>3, <2>1, <2>2, DirectoryFacts DEF InstallInv, InstallSteps, OverFor
<1> QED
  BY <1>5, <1>6, <1>7 DEF ControlInv

LEMMA RootFailsKeeps ==
  ASSUME ControlInv, RootFails
  PROVE  ControlInv'
<1>1. /\ change.at = "install" /\ change.installing = NoSkill
      /\ caps' = caps /\ audits' = audits /\ controlFile' = controlFile
      /\ source' = source /\ dest' = dest /\ kept' = kept /\ changes' = changes
      /\ controlFaults' = controlFaults + 1 /\ change.aside = NoDirectory
  BY DEF RootFails, Fault, outside, skillDirectories, ControlInv, InstallInv
<1>2. PICK missed \in {Skill, Skill \ Wanted(caps)} :
        /\ missed # Skill => change.todo = {}
        /\ change' = [change EXCEPT !.at = "installed", !.todo = {}, !.failed = @ \cup missed]
  BY DEF RootFails
<1>3. change \in SkillChange /\ controlFaults \in Nat /\ missed \subseteq Skill
  BY <1>2 DEF ControlInv, ControlTypes
<1>4. /\ change' \in SkillChange /\ change'.at = "installed" /\ change'.installing = NoSkill
      /\ change'.failed = change.failed \cup missed /\ change'.was = change.was
      /\ change'.undoing = change.undoing /\ change'.start = change.start /\ change'.id = change.id
      /\ change'.prev = change.prev /\ change'.auditLen = change.auditLen
      /\ change'.unsaved = change.unsaved /\ change'.aside = NoDirectory
  BY <1>1, <1>2, <1>3 DEF SkillChange
<1>5. ControlTypes'
  BY <1>1, <1>3, <1>4 DEF ControlInv, ControlTypes
<1>6. ChangeInv'
  BY <1>1, <1>4 DEF ControlInv, ChangeInv, InstallSteps
<1>7. InstallInv'
  <2>1. /\ Wanted(caps') = Wanted(caps)
        /\ \A j \in Wanted(caps) \ (change.todo \cup change.failed) : Placed(change, j)
        /\ \A j \in Skill : change.was[j] <= source[j]
    BY <1>1 DEF ControlInv, InstallInv, InstallSteps
  <2>2. \A j \in Skill : Placed(change, j)' = Placed(change, j)
    BY <1>1, <1>4 DEF Placed
  <2>3. \A j \in Skill \ change'.failed : j \in Wanted(caps) /\ Placed(change, j)'
    BY <1>2, <1>4, <2>1, <2>2
  <2> QED
    BY <1>1, <1>4, <2>1, <2>3, DirectoryFacts DEF InstallInv, InstallSteps, OverFor
<1> QED
  BY <1>5, <1>6, <1>7 DEF ControlInv

\* A directory is removed of a skill that is not to be found, and only then.
LEMMA RemovalFacts ==
  ASSUME ControlInv, NEW i \in ToSweep, Removed(i) \/ PartlyRemoved(i)
  PROVE  /\ dest' \in [Skill -> Directory] /\ kept' = [j \in Skill |-> kept'[j]]
         /\ i \in Skill \ Wanted(caps) /\ i \notin change.failed
         /\ \A j \in Skill : j # i => dest'[j] = dest[j] /\ kept'[j] = kept[j]
         /\ dest[i] = Foreign => dest'[i] = Foreign
<1>1. /\ dest \in [Skill -> Directory] /\ kept = [j \in Skill |-> kept[j]]
      /\ i \in Skill \ Wanted(caps) /\ i \notin change.failed
  BY DEF ControlInv, ControlTypes, ToSweep
<1>2. PICK d \in Directory :
        /\ dest' = [dest EXCEPT ![i] = d]
        /\ dest[i] = Foreign => d = Foreign
  <2>1. CASE Removed(i)
    BY <1>1, <2>1, DirectoryFacts DEF Removed
  <2>2. CASE PartlyRemoved(i)
    BY <1>1, <2>2, DirectoryFacts DEF PartlyRemoved
  <2> QED
    BY <2>1, <2>2
<1>3. PICK K : kept' = [kept EXCEPT ![i] = K]
  BY DEF Removed, PartlyRemoved
<1> QED
  BY <1>1, <1>2, <1>3, KeptStays

LEMMA SweepKeeps ==
  ASSUME ControlInv, Sweep
  PROVE  ControlInv'
<1>1. /\ change.at = "install" /\ change.installing = NoSkill /\ change.todo = {}
      /\ caps' = caps /\ audits' = audits /\ controlFile' = controlFile
      /\ source' = source /\ changes' = changes /\ change.aside = NoDirectory
  BY DEF Sweep, Sweeping, outside, ControlInv, InstallInv
<1>2. /\ change \in SkillChange /\ dest \in [Skill -> Directory] /\ controlFaults \in Nat
      /\ kept = [j \in Skill |-> kept[j]]
      /\ Wanted(caps') = Wanted(caps)
      /\ \A j \in Wanted(caps) \ change.failed : Placed(change, j)
      /\ \A j \in Skill : change.was[j] <= source[j]
  BY <1>1 DEF ControlInv, ControlTypes, InstallInv, InstallSteps
<1>4. CASE /\ ToSweep = {} /\ NoFault /\ dest' = dest /\ kept' = kept
           /\ change' = [change EXCEPT !.at = "installed"]
  <2>1. /\ change' \in SkillChange /\ change'.at = "installed" /\ change'.installing = NoSkill
        /\ change'.failed = change.failed /\ change'.was = change.was
        /\ change'.undoing = change.undoing /\ change'.start = change.start /\ change'.id = change.id
        /\ change'.prev = change.prev /\ change'.auditLen = change.auditLen
        /\ change'.unsaved = change.unsaved /\ change'.aside = NoDirectory
    BY <1>1, <1>2, <1>4 DEF SkillChange
  <2>3. ControlTypes'
    BY <1>1, <1>2, <1>4, <2>1 DEF ControlInv, ControlTypes, NoFault
  <2>4. ChangeInv'
    BY <1>1, <2>1 DEF ControlInv, ChangeInv, InstallSteps
  <2>5. InstallInv'
    <3>1. \A j \in Skill \ (Wanted(caps) \cup change.failed) : ~HasMarker(dest[j]) /\ kept[j] = {}
      BY <1>4 DEF ToSweep
    <3>2. \A j \in Skill : Placed(change, j)' = Placed(change, j)
      BY <1>4, <2>1 DEF Placed
    <3> QED
      BY <1>1, <1>2, <1>4, <2>1, <3>1, <3>2, DirectoryFacts DEF InstallInv, InstallSteps, OverFor
  <2> QED
    BY <2>3, <2>4, <2>5 DEF ControlInv
<1>5. ASSUME NEW i \in ToSweep, NEW bad \in SUBSET {i}, Removed(i) \/ PartlyRemoved(i), NoFault \/ Fault,
             change' = [change EXCEPT !.failed = change.failed \cup bad]
      PROVE  ControlInv'
  <2>0. /\ dest' \in [Skill -> Directory] /\ kept' = [j \in Skill |-> kept'[j]]
        /\ i \in Skill \ Wanted(caps) /\ \A j \in Skill : j # i => dest'[j] = dest[j]
    BY <1>5, RemovalFacts
  <2>1. /\ change' \in SkillChange /\ change'.at = "install" /\ change'.installing = NoSkill
        /\ change'.todo = {} /\ change'.failed = change.failed \cup bad /\ change'.was = change.was
        /\ change'.undoing = change.undoing /\ change'.start = change.start /\ change'.id = change.id
        /\ change'.prev = change.prev /\ change'.auditLen = change.auditLen
        /\ change'.unsaved = change.unsaved /\ change'.aside = NoDirectory
    BY <1>1, <1>2, <1>5, <2>0 DEF SkillChange
  <2>3. controlFaults' \in Nat
    BY <1>2, <1>5 DEF Fault, NoFault
  <2>6. ControlTypes'
    BY <1>1, <2>0, <2>1, <2>3 DEF ControlInv, ControlTypes
  <2>4. ChangeInv'
    BY <1>1, <2>1 DEF ControlInv, ChangeInv, InstallSteps
  <2>5. InstallInv'
    <3>1. \A j \in Skill : j # i => Placed(change, j)' = Placed(change, j)
      BY <2>0, <2>1 DEF Placed
    <3> QED
      BY <1>1, <1>2, <2>0, <2>1, <3>1, DirectoryFacts DEF InstallInv, InstallSteps, OverFor
  <2> QED
    BY <2>4, <2>5, <2>6 DEF ControlInv
<1>6. change = [change EXCEPT !.failed = change.failed \cup {}]
  BY <1>2 DEF SkillChange
<1>7. \/ /\ ToSweep = {} /\ NoFault /\ dest' = dest /\ kept' = kept
         /\ change' = [change EXCEPT !.at = "installed"]
      \/ \E i \in ToSweep : Removed(i) /\ NoFault /\ change' = change
      \/ \E i \in ToSweep : PartlyRemoved(i) /\ Fault
                            /\ change' = [change EXCEPT !.failed = change.failed \cup {i}]
  BY DEF Sweep, skillDirectories
<1>8. ASSUME NEW i \in ToSweep, Removed(i), NoFault, change' = change PROVE ControlInv'
  <2>1. {} \in SUBSET {i} /\ change' = [change EXCEPT !.failed = change.failed \cup {}]
    BY <1>6, <1>8
  <2> QED
    BY <1>5, <1>8, <2>1
<1>9. ASSUME NEW i \in ToSweep, PartlyRemoved(i), Fault,
             change' = [change EXCEPT !.failed = change.failed \cup {i}]
      PROVE  ControlInv'
  <2>1. {i} \in SUBSET {i}
    OBVIOUS
  <2> QED
    BY <1>5, <1>9, <2>1
<1> QED
  BY <1>4, <1>7, <1>8, <1>9

LEMMA StartControlKeeps ==
  ASSUME ControlInv, StartControl
  PROVE  ControlInv'
<1> DEFINE again == {i \in Skill : i \in BuiltinSkill \/ caps'[i] # controlFile.caps[i]}
           more == [k \in 1 .. Cardinality(again) |-> AtStart]
<1>1. /\ change.at = "down" /\ caps' = Registered(controlFile.caps)
      /\ audits' = Trimmed(controlFile.audits \o more)
      /\ controlFile' = Saved(caps', audits')
      /\ change' = [NoChange EXCEPT !.at = "install", !.todo = Wanted(caps'), !.was = source,
                                    !.start = TRUE]
      /\ source' = source /\ dest' = dest /\ kept' = kept /\ changes' = changes
      /\ controlFaults' = controlFaults
  BY Zenon DEF StartControl, outside, skillDirectories
<1>2. /\ controlFile.caps \in [Skill -> Capability] /\ controlFile.audits \in Seq(Nat)
      /\ source \in [Skill -> Version]
  BY DEF ControlInv, ControlTypes, ControlFile
<1>3. caps' \in [Skill -> Capability]
  <2>1. Builtin \in Capability /\ Builtin \ {"enabled"} \in Capability
    BY DEF Builtin, Capability, Attribute
  <2> QED
    BY <1>1, <1>2, <2>1, DirectoryFacts DEF Registered
<1>4. more \in Seq(Nat)
  <2>1. IsFiniteSet(again)
    <3>1. again \subseteq Skill
      OBVIOUS
    <3> HIDE DEF again
    <3> QED
      BY <3>1, DirectoryFacts, FS_Subset
  <2>2. Cardinality(again) \in Nat
    BY <2>1, FS_CardinalityType
  <2> HIDE DEF again
  <2>3. more \in [1 .. Cardinality(again) -> Nat]
    BY DEF AtStart
  <2> HIDE DEF more
  <2> QED
    BY <2>2, <2>3, SeqDef
<1> HIDE DEF more
<1>5. controlFile.audits \o more \in Seq(Nat)
  BY <1>2, <1>4
<1>6. audits' \in Seq(Nat) /\ Len(audits') <= AuditLimit
  BY <1>1, <1>5, TrimmedFacts
<1>7. Wanted(caps') \in SUBSET Skill
  BY DEF Wanted
<1>8. /\ change' \in SkillChange /\ change'.at = "install" /\ change'.todo = Wanted(caps')
      /\ change'.start /\ ~change'.undoing /\ change'.installing = NoSkill /\ change'.aside = NoDirectory
      /\ change'.was = source
  BY <1>1, <1>2, <1>7, NoChangeFacts DEF NoChange, SkillChange, InstallSteps
<1>9. ControlTypes'
  BY <1>1, <1>3, <1>6, <1>8, SavedIsTyped DEF ControlInv, ControlTypes
<1>10. ChangeInv'
  BY <1>1, <1>8 DEF ChangeInv, InstallSteps
<1>11. InstallInv'
  <2>1. \A j \in Skill : source[j] \in Nat
    BY <1>2, DirectoryFacts
  <2> QED
    BY <1>1, <1>8, <2>1, DirectoryFacts DEF InstallInv, InstallSteps, OverFor
<1> QED
  BY <1>9, <1>10, <1>11 DEF ControlInv

\* What a crash leaves of the directories.
LEMMA CrashFacts ==
  ASSUME ControlInv, CrashControl
  PROVE  /\ dest' \in [Skill -> Directory] /\ kept' = [j \in Skill |-> kept'[j]]
         /\ \A j \in Skill : dest[j] = Foreign => dest'[j] = Foreign
         /\ \A j \in Skill : Findable(j) /\ j \in Wanted(caps) =>
              dest'[j].kind = "ours" \/ kept'[j] # {}
<1> DEFINE i == change.installing
           left == Leftover(i)
<1>1. \/ change.at # "place" /\ dest' = dest /\ kept' = kept
      \/ /\ change.at \in {"place", "drop"} /\ dest' = dest /\ kept' = [kept EXCEPT ![i] = left]
      \/ Sweeping /\ \E j \in ToSweep : PartlyRemoved(j)
  BY Zenon DEF CrashControl, skillDirectories
<1>2. /\ kept = [j \in Skill |-> kept[j]] /\ dest \in [Skill -> Directory] /\ change \in SkillChange
      /\ i = NoSkill => change.aside = NoDirectory
      /\ i # NoSkill <=> change.at \in {"setAside", "place", "drop"}
      /\ change.at = "setAside" => change.aside = NoDirectory
      /\ change.at = "drop" => dest[i].kind = "ours"
  BY DEF ControlInv, ControlTypes, InstallInv, Placed
<1>3. i # NoSkill => i \in Skill
  BY <1>2 DEF SkillChange
<1>4. change.aside.kind = "ours" => left # {}
  BY DEF Leftover
<1>5. change.aside.kind # "ours" => left = kept[i]
  BY DEF Leftover
<1>6. \A j \in Skill : Findable(j) =>
        dest[j].kind = "ours" \/ kept[j] # {} \/ (i = j /\ change.aside.kind = "ours")
  BY DEF Findable
<1> HIDE DEF i, left
<1>7. CASE change.at # "place" /\ dest' = dest /\ kept' = kept
  BY <1>2, <1>6, <1>7, DirectoryFacts
<1>8. CASE /\ change.at \in {"place", "drop"} /\ dest' = dest /\ kept' = [kept EXCEPT ![i] = left]
  <2>1. i \in Skill
    BY <1>2, <1>3, <1>8
  <2>2. kept' = [j \in Skill |-> kept'[j]] /\ kept'[i] = left /\ \A j \in Skill : j # i => kept'[j] = kept[j]
    BY <1>2, <1>8, <2>1, KeptStays
  <2> QED
    BY <1>2, <1>4, <1>5, <1>6, <1>8, <2>1, <2>2
<1>9. CASE Sweeping /\ \E j \in ToSweep : PartlyRemoved(j)
  <2>1. PICK j \in ToSweep : PartlyRemoved(j)
    BY <1>9
  <2>2. /\ dest' \in [Skill -> Directory] /\ kept' = [k \in Skill |-> kept'[k]]
        /\ j \in Skill \ Wanted(caps)
        /\ \A k \in Skill : k # j => dest'[k] = dest[k] /\ kept'[k] = kept[k]
        /\ dest[j] = Foreign => dest'[j] = Foreign
    BY <2>1, RemovalFacts
  <2>3. change.aside = NoDirectory
    BY <1>2, <1>9 DEF Sweeping
  <2> QED
    BY <1>6, <2>2, <2>3, DirectoryFacts
<1> QED
  BY <1>1, <1>7, <1>8, <1>9

LEMMA CrashControlKeeps ==
  ASSUME ControlInv, CrashControl
  PROVE  ControlInv'
<1>1. /\ change' = [NoChange EXCEPT !.at = "down"] /\ controlFaults' = controlFaults + 1
      /\ controlFile' \in {controlFile, TornControl}
      /\ caps' = caps /\ audits' = audits /\ source' = source /\ changes' = changes
  BY Zenon DEF CrashControl, Fault, outside
<1>2. controlFaults \in Nat /\ controlFile \in ControlFile /\ \A j \in Skill : source[j] \in Nat
  BY DirectoryFacts DEF ControlInv, ControlTypes
<1>4. /\ change' \in SkillChange /\ change'.at = "down" /\ change'.installing = NoSkill
      /\ change'.aside = NoDirectory /\ ~change'.undoing /\ ~change'.start
      /\ \A i \in Skill : change'.was[i] = 0
  BY <1>1, DownFacts
<1>5. ControlTypes'
  BY <1>1, <1>2, <1>4, TornIsTyped, CrashFacts DEF ControlInv, ControlTypes
<1>6. ChangeInv'
  BY <1>4 DEF ChangeInv, InstallSteps
<1>7. InstallInv'
  BY <1>1, <1>2, <1>4, DirectoryFacts DEF InstallInv, InstallSteps, OverFor
<1> QED
  BY <1>5, <1>6, <1>7 DEF ControlInv

LEMMA SourceChangesKeeps ==
  ASSUME ControlInv, NEW i \in Skill, SourceChanges(i)
  PROVE  ControlInv'
<1>1. /\ source[i] < MaxSource /\ source' = [source EXCEPT ![i] = source[i] + 1]
      /\ caps' = caps /\ audits' = audits /\ controlFile' = controlFile
      /\ dest' = dest /\ kept' = kept /\ change' = change /\ changes' = changes
      /\ controlFaults' = controlFaults
  BY DEF SourceChanges, skillDirectories
<1>2. source \in [Skill -> Version] /\ MaxSource \in Nat /\ change \in SkillChange
  BY ControlAssumption DEF ControlInv, ControlTypes
<1>3. source' \in [Skill -> Version]
  <2>1. source[i] \in Version
    BY <1>2
  <2>2. source[i] + 1 \in Version
    BY <1>1, <1>2, <2>1 DEF Version
  <2> QED
    BY <1>1, <1>2, <2>2
<1>4. ControlTypes'
  BY <1>1, <1>3 DEF ControlInv, ControlTypes
<1>5. ChangeInv'
  BY <1>1 DEF ControlInv, ChangeInv
<1>6. InstallInv'
  <2>1. \A j \in Skill : change.was[j] <= source'[j]
    <3>1. \A j \in Skill : source[j] \in Nat /\ change.was[j] \in Nat /\ change.was[j] <= source[j]
      <4>1. change.was \in [Skill -> Version]
        BY <1>2 DEF SkillChange
      <4> QED
        BY <1>2, <4>1, DirectoryFacts DEF ControlInv, InstallInv
    <3>2. \A j \in Skill : source'[j] = IF j = i THEN source[i] + 1 ELSE source[j]
      BY <1>1, <1>2
    <3> QED
      BY <3>1, <3>2
  <2>2. Wanted(caps)' = Wanted(caps)
    BY <1>1
  <2>3. OverFor(change)' = OverFor(change) /\ \A j \in Skill : Placed(change, j)' = Placed(change, j)
    BY <1>1 DEF OverFor, Placed
  <2>4. Wanted(caps) \subseteq Skill
    BY DEF Wanted
  <2>5. InstallInv
    BY DEF ControlInv
  <2>6. /\ change.at = "drop" => Placed(change, change.installing)'
        /\ change.installing # NoSkill => change.installing \in Skill
    BY <1>1, <1>2, <2>5 DEF InstallInv, SkillChange, Placed
  <2> QED
    BY <1>1, <2>1, <2>2, <2>3, <2>4, <2>5, <2>6 DEF InstallInv
<1> QED
  BY <1>4, <1>5, <1>6 DEF ControlInv

LEMMA ControlStepInv == ControlInv /\ [ControlNext]_controlVars => ControlInv'
<1> SUFFICES ASSUME ControlInv, [ControlNext]_controlVars PROVE ControlInv'
  OBVIOUS
<1>1. CASE UNCHANGED controlVars
  <2>1. /\ caps' = caps /\ audits' = audits /\ controlFile' = controlFile /\ source' = source
        /\ dest' = dest /\ kept' = kept /\ change' = change /\ changes' = changes
        /\ controlFaults' = controlFaults
    BY <1>1 DEF controlVars
  <2> QED
    BY <2>1 DEF ControlInv, ControlTypes, ChangeInv, InstallInv, Wanted, OverFor, Placed
<1>2. CASE \E i \in Skill : BeginInstall(i) \/ SourceChanges(i) \/ DeleteSkill(i) \/ SwitchSkill(i)
  <2>1. ASSUME NEW i \in Skill, BeginInstall(i) \/ SourceChanges(i) PROVE ControlInv'
    BY <2>1, BeginInstallKeeps, SourceChangesKeeps
  <2>2. ASSUME NEW i \in Skill, DeleteSkill(i) PROVE ControlInv'
    BY <2>2, DirectoryFacts, BeginsAChange DEF DeleteSkill
  <2>3. ASSUME NEW i \in Skill, SwitchSkill(i) PROVE ControlInv'
    <3> DEFINE c == IF "enabled" \in caps[i] THEN caps[i] \ {"enabled"} ELSE caps[i] \cup {"enabled"}
    <3>1. caps[i] \in Capability /\ caps[i] # Absent
      BY <2>3 DEF ControlInv, ControlTypes, SwitchSkill
    <3>2. c \in Capability
      BY <3>1 DEF Capability, Attribute
    <3>3. Change(i, c)
      BY <2>3 DEF SwitchSkill
    <3> HIDE DEF c
    <3> QED
      BY <3>2, <3>3, BeginsAChange
  <2> QED
    BY <1>2, <2>1, <2>2, <2>3
<1>3. CASE \E i \in Skill, c \in SkillEntry : PutSkill(i, c)
  <2>1. SkillEntry \subseteq Capability
    BY ControlAssumption
  <2> QED
    BY <1>3, <2>1, BeginsAChange DEF PutSkill
<1>4. CASE StoreChange \/ Installed \/ Answer \/ RootFails
  BY <1>4, StoreChangeKeeps, InstalledKeeps, AnswerKeeps, RootFailsKeeps
<1>5. CASE SetAside \/ Place \/ Drop \/ Sweep
  BY <1>5, SetAsideKeeps, PlaceKeeps, DropKeeps, SweepKeeps
<1>6. CASE StartControl \/ CrashControl
  BY <1>6, StartControlKeeps, CrashControlKeeps
<1> QED
  BY <1>1, <1>2, <1>3, <1>4, <1>5, <1>6 DEF ControlNext

-----------------------------------------------------------------------------
(* Skills: the properties *)

\* No step touches a directory without the program's marker.
LEMMA ForeignStep ==
  ASSUME ControlInv, [ControlNext]_controlVars, NEW i \in Skill, dest[i] = Foreign
  PROVE  dest'[i] = Foreign
<1>1. dest \in [Skill -> Directory]
  BY DEF ControlInv, ControlTypes
<1>2. CASE dest' = dest
  BY <1>2
<1>3. CASE SetAside
  <2>1. dest' = [dest EXCEPT ![change.installing] = NoDirectory] /\ change.at = "setAside"
    BY <1>3 DEF SetAside
  <2>2. dest[change.installing] # Foreign
    BY <2>1 DEF ControlInv, InstallInv
  <2> QED
    BY <1>1, <2>1, <2>2
<1>4. CASE Place
  <2>1. change.at = "place"
    BY <1>4 DEF Place
  <2>2. dest[change.installing] # Foreign
    BY <2>1 DEF ControlInv, InstallInv
  <2>3. \/ dest' = [dest EXCEPT ![change.installing] = Ours(change.copy)]
        \/ dest' = [dest EXCEPT ![change.installing] = change.aside]
        \/ dest' = dest
    BY <1>4 DEF Place
  <2> QED
    BY <1>1, <2>2, <2>3
<1>5. CASE Sweep
  <2>1. dest' = dest \/ \E j \in ToSweep : Removed(j) \/ PartlyRemoved(j)
    BY <1>5 DEF Sweep, skillDirectories
  <2> QED
    BY <1>2, <2>1, RemovalFacts
<1>7. CASE CrashControl
  BY <1>7, CrashFacts
<1>6. dest' = dest \/ SetAside \/ Place \/ Sweep \/ CrashControl
  BY DEF ControlNext, controlVars, BeginInstall, SourceChanges, DeleteSkill, PutSkill, SwitchSkill, Change,
         StoreChange, Installed, Answer, RootFails, Drop, StartControl, outside, skillDirectories
<1> QED
  BY <1>2, <1>3, <1>4, <1>5, <1>6, <1>7

\* A skill that codex finds stays in its place, is set aside, or is left over.
LEMMA FindableStep ==
  ASSUME ControlInv, [ControlNext]_controlVars, NEW i \in Skill,
         Findable(i), i \in Wanted(caps), (i \in Wanted(caps))'
  PROVE  Findable(i)'
<1>1. /\ dest \in [Skill -> Directory] /\ change \in SkillChange
      /\ kept = [j \in Skill |-> kept[j]]
  BY DEF ControlInv, ControlTypes
<1>2. /\ change.installing \in Skill \cup {NoSkill} /\ change.aside \in Directory
      /\ change.copy \in Version
  BY <1>1 DEF SkillChange
<1>3. /\ change.installing = NoSkill => change.aside = NoDirectory
      /\ change.installing # NoSkill <=> change.at \in {"setAside", "place", "drop"}
      /\ change.at = "setAside" => change.aside = NoDirectory /\ dest[change.installing] # Foreign
      /\ change.at = "place" => dest[change.installing] = NoDirectory
      /\ change.at = "drop" => dest[change.installing].kind = "ours"
  BY DirectoryFacts DEF ControlInv, InstallInv, Placed
<1>4. CASE /\ dest' = dest /\ kept' = kept
           /\ change'.installing = change.installing /\ change'.aside = change.aside
  BY <1>4 DEF Findable
<1>5. CASE /\ dest' = dest /\ kept' = kept /\ change.installing = NoSkill
  BY <1>3, <1>5, DirectoryFacts DEF Findable
<1>6. CASE SetAside
  <2>1. /\ change.at = "setAside" /\ kept' = kept
        /\ dest' = [dest EXCEPT ![change.installing] = NoDirectory]
        /\ change' = [change EXCEPT !.at = "place", !.aside = dest[change.installing]]
    BY <1>6 DEF SetAside
  <2>2. /\ change'.installing = change.installing /\ change'.aside = dest[change.installing]
    BY <1>1, <2>1 DEF SkillChange
  <2>3. CASE i = change.installing
    BY <1>3, <2>1, <2>2, <2>3, DirectoryFacts DEF Findable
  <2>4. CASE i # change.installing
    <3>1. dest'[i] = dest[i]
      BY <1>1, <2>1, <2>4
    <3> QED
      BY <2>1, <2>4, <3>1 DEF Findable
  <2> QED
    BY <2>3, <2>4
<1>7. CASE Place
  <2> DEFINE left == Leftover(change.installing)
  <2>1. /\ change.at = "place"
        /\ \/ /\ dest' = [dest EXCEPT ![change.installing] = Ours(change.copy)] /\ kept' = kept
              /\ change' = [change EXCEPT !.at = "drop"]
           \/ dest' = [dest EXCEPT ![change.installing] = change.aside] /\ kept' = kept
           \/ dest' = dest /\ kept' = [kept EXCEPT ![change.installing] = left]
    BY <1>7, Zenon DEF Place
  <2>2. change.installing \in Skill
    BY <1>2, <1>3, <2>1
  <2>3. change.aside.kind = "ours" => left # {}
    BY DEF Leftover
  <2>4. change.aside.kind # "ours" => left = kept[change.installing]
    BY DEF Leftover
  <2> HIDE DEF left
  <2>5. CASE i # change.installing
    <3>1. dest'[i] = dest[i] /\ kept'[i] = kept[i]
      BY <1>1, <2>1, <2>2, <2>5
    <3> QED
      BY <2>5, <3>1 DEF Findable
  <2>6. CASE i = change.installing
    <3>1. kept[i] # {} \/ change.aside.kind = "ours"
      BY <1>3, <2>1, <2>6, DirectoryFacts DEF Findable
    <3>2. CASE dest' = [dest EXCEPT ![change.installing] = Ours(change.copy)]
      BY <1>1, <1>2, <2>6, <3>2, DirectoryFacts DEF Findable
    <3>3. CASE dest' = [dest EXCEPT ![change.installing] = change.aside] /\ kept' = kept
      BY <1>1, <2>6, <3>1, <3>3 DEF Findable
    <3>4. CASE dest' = dest /\ kept' = [kept EXCEPT ![change.installing] = left]
      BY <1>1, <2>2, <2>3, <2>4, <2>6, <3>1, <3>4, KeptStays DEF Findable
    <3> QED
      BY <2>1, <3>2, <3>3, <3>4
  <2> QED
    BY <2>5, <2>6
<1>8. CASE Drop
  <2>1. change.at = "drop" /\ dest' = dest
    BY <1>8 DEF Drop
  <2>2. CASE i = change.installing
    BY <1>3, <2>1, <2>2 DEF Findable
  <2>3. CASE i # change.installing
    <3>1. dest[i].kind = "ours" \/ kept[i] # {}
      BY <2>3 DEF Findable
    <3> DEFINE left == Leftover(change.installing)
    <3>3. kept' = kept \/ kept' = [kept EXCEPT ![change.installing] = left]
      BY <1>8 DEF Drop
    <3> HIDE DEF left
    <3>4. kept'[i] = kept[i]
      BY <1>1, <2>3, <3>3
    <3> QED
      BY <2>1, <3>1, <3>4 DEF Findable
  <2> QED
    BY <2>2, <2>3
<1>9. CASE Sweep
  <2>1. /\ change.aside.kind # "ours"
        /\ \/ dest' = dest /\ kept' = kept
           \/ \E j \in ToSweep : Removed(j) \/ PartlyRemoved(j)
    BY <1>3, <1>9, DirectoryFacts DEF Sweep, Sweeping, skillDirectories
  <2>2. dest'[i] = dest[i] /\ kept'[i] = kept[i]
    BY <2>1, RemovalFacts
  <2> QED
    BY <2>1, <2>2 DEF Findable
<1>10. CASE CrashControl
  BY <1>10, CrashFacts DEF Findable
<1>11. CASE UNCHANGED controlVars
  BY <1>4, <1>11 DEF controlVars
<1>12. CASE RootFails \/ \E j \in Skill : BeginInstall(j)
  <2>1. dest' = dest /\ kept' = kept /\ change.installing = NoSkill
    BY <1>12 DEF BeginInstall, RootFails, skillDirectories
  <2> QED
    BY <1>5, <2>1
<1>13. CASE \E j \in Skill : SourceChanges(j)
  BY <1>4, <1>13 DEF SourceChanges, skillDirectories
<1>14. CASE \E j \in Skill : \E c : Change(j, c)
  <2>1. dest' = dest /\ kept' = kept /\ change.installing = NoSkill
    BY <1>14, NoChangeFacts DEF Change, skillDirectories
  <2> QED
    BY <1>5, <2>1
<1>15. CASE StoreChange \/ Installed \/ Answer \/ StartControl
  <2>1. dest' = dest /\ kept' = kept
    BY <1>15 DEF StoreChange, Installed, Answer, StartControl, skillDirectories
  <2>2. change.at \in {"store", "installed", "done", "refused", "down"}
    BY <1>15 DEF StoreChange, Installed, Answer, StartControl
  <2> QED
    BY <1>3, <1>5, <2>1, <2>2
<1> QED
  BY <1>6, <1>7, <1>8, <1>9, <1>10, <1>11, <1>12, <1>13, <1>14, <1>15
     DEF ControlNext, DeleteSkill, PutSkill, SwitchSkill

\* A change that is answered is saved, and every skill that is to be found is installed in
\* the version there was when the installation began, or a later one, and no other.  One
\* that is refused is undone in memory, and, as far as the steps that undo it do not fail
\* in their turn, in the file and in what codex finds.  Whatever fails and wherever the
\* process dies, a skill that stays wanted can be found throughout, and nobody else's
\* directory is touched.
THEOREM ChangesAreWholeAlways == ControlSpec => ChangesAreWhole
<1>1. ControlInv /\ [ControlNext]_controlVars =>
        [\A i \in Skill : Findable(i) /\ i \in Wanted(caps) /\ (i \in Wanted(caps))' => Findable(i)']_controlVars
  BY FindableStep
<1>2. ControlInv /\ [ControlNext]_controlVars => [\A i \in Skill : dest[i] = Foreign => dest'[i] = Foreign]_dest
  BY ForeignStep
<1>3. ControlInv => DoneIsInstalled
  BY DEF ControlInv, ChangeInv, InstallInv, DoneIsInstalled, InstalledAs, Placed, OverFor
<1>4. ControlInv => RefusedLeavesNothing
  BY DEF ControlInv, ChangeInv, InstallInv, RefusedLeavesNothing, InstalledAs, Placed, OverFor
<1>5. ControlInv => ControlTypeOK
  BY DEF ControlInv, ControlTypes, ControlFile, ControlTypeOK
<1> QED
  BY <1>1, <1>2, <1>3, <1>4, <1>5, ControlInitInv, ControlStepInv, PTL
     DEF ControlSpec, ChangesAreWhole, WantedSkillsStay, ForeignIsLeftAlone

-----------------------------------------------------------------------------
(* Deletions: the inductive invariant *)

Party == Owned \cup CleanupRun

UploadState == [at : {"new", "original", "preview", "manifest", "stored", "failed"},
                sess : Owned \cup {"none"}]
DeletionStage == {"none", "tasks", "history", "workspace", "chat", "deleted", "failed"}
RunState == [at : {"idle", "sessions", "chats", "done"}, gone : SUBSET Owned,
             left : SUBSET Owned, next : Owned \cup {"none"}, failed : BOOLEAN]

\* What an upload has written is there, unless the directory has been taken apart.
UploadInv(u) ==
  LET s == uploading[u].sess
  IN  /\ uploading[u].at \in {"original", "preview", "manifest"} => s \in Owned
      /\ uploading[u].at = "preview" => u \in Previewed
      /\ uploading[u].at \in {"preview", "manifest"} =>
           <<u, "original">> \in dirFiles[s] \/ s \in cleared
      /\ uploading[u].at = "manifest" /\ u \in Previewed =>
           <<u, "preview">> \in dirFiles[s] \/ s \in cleared

AttachmentsInv == AttachmentIsWhole /\ \A u \in Upload : UploadInv(u)

\* What a deletion has removed is gone, unless the session was used meanwhile.
DeletionInv(s) ==
  s \notin since[s] =>
    /\ deleting[s] \in {"history", "workspace"} => s \notin tasked
    /\ deleting[s] = "workspace" => s \notin recorded

Idle(c) == c \in inactive /\ c \notin pinnedSessions /\ c \notin inUse

\* What a run has removed is gone, and the chats it is about to delete are idle,
\* unless they were used meanwhile.
CleanedInv(r) ==
  LET q == run[r]
  IN  /\ q.gone \subseteq HistorySession
      /\ q.at = "sessions" => q.left \subseteq q.gone
      /\ ~q.failed /\ q.at \in {"sessions", "chats", "done"} =>
           \A s \in q.gone \ since[r] :
             /\ s \in tasked => q.at = "sessions" /\ s \in q.left
             /\ s \in dirThere => q.at = "sessions" /\ (s \in q.left \/ s = q.next)
      /\ q.at = "chats" =>
           \A c \in q.left : c \in Chat /\ (c \in registered => Idle(c) \/ c \in since[r])

DeletionsInv ==
  /\ CleanupTypeOK /\ AttachmentsInv
  /\ \A s \in HistorySession : DeletionInv(s)
  /\ \A r \in CleanupRun : CleanedInv(r)

LEMMA OwnedFacts ==
  /\ HistorySession \subseteq Owned /\ Chat \subseteq Owned /\ HistorySession \cap Chat = {}
  /\ Owned \subseteq Party /\ CleanupRun \subseteq Party /\ Owned \cap CleanupRun = {}
  /\ "none" \notin Owned /\ Previewed \subseteq Upload
  /\ MaxStirs \in Nat /\ MaxCleanupFaults \in Nat
BY CleanupAssumption DEF Owned, Party

LEMMA CleanupTypes ==
  CleanupTypeOK <=>
    /\ recorded \subseteq HistorySession /\ tasked \subseteq HistorySession
    /\ registered \subseteq Chat /\ inUse \subseteq registered
    /\ pinnedSessions \subseteq Owned /\ inactive \subseteq Owned /\ dirThere \subseteq Owned
    /\ cleared \subseteq Owned
    /\ dirFiles \in [Owned -> SUBSET AllFiles]
    /\ uploading \in [Upload -> UploadState]
    /\ deleting \in [Owned -> DeletionStage]
    /\ run \in [CleanupRun -> RunState]
    /\ stirs \in 0 .. MaxStirs /\ cleanupFaults \in 0 .. MaxCleanupFaults
    /\ since \in [Party -> SUBSET Owned]
BY DEF CleanupTypeOK, UploadState, DeletionStage, RunState, Party

LEMMA CleanupInitInv == CleanupInit => DeletionsInv
<1> SUFFICES ASSUME CleanupInit PROVE DeletionsInv
  OBVIOUS
<1>1. NoRun \in RunState /\ NoRun.at = "idle" /\ NoRun.gone = {}
  BY DEF NoRun, RunState
<1>2. [at |-> "new", sess |-> "none"] \in UploadState
  BY DEF UploadState
<1>3. CleanupTypeOK
  <2>1. /\ recorded \subseteq HistorySession /\ tasked \subseteq HistorySession
        /\ registered \subseteq Chat /\ inUse \subseteq registered
        /\ pinnedSessions \subseteq Owned /\ inactive \subseteq Owned /\ dirThere \subseteq Owned
        /\ cleared \subseteq Owned
    BY OwnedFacts DEF CleanupInit
  <2>2. dirFiles \in [Owned -> SUBSET AllFiles] /\ deleting \in [Owned -> DeletionStage]
        /\ since \in [Party -> SUBSET Owned]
    BY DEF CleanupInit, DeletionStage, Party
  <2>3. uploading \in [Upload -> UploadState] /\ run \in [CleanupRun -> RunState]
    BY <1>1, <1>2 DEF CleanupInit
  <2>4. stirs \in 0 .. MaxStirs /\ cleanupFaults \in 0 .. MaxCleanupFaults
    BY OwnedFacts DEF CleanupInit
  <2> QED
    BY <2>1, <2>2, <2>3, <2>4, CleanupTypes
<1>4. AttachmentsInv
  <2>1. AttachmentIsWhole
    BY DEF CleanupInit, AttachmentIsWhole
  <2>2. \A u \in Upload : UploadInv(u)
    BY DEF CleanupInit, UploadInv
  <2> QED
    BY <2>1, <2>2 DEF AttachmentsInv
<1>5. \A s \in HistorySession : DeletionInv(s)
  BY OwnedFacts DEF CleanupInit, DeletionInv
<1>6. \A r \in CleanupRun : CleanedInv(r)
  BY <1>1 DEF CleanupInit, CleanedInv
<1> QED
  BY <1>3, <1>4, <1>5, <1>6 DEF DeletionsInv

-----------------------------------------------------------------------------
(* Deletions: what every step leaves of the others' work *)

\* What a step adds to a session is known to whoever is deleting or cleaning up.
OthersKeep ==
  /\ tasked' \subseteq tasked /\ cleared \subseteq cleared'
  /\ \A s \in Owned, a \in Party :
       s \in (recorded' \ recorded) \cup (dirThere' \ dirThere) => s \in since'[a]
  /\ \A c \in Chat, a \in Party :
       c \in registered' => c \in registered /\ (Idle(c) => Idle(c)' \/ c \in since'[a])

LEMMA FilesStay ==
  ASSUME DeletionsInv, uploading' = uploading, cleared \subseteq cleared',
         \A s \in Owned : dirFiles'[s] = dirFiles[s] \/ (dirFiles'[s] \subseteq dirFiles[s] /\ s \in cleared')
  PROVE  AttachmentsInv'
<1>1. AttachmentIsWhole /\ \A u \in Upload : UploadInv(u)
  BY DEF DeletionsInv, AttachmentsInv
<1>2. AttachmentIsWhole'
  BY <1>1 DEF AttachmentIsWhole
<1>3. ASSUME NEW u \in Upload PROVE UploadInv(u)'
  <2>1. UploadInv(u)
    BY <1>1
  <2> QED
    BY <2>1 DEF UploadInv
<1> QED
  BY <1>2, <1>3 DEF AttachmentsInv

LEMMA DeletionStays ==
  ASSUME DeletionsInv, NEW s \in HistorySession, OthersKeep,
         deleting'[s] = deleting[s], since[s] \subseteq since'[s]
  PROVE  DeletionInv(s)'
<1>1. DeletionInv(s) /\ s \in Owned /\ s \in Party
  BY OwnedFacts DEF DeletionsInv
<1>2. s \in recorded' => s \in recorded \/ s \in since'[s]
  BY <1>1 DEF OthersKeep
<1>3. s \in tasked' => s \in tasked
  BY DEF OthersKeep
<1> QED
  BY <1>1, <1>2, <1>3 DEF DeletionInv

LEMMA RunStays ==
  ASSUME DeletionsInv, NEW r \in CleanupRun, OthersKeep,
         run'[r] = run[r], since[r] \subseteq since'[r]
  PROVE  CleanedInv(r)'
<1>1. CleanedInv(r) /\ r \in Party
  BY OwnedFacts DEF DeletionsInv
<1>2. \A s \in Owned : s \in dirThere' => s \in dirThere \/ s \in since'[r]
  BY <1>1 DEF OthersKeep
<1>3. \A s : s \in tasked' => s \in tasked
  BY DEF OthersKeep
<1>4. \A c \in Chat : c \in registered' => c \in registered /\ (Idle(c) => Idle(c)' \/ c \in since'[r])
  BY <1>1 DEF OthersKeep
<1>5. HistorySession \subseteq Owned
  BY OwnedFacts
<1>6. \A s \in run[r].gone : s \in Owned
  BY <1>1, <1>5 DEF CleanedInv
<1> QED
  BY <1>1, <1>2, <1>3, <1>4, <1>6 DEF CleanedInv

\* A step that neither an upload, nor a deletion, nor a run takes.
LEMMA NobodysStep ==
  ASSUME DeletionsInv, CleanupTypeOK', OthersKeep, uploading' = uploading, deleting' = deleting, run' = run,
         dirFiles' = dirFiles, \A a \in Party : since[a] \subseteq since'[a]
  PROVE  DeletionsInv'
<1>1. AttachmentsInv'
  BY FilesStay DEF OthersKeep
<1>2. \A s \in HistorySession : DeletionInv(s)'
  BY DeletionStays, OwnedFacts
<1>3. \A r \in CleanupRun : CleanedInv(r)'
  BY RunStays, OwnedFacts
<1> QED
  BY <1>1, <1>2, <1>3 DEF DeletionsInv

LEMMA ChangedFacts ==
  ASSUME CleanupTypeOK, NEW s \in Owned
  PROVE  /\ Changed(s) \in [Party -> SUBSET Owned]
         /\ \A a \in Party : s \in Changed(s)[a] /\ since[a] \subseteq Changed(s)[a]
<1>1. since \in [Party -> SUBSET Owned]
  BY CleanupTypes
<1> QED
  BY <1>1 DEF Changed, Party

LEMMA StirsKeep ==
  ASSUME DeletionsInv, NEW s \in Owned,
         \/ s \in HistorySession /\ RecordMessage(s)
         \/ s \in Chat /\ ChatInput(s)
         \/ PinSession(s)
  PROVE  DeletionsInv'
<1>1. /\ stirs < MaxStirs /\ stirs' = stirs + 1 /\ since' = Changed(s)
      /\ tasked' = tasked /\ dirThere' = dirThere /\ dirFiles' = dirFiles /\ cleared' = cleared
      /\ uploading' = uploading /\ deleting' = deleting /\ run' = run /\ cleanupFaults' = cleanupFaults
      /\ registered' = registered
      /\ recorded' = recorded \/ (s \in HistorySession /\ recorded' = recorded \cup {s})
      /\ inactive' = inactive \/ inactive' = inactive \ {s}
      /\ pinnedSessions' = pinnedSessions \/ pinnedSessions' = pinnedSessions \cup {s}
      /\ inUse' = inUse \/ (s \in registered /\ inUse' = inUse \cup {s})
  BY DEF RecordMessage, ChatInput, PinSession, Stir, directories, requestState
<1>2. /\ since' \in [Party -> SUBSET Owned]
      /\ \A a \in Party : s \in since'[a] /\ since[a] \subseteq since'[a]
  BY <1>1, ChangedFacts DEF DeletionsInv
<1>3. CleanupTypeOK'
  <2>1. stirs' \in 0 .. MaxStirs
    BY <1>1, OwnedFacts, CleanupTypes DEF DeletionsInv
  <2>2. recorded' \subseteq HistorySession /\ inactive' \subseteq Owned
        /\ pinnedSessions' \subseteq Owned /\ inUse' \subseteq registered'
    BY <1>1, CleanupTypes DEF DeletionsInv
  <2> QED
    BY <1>1, <1>2, <2>1, <2>2 DEF DeletionsInv, CleanupTypeOK, Party
<1>4. OthersKeep
  <2>1. \A c \in Chat : Idle(c) => Idle(c)' \/ c = s
    BY <1>1 DEF Idle
  <2> QED
    BY <1>1, <1>2, <2>1 DEF OthersKeep
<1> QED
  BY <1>1, <1>2, <1>3, <1>4, NobodysStep

LEMMA TurnEndsKeeps ==
  ASSUME DeletionsInv, NEW c \in Chat, ChatTurnEnds(c)
  PROVE  DeletionsInv'
<1>1. /\ inUse' = inUse \ {c} /\ since' = Changed(c)
      /\ recorded' = recorded /\ tasked' = tasked /\ registered' = registered
      /\ pinnedSessions' = pinnedSessions /\ inactive' = inactive
      /\ dirThere' = dirThere /\ dirFiles' = dirFiles /\ cleared' = cleared
      /\ uploading' = uploading /\ deleting' = deleting /\ run' = run
      /\ stirs' = stirs /\ cleanupFaults' = cleanupFaults
  BY DEF ChatTurnEnds, directories, requestState
<1>2. /\ since' \in [Party -> SUBSET Owned]
      /\ \A a \in Party : c \in since'[a] /\ since[a] \subseteq since'[a]
  BY <1>1, ChangedFacts, OwnedFacts DEF DeletionsInv
<1>3. CleanupTypeOK'
  BY <1>1, <1>2 DEF DeletionsInv, CleanupTypeOK, Party
<1>4. OthersKeep
  BY <1>1, <1>2 DEF OthersKeep, Idle
<1> QED
  BY <1>1, <1>2, <1>3, <1>4, NobodysStep

LEMMA GrowInactiveKeeps ==
  ASSUME DeletionsInv, NEW s \in Owned, GrowInactive(s)
  PROVE  DeletionsInv'
<1>1. /\ inactive' = inactive \cup {s} /\ since' = since
      /\ recorded' = recorded /\ tasked' = tasked /\ registered' = registered
      /\ pinnedSessions' = pinnedSessions /\ inUse' = inUse
      /\ dirThere' = dirThere /\ dirFiles' = dirFiles /\ cleared' = cleared
      /\ uploading' = uploading /\ deleting' = deleting /\ run' = run
      /\ stirs' = stirs /\ cleanupFaults' = cleanupFaults
  BY DEF GrowInactive, directories, requestState
<1>2. CleanupTypeOK'
  BY <1>1 DEF DeletionsInv, CleanupTypeOK
<1>3. OthersKeep
  BY <1>1 DEF OthersKeep, Idle
<1> QED
  BY <1>1, <1>2, <1>3, NobodysStep

-----------------------------------------------------------------------------
(* Deletions: uploads *)

\* A step of an upload: it makes its directory, writes a file of its own, or stops.
LEMMA UploadSteps ==
  ASSUME DeletionsInv, NEW u \in Upload, NEW q \in UploadState,
         uploading' = [uploading EXCEPT ![u] = q],
         UNCHANGED <<sessionState, deleting, run, stirs, cleanupFaults, cleared>>,
         dirThere' = dirThere \/ (q.sess \in Owned /\ dirThere' = dirThere \cup {q.sess}),
         since' = since \/ (q.sess \in Owned /\ since' = Changed(q.sess)),
         dirThere' # dirThere => q.sess \in Owned /\ since' = Changed(q.sess),
         dirFiles' \in [Owned -> SUBSET AllFiles],
         \A s \in Owned : dirFiles[s] \subseteq dirFiles'[s],
         \A s \in Owned, v \in Upload :
            <<v, "manifest">> \in dirFiles'[s] \ dirFiles[s] => FilesOf(v) \subseteq dirFiles'[s] \/ s \in cleared,
         UploadInv(u)'
  PROVE  DeletionsInv'
<1>1. /\ recorded' = recorded /\ tasked' = tasked /\ registered' = registered
      /\ pinnedSessions' = pinnedSessions /\ inactive' = inactive /\ inUse' = inUse
      /\ deleting' = deleting /\ run' = run /\ stirs' = stirs /\ cleanupFaults' = cleanupFaults
      /\ cleared' = cleared
  BY DEF sessionState
<1>2. since' \in [Party -> SUBSET Owned] /\ \A a \in Party : since[a] \subseteq since'[a]
  BY ChangedFacts, CleanupTypes DEF DeletionsInv
<1>3. uploading' \in [Upload -> UploadState] /\ \A v \in Upload : v # u => uploading'[v] = uploading[v]
  BY CleanupTypes DEF DeletionsInv
<1>4. CleanupTypeOK'
  <2>1. dirThere' \subseteq Owned
    BY CleanupTypes DEF DeletionsInv
  <2> QED
    BY <1>1, <1>2, <1>3, <2>1 DEF DeletionsInv, CleanupTypeOK, Party, UploadState
<1>5. OthersKeep
  <2>1. \A s \in Owned, a \in Party : s \in dirThere' \ dirThere => s \in since'[a]
    BY ChangedFacts DEF DeletionsInv
  <2> QED
    BY <1>1, <2>1 DEF OthersKeep, Idle
<1>6. AttachmentsInv'
  <2>1. AttachmentIsWhole'
    <3> SUFFICES ASSUME NEW s \in Owned, NEW v \in Upload, <<v, "manifest">> \in dirFiles'[s]
                 PROVE  FilesOf(v) \subseteq dirFiles'[s] \/ s \in cleared
      BY <1>1 DEF AttachmentIsWhole, FilesOf
    <3>1. CASE <<v, "manifest">> \in dirFiles[s]
      <4>1. FilesOf(v) \subseteq dirFiles[s] \/ s \in cleared
        BY <3>1 DEF DeletionsInv, AttachmentsInv, AttachmentIsWhole
      <4> QED
        BY <4>1
    <3>2. CASE <<v, "manifest">> \notin dirFiles[s]
      BY <3>2
    <3> QED
      BY <3>1, <3>2
  <2>2. ASSUME NEW v \in Upload PROVE UploadInv(v)'
    <3>1. CASE v = u
      BY <3>1
    <3>2. CASE v # u
      <4>1. UploadInv(v) /\ uploading'[v] = uploading[v]
        BY <1>3, <3>2 DEF DeletionsInv, AttachmentsInv
      <4> QED
        BY <1>1, <4>1 DEF UploadInv
    <3> QED
      BY <3>1, <3>2
  <2> QED
    BY <2>1, <2>2 DEF AttachmentsInv
<1>7. \A s \in HistorySession : DeletionInv(s)'
  BY <1>1, <1>2, <1>5, DeletionStays, OwnedFacts
<1>8. \A r \in CleanupRun : CleanedInv(r)'
  BY <1>1, <1>2, <1>5, RunStays, OwnedFacts
<1> QED
  BY <1>4, <1>6, <1>7, <1>8 DEF DeletionsInv

LEMMA PrepareKeeps ==
  ASSUME DeletionsInv, NEW u \in Upload, NEW s \in Owned, PrepareAttachmentDir(u, s)
  PROVE  DeletionsInv'
<1> DEFINE q == [at |-> "original", sess |-> s]
<1>1. /\ uploading' = [uploading EXCEPT ![u] = q] /\ dirThere' = dirThere \cup {s} /\ since' = Changed(s)
      /\ UNCHANGED <<sessionState, deleting, run, stirs, cleanupFaults, cleared>> /\ dirFiles' = dirFiles
  BY DEF PrepareAttachmentDir, AfterUpload
<1>2. q \in UploadState /\ q.at = "original" /\ q.sess = s
  BY DEF UploadState
<1>3. uploading'[u] = q
  BY <1>1, CleanupTypes DEF DeletionsInv
<1>4. UploadInv(u)'
  BY <1>2, <1>3 DEF UploadInv
<1>5. dirFiles' \in [Owned -> SUBSET AllFiles]
  BY <1>1, CleanupTypes DEF DeletionsInv
<1> HIDE DEF q
<1> QED
  BY <1>1, <1>2, <1>4, <1>5, UploadSteps

LEMMA LocalizeKeeps ==
  ASSUME DeletionsInv, NEW u \in Upload, NEW s \in Owned, LocalizeImage(u, s)
  PROVE  DeletionsInv'
<1>1. CASE PrepareAttachmentDir(u, s)
  BY <1>1, PrepareKeeps
<1>2. CASE ~PrepareAttachmentDir(u, s)
  <2> DEFINE q == [at |-> "stored", sess |-> s]
  <2>1. /\ uploading' = [uploading EXCEPT ![u] = q] /\ dirThere' = dirThere /\ since' = since
        /\ UNCHANGED <<sessionState, deleting, run, stirs, cleanupFaults, cleared>> /\ dirFiles' = dirFiles
    BY <1>2 DEF LocalizeImage, AfterUpload, directories
  <2>2. q \in UploadState /\ q.at = "stored"
    BY DEF UploadState
  <2>3. uploading'[u] = q
    BY <2>1, CleanupTypes DEF DeletionsInv
  <2>4. UploadInv(u)'
    BY <2>2, <2>3 DEF UploadInv
  <2>5. dirFiles' \in [Owned -> SUBSET AllFiles]
    BY <2>1, CleanupTypes DEF DeletionsInv
  <2> HIDE DEF q
  <2> QED
    BY <2>1, <2>2, <2>4, <2>5, UploadSteps
<1> QED
  BY <1>1, <1>2

\* A file of an upload is written after the ones before it.
LEMMA WriteKeeps ==
  ASSUME DeletionsInv, NEW u \in Upload, NEW file, NEW to, WriteAttachment(u, file, to),
         \/ file = "original" /\ to = AfterOriginal(u)
         \/ file = "preview" /\ to = "manifest"
         \/ file = "manifest" /\ to = "stored"
  PROVE  DeletionsInv'
<1> DEFINE s == uploading[u].sess
<1>1. /\ uploading \in [Upload -> UploadState] /\ uploading[u].at = file
      /\ dirFiles \in [Owned -> SUBSET AllFiles] /\ dirThere \subseteq Owned
  BY CleanupTypes DEF DeletionsInv, WriteAttachment
<1>2. UploadInv(u)
  BY DEF DeletionsInv, AttachmentsInv
<1>3. s \in Owned /\ (file = "preview" => u \in Previewed)
      /\ to \in {"preview", "manifest", "stored"} /\ (to = "preview" => u \in Previewed)
  BY <1>1, <1>2 DEF UploadInv, AfterOriginal
<1>4. UNCHANGED <<sessionState, deleting, run, stirs, cleanupFaults, cleared>> /\ dirThere' = dirThere
  BY DEF WriteAttachment, AfterUpload
<1> DEFINE done(at) == [uploading[u] EXCEPT !.at = at]
<1>5. ASSUME NEW at \in {"preview", "manifest", "stored", "failed"}
      PROVE  /\ done(at) \in UploadState /\ done(at).at = at /\ done(at).sess = s
             /\ [uploading EXCEPT ![u].at = at] = [uploading EXCEPT ![u] = done(at)]
  BY <1>1 DEF UploadState
<1>6. CASE s \in dirThere
  <2> DEFINE q == done(to)
  <2>1. /\ dirFiles' = [dirFiles EXCEPT ![s] = dirFiles[s] \cup {<<u, file>>}]
        /\ uploading' = [uploading EXCEPT ![u].at = to] /\ since' = Changed(s)
    BY <1>6 DEF WriteAttachment, Advance
  <2>2. /\ q \in UploadState /\ q.at = to /\ q.sess = s /\ uploading' = [uploading EXCEPT ![u] = q]
    BY <1>3, <1>5, <2>1
  <2>3. uploading'[u] = q
    BY <1>1, <2>2
  <2> HIDE DEF q, done
  <2>4. <<u, file>> \in AllFiles
    <3>1. <<u, file>> \in FilesOf(u)
      BY <1>3 DEF FilesOf
    <3> QED
      BY <3>1 DEF AllFiles
  <2>5. /\ dirFiles' \in [Owned -> SUBSET AllFiles]
        /\ dirFiles'[s] = dirFiles[s] \cup {<<u, file>>}
        /\ \A t \in Owned : t # s => dirFiles'[t] = dirFiles[t]
    BY <1>1, <1>3, <2>1, <2>4
  <2>6. UploadInv(u)'
    <3>1. cleared' = cleared
      BY <1>4
    <3> QED
      BY <1>1, <1>2, <1>3, <2>2, <2>3, <2>5, <3>1 DEF UploadInv, AfterOriginal
  <2>7. ASSUME NEW t \in Owned, NEW v \in Upload, <<v, "manifest">> \in dirFiles'[t] \ dirFiles[t]
        PROVE  FilesOf(v) \subseteq dirFiles'[t] \/ t \in cleared
    <3>1. t = s /\ v = u /\ file = "manifest"
      BY <2>5, <2>7
    <3>2. /\ <<u, "original">> \in dirFiles[s] \/ s \in cleared
          /\ u \in Previewed => <<u, "preview">> \in dirFiles[s] \/ s \in cleared
      BY <1>1, <1>2, <3>1 DEF UploadInv
    <3> QED
      BY <2>5, <3>1, <3>2 DEF FilesOf
  <2>8. \A t \in Owned : dirFiles[t] \subseteq dirFiles'[t]
    BY <2>5
  <2> HIDE DEF s
  <2> QED
    BY <1>3, <1>4, <2>1, <2>2, <2>5, <2>6, <2>7, <2>8, UploadSteps
<1>7. CASE s \notin dirThere
  <2> DEFINE q == done("failed")
  <2>1. /\ uploading' = [uploading EXCEPT ![u].at = "failed"] /\ since' = since /\ dirFiles' = dirFiles
    BY <1>7 DEF WriteAttachment, Advance
  <2>2. /\ q \in UploadState /\ q.at = "failed" /\ uploading' = [uploading EXCEPT ![u] = q]
    BY <1>5, <2>1
  <2>3. uploading'[u] = q
    BY <1>1, <2>2
  <2> HIDE DEF q, done
  <2>4. UploadInv(u)'
    BY <2>2, <2>3 DEF UploadInv
  <2> QED
    BY <1>1, <1>4, <2>1, <2>2, <2>4, UploadSteps
<1> QED
  BY <1>6, <1>7

-----------------------------------------------------------------------------
(* Deletions: removing *)

\* A step that only removes: records, tasks, chats, directories and files.
Removes ==
  /\ recorded' \subseteq recorded /\ tasked' \subseteq tasked /\ registered' \subseteq registered
  /\ inUse' \subseteq inUse /\ inUse' \subseteq registered'
  /\ inactive' = inactive /\ pinnedSessions' = pinnedSessions
  /\ dirThere' \subseteq dirThere /\ cleared \subseteq cleared' /\ cleared' \subseteq Owned
  /\ dirFiles' \in [Owned -> SUBSET AllFiles]
  /\ \A s \in Owned : dirFiles'[s] = dirFiles[s] \/ (dirFiles'[s] \subseteq dirFiles[s] /\ s \in cleared')
  /\ uploading' = uploading /\ stirs' = stirs
  /\ cleanupFaults' \in 0 .. MaxCleanupFaults

LEMMA NothingRemoved ==
  ASSUME DeletionsInv, UNCHANGED <<recorded, tasked, registered, pinnedSessions, inactive, inUse,
                                   dirThere, dirFiles, cleared, uploading, stirs>>,
         cleanupFaults' = cleanupFaults \/ MayFail
  PROVE  Removes
<1>1. inUse \subseteq registered /\ cleared \subseteq Owned /\ dirFiles \in [Owned -> SUBSET AllFiles]
      /\ cleanupFaults \in 0 .. MaxCleanupFaults
  BY CleanupTypes DEF DeletionsInv
<1>2. cleanupFaults' \in 0 .. MaxCleanupFaults
  BY <1>1, OwnedFacts DEF MayFail
<1> QED
  BY <1>1, <1>2 DEF Removes

LEMMA RemovesFaults ==
  ASSUME DeletionsInv, cleanupFaults' = cleanupFaults \/ MayFail
  PROVE  cleanupFaults' \in 0 .. MaxCleanupFaults
<1>1. cleanupFaults \in 0 .. MaxCleanupFaults
  BY CleanupTypes DEF DeletionsInv
<1> QED
  BY <1>1, OwnedFacts DEF MayFail

\* Removing a directory, a file at a time.
LEMMA RemovesDir ==
  ASSUME DeletionsInv, NEW s \in Owned, RemoveOneFile(s) \/ RemoveEmptyDir(s),
         UNCHANGED <<sessionState, uploading, stirs, cleanupFaults>>
  PROVE  Removes /\ dirThere' \subseteq dirThere
<1>1. /\ recorded' = recorded /\ tasked' = tasked /\ registered' = registered
      /\ pinnedSessions' = pinnedSessions /\ inactive' = inactive /\ inUse' = inUse
      /\ uploading' = uploading /\ stirs' = stirs /\ cleanupFaults' = cleanupFaults
  BY DEF sessionState
<1>2. /\ inUse \subseteq registered /\ cleared \subseteq Owned /\ dirFiles \in [Owned -> SUBSET AllFiles]
      /\ cleanupFaults \in 0 .. MaxCleanupFaults
  BY CleanupTypes DEF DeletionsInv
<1>3. /\ dirThere' \subseteq dirThere /\ cleared \subseteq cleared' /\ cleared' \subseteq Owned
      /\ dirFiles' \in [Owned -> SUBSET AllFiles]
      /\ \A t \in Owned : dirFiles'[t] = dirFiles[t] \/ (dirFiles'[t] \subseteq dirFiles[t] /\ t \in cleared')
  <2>1. CASE RemoveOneFile(s)
    <3>1. PICK f \in dirFiles[s] : dirFiles' = [dirFiles EXCEPT ![s] = @ \ {f}]
      BY <2>1 DEF RemoveOneFile
    <3>2. cleared' = cleared \cup {s} /\ dirThere' = dirThere
      BY <2>1 DEF RemoveOneFile
    <3> QED
      BY <1>2, <3>1, <3>2
  <2>2. CASE RemoveEmptyDir(s)
    BY <1>2, <2>2 DEF RemoveEmptyDir
  <2> QED
    BY <2>1, <2>2
<1> QED
  BY <1>1, <1>2, <1>3 DEF Removes

LEMMA RemovesKeeps ==
  ASSUME Removes
  PROVE  OthersKeep
BY DEF Removes, OthersKeep, Idle

LEMMA RemovesTypes ==
  ASSUME DeletionsInv, Removes, deleting' \in [Owned -> DeletionStage],
         run' \in [CleanupRun -> RunState], since' \in [Party -> SUBSET Owned]
  PROVE  CleanupTypeOK'
<1>1. /\ recorded \subseteq HistorySession /\ tasked \subseteq HistorySession
      /\ registered \subseteq Chat /\ pinnedSessions \subseteq Owned /\ inactive \subseteq Owned
      /\ dirThere \subseteq Owned /\ uploading \in [Upload -> UploadState] /\ stirs \in 0 .. MaxStirs
  BY CleanupTypes DEF DeletionsInv
<1>2. /\ recorded' \subseteq HistorySession /\ tasked' \subseteq HistorySession
      /\ registered' \subseteq Chat /\ pinnedSessions' \subseteq Owned /\ inactive' \subseteq Owned
      /\ dirThere' \subseteq Owned /\ uploading' \in [Upload -> UploadState] /\ stirs' \in 0 .. MaxStirs
      /\ inUse' \subseteq registered' /\ cleared' \subseteq Owned
      /\ dirFiles' \in [Owned -> SUBSET AllFiles] /\ cleanupFaults' \in 0 .. MaxCleanupFaults
  BY <1>1 DEF Removes
<1> QED
  BY <1>2 DEF CleanupTypeOK, UploadState, DeletionStage, RunState, Party

\* A step of the deletion of s.
LEMMA DeletionSteps ==
  ASSUME DeletionsInv, NEW s \in Owned, NEW to \in DeletionStage,
         Removes, deleting' = [deleting EXCEPT ![s] = to], run' = run,
         since' = since \/ since' = [since EXCEPT ![s] = {}],
         s \in HistorySession => DeletionInv(s)'
  PROVE  DeletionsInv'
<1>1. /\ deleting \in [Owned -> DeletionStage] /\ run \in [CleanupRun -> RunState]
      /\ since \in [Party -> SUBSET Owned]
  BY CleanupTypes DEF DeletionsInv
<1>2. /\ deleting' \in [Owned -> DeletionStage] /\ run' \in [CleanupRun -> RunState]
      /\ since' \in [Party -> SUBSET Owned]
      /\ \A t \in Owned : t # s => deleting'[t] = deleting[t]
      /\ \A a \in Party : a # s => since'[a] = since[a]
  BY <1>1
<1>3. OthersKeep
  BY RemovesKeeps
<1>4. AttachmentsInv'
  BY FilesStay DEF Removes
<1>5. ASSUME NEW t \in HistorySession PROVE DeletionInv(t)'
  <2>1. CASE t = s
    BY <2>1
  <2>2. CASE t # s
    BY <1>2, <1>3, <2>2, DeletionStays, OwnedFacts
  <2> QED
    BY <2>1, <2>2
<1>6. ASSUME NEW r \in CleanupRun PROVE CleanedInv(r)'
  <2>1. r \in Party /\ r # s
    BY OwnedFacts
  <2> QED
    BY <1>2, <1>3, <2>1, RunStays
<1>7. CleanupTypeOK'
  BY <1>2, RemovesTypes
<1> QED
  BY <1>4, <1>5, <1>6, <1>7 DEF DeletionsInv

\* A step of the run r.
LEMMA RunSteps ==
  ASSUME DeletionsInv, NEW r \in CleanupRun, NEW q \in RunState, NEW changed \in SUBSET Owned,
         Removes, deleting' = deleting, run' = [run EXCEPT ![r] = q],
         since' = [since EXCEPT ![r] = changed],
         run'[r] = q => CleanedInv(r)'
  PROVE  DeletionsInv'
<1>1. /\ deleting \in [Owned -> DeletionStage] /\ run \in [CleanupRun -> RunState]
      /\ since \in [Party -> SUBSET Owned]
  BY CleanupTypes DEF DeletionsInv
<1>2. /\ deleting' \in [Owned -> DeletionStage] /\ run' \in [CleanupRun -> RunState]
      /\ since' \in [Party -> SUBSET Owned]
      /\ \A t \in CleanupRun : t # r => run'[t] = run[t]
      /\ run'[r] = q
      /\ \A a \in Party : a # r => since'[a] = since[a]
  BY <1>1
<1>3. OthersKeep
  BY RemovesKeeps
<1>4. AttachmentsInv'
  BY FilesStay DEF Removes
<1>5. ASSUME NEW t \in HistorySession PROVE DeletionInv(t)'
  <2>1. t \in Owned /\ t \in Party /\ t # r
    BY OwnedFacts
  <2> QED
    BY <1>2, <1>3, <2>1, DeletionStays
<1>6. ASSUME NEW t \in CleanupRun PROVE CleanedInv(t)'
  <2>1. CASE t = r
    BY <1>2, <2>1
  <2>2. CASE t # r
    BY <1>2, <1>3, <2>2, RunStays, OwnedFacts
  <2> QED
    BY <2>1, <2>2
<1>7. CleanupTypeOK'
  BY <1>2, RemovesTypes
<1> QED
  BY <1>4, <1>5, <1>6, <1>7 DEF DeletionsInv

-----------------------------------------------------------------------------
(* Deletions: the requests *)

LEMMA RequestKeeps ==
  ASSUME DeletionsInv, NEW s \in Owned, RequestDelete(s)
  PROVE  DeletionsInv'
<1> DEFINE to == IF s \in Chat THEN "chat" ELSE "tasks"
<1>1. /\ deleting' = [deleting EXCEPT ![s] = to] /\ since' = [since EXCEPT ![s] = {}]
      /\ UNCHANGED <<recorded, tasked, registered, pinnedSessions, inactive, inUse,
                     dirThere, dirFiles, cleared, uploading, run, stirs, cleanupFaults>>
  BY DEF RequestDelete, After, sessionState, directories
<1>2. Removes
  BY <1>1, NothingRemoved
<1>3. deleting'[s] = to /\ to \in DeletionStage \ {"history", "workspace"}
  BY <1>1, CleanupTypes DEF DeletionsInv, DeletionStage
<1>4. DeletionInv(s)'
  BY <1>3 DEF DeletionInv
<1> HIDE DEF to
<1> QED
  BY <1>1, <1>2, <1>3, <1>4, DeletionSteps

LEMMA DeleteTasksKeeps ==
  ASSUME DeletionsInv, NEW s \in HistorySession, DeleteTasks(s)
  PROVE  DeletionsInv'
<1>1. /\ deleting[s] = "tasks" /\ since' = since /\ run' = run
      /\ UNCHANGED <<recorded, registered, inUse, dirThere, dirFiles, cleared,
                     pinnedSessions, inactive, uploading, stirs>>
  BY DEF DeleteTasks, directories, AfterDeleting
<1>2. s \in Owned /\ deleting \in [Owned -> DeletionStage]
  BY CleanupTypes, OwnedFacts DEF DeletionsInv
<1>3. CASE tasked' = tasked \ {s} /\ After(s, "history") /\ cleanupFaults' = cleanupFaults
  <2>1. deleting' = [deleting EXCEPT ![s] = "history"] /\ "history" \in DeletionStage
    BY <1>3 DEF After, DeletionStage
  <2>2. deleting'[s] = "history"
    BY <1>2, <2>1
  <2>3. DeletionInv(s)'
    BY <1>3, <2>2 DEF DeletionInv
  <2>4. /\ inUse \subseteq registered /\ cleared \subseteq Owned
        /\ dirFiles \in [Owned -> SUBSET AllFiles] /\ cleanupFaults \in 0 .. MaxCleanupFaults
    BY CleanupTypes DEF DeletionsInv
  <2>5. Removes
    BY <1>1, <1>3, <2>4 DEF Removes
  <2> QED
    BY <1>1, <1>2, <2>1, <2>3, <2>5, DeletionSteps
<1>4. CASE MayFail /\ After(s, "failed") /\ tasked' = tasked
  <2>1. deleting' = [deleting EXCEPT ![s] = "failed"] /\ "failed" \in DeletionStage
    BY <1>4 DEF After, DeletionStage
  <2>2. DeletionInv(s)'
    BY <1>2, <2>1 DEF DeletionInv
  <2>3. Removes
    BY <1>1, <1>4, NothingRemoved
  <2> QED
    BY <1>1, <1>2, <2>1, <2>2, <2>3, DeletionSteps
<1> QED
  BY <1>3, <1>4 DEF DeleteTasks

LEMMA DeleteHistoryKeeps ==
  ASSUME DeletionsInv, NEW s \in HistorySession, DeleteHistory(s)
  PROVE  DeletionsInv'
<1>1. /\ deleting[s] = "history" /\ since' = since /\ run' = run
      /\ UNCHANGED <<tasked, registered, inUse, dirThere, dirFiles, cleared,
                     pinnedSessions, inactive, uploading, stirs>>
  BY DEF DeleteHistory, directories, AfterDeleting
<1>2. s \in Owned /\ deleting \in [Owned -> DeletionStage]
  BY CleanupTypes, OwnedFacts DEF DeletionsInv
<1>3. CASE recorded' = recorded \ {s} /\ After(s, "workspace") /\ cleanupFaults' = cleanupFaults
  <2>1. deleting' = [deleting EXCEPT ![s] = "workspace"] /\ "workspace" \in DeletionStage
    BY <1>3 DEF After, DeletionStage
  <2>2. deleting'[s] = "workspace" /\ DeletionInv(s)
    BY <1>2, <2>1 DEF DeletionsInv
  <2>3. DeletionInv(s)'
    BY <1>1, <1>3, <2>2 DEF DeletionInv
  <2>4. /\ inUse \subseteq registered /\ cleared \subseteq Owned
        /\ dirFiles \in [Owned -> SUBSET AllFiles] /\ cleanupFaults \in 0 .. MaxCleanupFaults
    BY CleanupTypes DEF DeletionsInv
  <2>5. Removes
    BY <1>1, <1>3, <2>4 DEF Removes
  <2> QED
    BY <1>1, <1>2, <2>1, <2>3, <2>5, DeletionSteps
<1>4. CASE MayFail /\ HistoryError(s) /\ recorded' = recorded
  <2>1. deleting' = [deleting EXCEPT ![s] = "failed"] /\ "failed" \in DeletionStage
    BY <1>4 DEF After, HistoryError, DeletionStage
  <2>2. DeletionInv(s)'
    BY <1>2, <2>1 DEF DeletionInv
  <2>3. Removes
    BY <1>1, <1>4, NothingRemoved
  <2> QED
    BY <1>1, <1>2, <2>1, <2>2, <2>3, DeletionSteps
<1> QED
  BY <1>3, <1>4 DEF DeleteHistory

LEMMA DeleteWorkspaceKeeps ==
  ASSUME DeletionsInv, NEW s \in HistorySession, DeleteWorkspace(s)
  PROVE  DeletionsInv'
<1>1. /\ deleting[s] = "workspace" /\ since' = since /\ run' = run
      /\ UNCHANGED <<sessionState, uploading, stirs>>
  BY DEF DeleteWorkspace
<1>2. s \in Owned /\ deleting \in [Owned -> DeletionStage] /\ DeletionInv(s)
  BY CleanupTypes, OwnedFacts DEF DeletionsInv
<1>3. CASE RemoveOneFile(s) /\ deleting' = deleting /\ cleanupFaults' = cleanupFaults
  <2>1. deleting' = [deleting EXCEPT ![s] = "workspace"] /\ "workspace" \in DeletionStage
    BY <1>1, <1>2, <1>3 DEF DeletionStage
  <2>2. Removes
    BY <1>1, <1>2, <1>3, RemovesDir
  <2>3. DeletionInv(s)'
    BY <1>1, <1>2, <1>3 DEF DeletionInv, sessionState
  <2> QED
    BY <1>1, <1>2, <2>1, <2>2, <2>3, DeletionSteps
<1>4. CASE RemoveEmptyDir(s) /\ After(s, "deleted") /\ cleanupFaults' = cleanupFaults
  <2>1. deleting' = [deleting EXCEPT ![s] = "deleted"] /\ "deleted" \in DeletionStage
    BY <1>4 DEF After, DeletionStage
  <2>2. Removes
    BY <1>1, <1>2, <1>4, RemovesDir
  <2>3. DeletionInv(s)'
    BY <1>2, <2>1 DEF DeletionInv
  <2> QED
    BY <1>1, <1>2, <2>1, <2>2, <2>3, DeletionSteps
<1>5. CASE MayFail /\ After(s, "failed") /\ UNCHANGED directories
  <2>1. deleting' = [deleting EXCEPT ![s] = "failed"] /\ "failed" \in DeletionStage
    BY <1>5 DEF After, DeletionStage
  <2>2. DeletionInv(s)'
    BY <1>2, <2>1 DEF DeletionInv
  <2>3. Removes
    BY <1>1, <1>5, NothingRemoved DEF directories, sessionState
  <2> QED
    BY <1>1, <1>2, <2>1, <2>2, <2>3, DeletionSteps
<1> QED
  BY <1>3, <1>4, <1>5 DEF DeleteWorkspace

\* The chat goes, and the turn in it.
LEMMA UnregisterRemoves ==
  ASSUME DeletionsInv, NEW c, Unregister(c),
         UNCHANGED <<recorded, tasked, directories, pinnedSessions, inactive, uploading, stirs, cleanupFaults>>
  PROVE  Removes
<1>1. /\ inUse \subseteq registered /\ cleared \subseteq Owned
      /\ dirFiles \in [Owned -> SUBSET AllFiles] /\ cleanupFaults \in 0 .. MaxCleanupFaults
  BY CleanupTypes DEF DeletionsInv
<1> QED
  BY <1>1 DEF Removes, Unregister, directories

LEMMA DeleteChatKeeps ==
  ASSUME DeletionsInv, NEW s \in Chat, DeleteChat(s)
  PROVE  DeletionsInv'
<1>1. /\ since' = since /\ run' = run
      /\ UNCHANGED <<recorded, tasked, directories, pinnedSessions, inactive, uploading, stirs>>
  BY DEF DeleteChat, AfterDeleting
<1>2. s \in Owned /\ s \notin HistorySession
  BY OwnedFacts
<1>3. PICK to \in {"deleted", "failed"} : deleting' = [deleting EXCEPT ![s] = to]
  BY DEF DeleteChat, After
<1>4. to \in DeletionStage
  BY <1>3 DEF DeletionStage
<1>5. Removes
  <2>1. CASE Unregister(s) /\ cleanupFaults' = cleanupFaults
    BY <1>1, <2>1, UnregisterRemoves
  <2>2. CASE registered' = registered /\ inUse' = inUse /\ (cleanupFaults' = cleanupFaults \/ MayFail)
    BY <1>1, <2>2, NothingRemoved DEF directories
  <2> QED
    BY <2>1, <2>2 DEF DeleteChat
<1> QED
  BY <1>1, <1>2, <1>3, <1>4, <1>5, DeletionSteps

-----------------------------------------------------------------------------
(* Deletions: the maintenance run *)

LEMMA RunTyped ==
  ASSUME DeletionsInv, NEW r \in CleanupRun
  PROVE  /\ run[r] \in RunState /\ CleanedInv(r) /\ r \in Party
         /\ since[r] \in SUBSET Owned /\ (since' = since => since' = [since EXCEPT ![r] = since[r]])
         /\ (run' = run => run' = [run EXCEPT ![r] = run[r]])
         /\ \A x \in SUBSET Owned : [since EXCEPT ![r] = x][r] = x
<1>1. run \in [CleanupRun -> RunState] /\ since \in [Party -> SUBSET Owned] /\ r \in Party
  BY CleanupTypes, OwnedFacts DEF DeletionsInv
<1> QED
  BY <1>1 DEF DeletionsInv

LEMMA CleanHistoryKeeps ==
  ASSUME DeletionsInv, NEW r \in CleanupRun, CleanHistory(r)
  PROVE  DeletionsInv'
<1>1. /\ deleting' = deleting
      /\ UNCHANGED <<tasked, registered, inUse, dirThere, dirFiles, cleared,
                     pinnedSessions, inactive, uploading, stirs>>
  BY DEF CleanHistory, directories, AfterRun
<1>2. Expired \subseteq HistorySession /\ HistorySession \subseteq Owned
  BY CleanupTypes, OwnedFacts DEF DeletionsInv, Expired
<1>3. CASE recorded' = recorded \ Expired /\ since' = [since EXCEPT ![r] = {}] /\ cleanupFaults' = cleanupFaults
           /\ run' = [run EXCEPT ![r] = [NoRun EXCEPT !.at = "sessions", !.gone = Expired, !.left = Expired]]
  <2> DEFINE q == [NoRun EXCEPT !.at = "sessions", !.gone = Expired, !.left = Expired]
  <2>1. q \in RunState /\ q.at = "sessions" /\ q.gone = Expired /\ q.left = Expired
    BY <1>2 DEF NoRun, RunState
  <2>2. /\ inUse \subseteq registered /\ cleared \subseteq Owned
        /\ dirFiles \in [Owned -> SUBSET AllFiles] /\ cleanupFaults \in 0 .. MaxCleanupFaults
    BY CleanupTypes DEF DeletionsInv
  <2>3. Removes
    BY <1>1, <1>3, <2>2 DEF Removes
  <2>4. run'[r] = q => CleanedInv(r)'
    BY <1>2, <2>1 DEF CleanedInv
  <2> HIDE DEF q
  <2> QED
    BY <1>1, <1>3, <2>1, <2>3, <2>4, RunSteps DEF q
<1>4. CASE MayFail /\ recorded' = recorded /\ since' = since
           /\ run' = [run EXCEPT ![r] = [NoRun EXCEPT !.at = "done", !.failed = TRUE]]
  <2> DEFINE q == [NoRun EXCEPT !.at = "done", !.failed = TRUE]
  <2>1. q \in RunState /\ q.at = "done" /\ q.gone = {} /\ q.failed
    BY DEF NoRun, RunState
  <2>2. run'[r] = q => CleanedInv(r)'
    BY <2>1 DEF CleanedInv
  <2>3. Removes
    BY <1>1, <1>4, NothingRemoved
  <2>4. since' = [since EXCEPT ![r] = since[r]] /\ since[r] \in SUBSET Owned
    BY <1>4, RunTyped
  <2> HIDE DEF q
  <2> QED
    BY <1>1, <1>4, <2>1, <2>2, <2>3, <2>4, RunSteps DEF q
<1> QED
  BY <1>3, <1>4 DEF CleanHistory

LEMMA CleanTasksKeeps ==
  ASSUME DeletionsInv, NEW r \in CleanupRun, NEW s \in Owned, CleanTasks(r, s)
  PROVE  DeletionsInv'
<1>1. /\ deleting' = deleting /\ since' = since
      /\ UNCHANGED <<recorded, registered, inUse, dirThere, dirFiles, cleared,
                     pinnedSessions, inactive, uploading, stirs>>
  BY DEF CleanTasks, directories, AfterRun
<1>2. /\ run[r].at = "sessions" /\ run[r].next = "none" /\ s \in run[r].left
  BY DEF CleanTasks, InRun
<1>3. run[r] \in RunState /\ CleanedInv(r) /\ "none" \notin Owned /\ run \in [CleanupRun -> RunState]
  BY RunTyped, OwnedFacts, CleanupTypes DEF DeletionsInv
<1>4. since' = [since EXCEPT ![r] = since[r]] /\ since[r] \in SUBSET Owned
  BY <1>1, RunTyped
<1> DEFINE q(ok) == [run[r] EXCEPT !.left = run[r].left \ {s}, !.next = s,
                                   !.failed = IF ok THEN run[r].failed ELSE TRUE]
<1>5. ASSUME NEW ok \in BOOLEAN
      PROVE  /\ q(ok) \in RunState /\ q(ok).at = "sessions" /\ q(ok).gone = run[r].gone
             /\ q(ok).left = run[r].left \ {s} /\ q(ok).next = s
             /\ q(ok).failed = (IF ok THEN run[r].failed ELSE TRUE)
  BY <1>2, <1>3 DEF RunState
<1>6. CASE tasked' = tasked \ {s} /\ cleanupFaults' = cleanupFaults
           /\ run' = [run EXCEPT ![r].left = @ \ {s}, ![r].next = s]
  <2>1. run' = [run EXCEPT ![r] = q(TRUE)]
    <3>1. q(TRUE) = [run[r] EXCEPT !.left = @ \ {s}, !.next = s]
      BY <1>3 DEF RunState
    <3> HIDE DEF q
    <3> QED
      BY <1>3, <1>6, <3>1
  <2>2. /\ inUse \subseteq registered /\ cleared \subseteq Owned
        /\ dirFiles \in [Owned -> SUBSET AllFiles] /\ cleanupFaults \in 0 .. MaxCleanupFaults
    BY CleanupTypes DEF DeletionsInv
  <2>3. Removes
    BY <1>1, <1>6, <2>2 DEF Removes
  <2> HIDE DEF q
  <2>4. /\ q(TRUE) \in RunState /\ q(TRUE).at = "sessions" /\ q(TRUE).gone = run[r].gone
        /\ q(TRUE).left = run[r].left \ {s} /\ q(TRUE).next = s /\ q(TRUE).failed = run[r].failed
    BY <1>5
  <2>5. run'[r] = q(TRUE) => CleanedInv(r)'
    <3> SUFFICES ASSUME run'[r] = q(TRUE) PROVE CleanedInv(r)'
      OBVIOUS
    <3>1. /\ run[r].gone \subseteq HistorySession /\ run[r].left \subseteq run[r].gone
          /\ ~run[r].failed => \A t \in run[r].gone \ since[r] :
               (t \in tasked => t \in run[r].left)
               /\ (t \in dirThere => t \in run[r].left \/ t = run[r].next)
      BY <1>2, <1>3 DEF CleanedInv
    <3>2. HistorySession \subseteq Owned
      BY OwnedFacts
    <3>3. ~run[r].failed => \A t \in run[r].gone \ since'[r] :
            (t \in tasked' => t \in q(TRUE).left)
            /\ (t \in dirThere' => t \in q(TRUE).left \/ t = q(TRUE).next)
      BY <1>1, <1>2, <1>3, <1>6, <2>4, <3>1, <3>2
    <3> QED
      BY <2>4, <3>1, <3>3 DEF CleanedInv
  <2> QED
    BY <1>1, <1>4, <2>1, <2>3, <2>4, <2>5, RunSteps
<1>7. CASE MayFail /\ tasked' = tasked
           /\ run' = [run EXCEPT ![r].left = @ \ {s}, ![r].next = s, ![r].failed = TRUE]
  <2>1. run' = [run EXCEPT ![r] = q(FALSE)]
    <3>1. q(FALSE) = [run[r] EXCEPT !.left = @ \ {s}, !.next = s, !.failed = TRUE]
      BY <1>3 DEF RunState
    <3> HIDE DEF q
    <3> QED
      BY <1>3, <1>7, <3>1
  <2>2. Removes
    BY <1>1, <1>7, NothingRemoved
  <2> HIDE DEF q
  <2>3. /\ q(FALSE) \in RunState /\ q(FALSE).at = "sessions" /\ q(FALSE).gone = run[r].gone
        /\ q(FALSE).left = run[r].left \ {s} /\ q(FALSE).failed
    BY <1>5
  <2>4. run'[r] = q(FALSE) => CleanedInv(r)'
    BY <1>1, <1>2, <1>3, <2>3 DEF CleanedInv
  <2> QED
    BY <1>1, <1>4, <2>1, <2>2, <2>3, <2>4, RunSteps
<1> QED
  BY <1>6, <1>7 DEF CleanTasks

LEMMA CleanWorkspaceKeeps ==
  ASSUME DeletionsInv, NEW r \in CleanupRun, NEW s \in Owned, CleanWorkspace(r, s)
  PROVE  DeletionsInv'
<1>1. /\ deleting' = deleting /\ since' = since
      /\ UNCHANGED <<sessionState, uploading, stirs>>
      /\ run[r].at = "sessions" /\ run[r].next = s
  BY DEF CleanWorkspace, InRun
<1>2. /\ recorded' = recorded /\ tasked' = tasked /\ registered' = registered
      /\ pinnedSessions' = pinnedSessions /\ inactive' = inactive /\ inUse' = inUse
  BY <1>1 DEF sessionState
<1>3. run[r] \in RunState /\ CleanedInv(r) /\ "none" \notin Owned /\ run \in [CleanupRun -> RunState]
  BY RunTyped, OwnedFacts, CleanupTypes DEF DeletionsInv
<1>4. since' = [since EXCEPT ![r] = since[r]] /\ since[r] \in SUBSET Owned
  BY <1>1, RunTyped
<1>5. CASE RemoveOneFile(s) /\ run' = run /\ cleanupFaults' = cleanupFaults
  <2>1. run' = [run EXCEPT ![r] = run[r]]
    BY <1>5, RunTyped
  <2>2. Removes
    BY <1>1, <1>5, RemovesDir
  <2>3. dirThere' = dirThere
    BY <1>5 DEF RemoveOneFile
  <2>4. run'[r] = run[r] => CleanedInv(r)'
    BY <1>1, <1>2, <1>3, <2>3 DEF CleanedInv
  <2> QED
    BY <1>1, <1>3, <1>4, <2>1, <2>2, <2>4, RunSteps
<1>6. CASE RemoveEmptyDir(s) /\ cleanupFaults' = cleanupFaults /\ run' = [run EXCEPT ![r].next = "none"]
  <2> DEFINE q == [run[r] EXCEPT !.next = "none"]
  <2>1. run' = [run EXCEPT ![r] = q]
    BY <1>3, <1>6
  <2>2. /\ q \in RunState /\ q.at = "sessions" /\ q.gone = run[r].gone
        /\ q.left = run[r].left /\ q.next = "none" /\ q.failed = run[r].failed
    BY <1>1, <1>3 DEF RunState
  <2>3. Removes
    BY <1>1, <1>6, RemovesDir
  <2>4. dirThere' = dirThere \ {s}
    BY <1>6 DEF RemoveEmptyDir
  <2> HIDE DEF q
  <2>5. run'[r] = q => CleanedInv(r)'
    BY <1>1, <1>2, <1>3, <2>2, <2>4 DEF CleanedInv
  <2> QED
    BY <1>1, <1>4, <2>1, <2>2, <2>3, <2>5, RunSteps
<1>7. CASE MayFail /\ UNCHANGED directories /\ run' = WorkspaceFailed(r)
  <2> DEFINE q == [run[r] EXCEPT !.next = "none", !.failed = TRUE]
  <2>1. run' = [run EXCEPT ![r] = q]
    BY <1>3, <1>7 DEF WorkspaceFailed
  <2>2. /\ q \in RunState /\ q.at = "sessions" /\ q.gone = run[r].gone
        /\ q.left = run[r].left /\ q.failed
    BY <1>1, <1>3 DEF RunState
  <2>3. Removes
    BY <1>1, <1>2, <1>7, NothingRemoved DEF directories
  <2> HIDE DEF q
  <2>4. run'[r] = q => CleanedInv(r)'
    BY <1>1, <1>2, <1>3, <2>2 DEF CleanedInv
  <2> QED
    BY <1>1, <1>4, <2>1, <2>2, <2>3, <2>4, RunSteps
<1> QED
  BY <1>5, <1>6, <1>7 DEF CleanWorkspace

\* Whoever is listed may be deleted now; what stirs later is known.
LEMMA ListChatsKeeps ==
  ASSUME DeletionsInv, NEW r \in CleanupRun, ListChats(r)
  PROVE  DeletionsInv'
<1>1. /\ deleting' = deleting /\ since' = [since EXCEPT ![r] = @ \ Chat]
      /\ UNCHANGED <<sessionState, directories, uploading, stirs, cleanupFaults>>
      /\ run[r].at = "sessions" /\ run[r].next = "none" /\ run[r].left = {}
      /\ run' = [run EXCEPT ![r].at = "chats", ![r].left = ExpiredChats]
  BY DEF ListChats, InRun
<1>2. /\ UNCHANGED <<recorded, tasked, registered, pinnedSessions, inactive, inUse>>
      /\ UNCHANGED <<dirThere, dirFiles, cleared>>
  BY <1>1 DEF sessionState, directories
<1>3. run[r] \in RunState /\ CleanedInv(r) /\ run \in [CleanupRun -> RunState]
      /\ since \in [Party -> SUBSET Owned] /\ r \in Party
  BY RunTyped, CleanupTypes DEF DeletionsInv
<1>4. ExpiredChats \subseteq Chat /\ ExpiredChats \subseteq Owned /\ \A c \in ExpiredChats : Idle(c)
  BY CleanupTypes, OwnedFacts DEF DeletionsInv, ExpiredChats, Idle
<1> DEFINE q == [run[r] EXCEPT !.at = "chats", !.left = ExpiredChats]
           changed == since[r] \ Chat
<1>5. run' = [run EXCEPT ![r] = q] /\ since' = [since EXCEPT ![r] = changed] /\ changed \in SUBSET Owned
  BY <1>1, <1>3
<1>6. /\ q \in RunState /\ q.at = "chats" /\ q.gone = run[r].gone
      /\ q.left = ExpiredChats /\ q.failed = run[r].failed
  BY <1>1, <1>3, <1>4 DEF RunState
<1>7. Removes
  BY <1>1, <1>2, NothingRemoved
<1>8. since'[r] = changed /\ HistorySession \cap Chat = {} /\ HistorySession \subseteq Owned /\ "none" \notin Owned
  BY <1>3, <1>5, OwnedFacts
<1>9. \A c \in ExpiredChats : Idle(c)'
  BY <1>2, <1>4 DEF Idle
<1> HIDE DEF q
<1>10. run'[r] = q => CleanedInv(r)'
  BY <1>1, <1>2, <1>3, <1>4, <1>6, <1>8, <1>9 DEF CleanedInv
<1> HIDE DEF changed
<1> QED
  BY <1>1, <1>5, <1>6, <1>7, <1>10, RunSteps

LEMMA CleanChatKeeps ==
  ASSUME DeletionsInv, NEW r \in CleanupRun, NEW c \in Owned, CleanChat(r, c)
  PROVE  DeletionsInv'
<1>1. /\ deleting' = deleting /\ since' = since
      /\ UNCHANGED <<recorded, tasked, directories, pinnedSessions, inactive, uploading, stirs>>
      /\ run[r].at = "chats" /\ c \in run[r].left
  BY DEF CleanChat, InRun, AfterRun
<1>2. run[r] \in RunState /\ CleanedInv(r) /\ run \in [CleanupRun -> RunState] /\ r \in Party
  BY RunTyped, CleanupTypes DEF DeletionsInv
<1>3. since' = [since EXCEPT ![r] = since[r]] /\ since[r] \in SUBSET Owned
  BY <1>1, RunTyped
<1>4. Removes
  <2>1. CASE Unregister(c) /\ cleanupFaults' = cleanupFaults
    BY <1>1, <2>1, UnregisterRemoves
  <2>2. CASE registered' = registered /\ inUse' = inUse /\ (cleanupFaults' = cleanupFaults \/ MayFail)
    BY <1>1, <2>2, NothingRemoved DEF directories
  <2> QED
    BY <2>1, <2>2 DEF CleanChat
<1> DEFINE q(ok) == [run[r] EXCEPT !.left = run[r].left \ {c},
                                   !.failed = IF ok THEN run[r].failed ELSE TRUE]
<1>5. ASSUME NEW ok \in BOOLEAN
      PROVE  /\ q(ok) \in RunState /\ q(ok).at = "chats" /\ q(ok).gone = run[r].gone
             /\ q(ok).left = run[r].left \ {c} /\ (q(ok).failed \/ q(ok).failed = run[r].failed)
  BY <1>1, <1>2 DEF RunState
<1>6. PICK ok \in BOOLEAN : run' = [run EXCEPT ![r] = q(ok)]
  <2>1. CASE run' = [run EXCEPT ![r].left = @ \ {c}]
    <3>1. q(TRUE) = [run[r] EXCEPT !.left = @ \ {c}]
      BY <1>2 DEF RunState
    <3> HIDE DEF q
    <3>2. run' = [run EXCEPT ![r] = q(TRUE)]
      BY <1>2, <2>1, <3>1
    <3> QED
      BY <3>2
  <2>2. CASE run' = [run EXCEPT ![r].left = @ \ {c}, ![r].failed = TRUE]
    <3>1. q(FALSE) = [run[r] EXCEPT !.left = @ \ {c}, !.failed = TRUE]
      BY <1>2 DEF RunState
    <3> HIDE DEF q
    <3>2. run' = [run EXCEPT ![r] = q(FALSE)]
      BY <1>2, <2>2, <3>1
    <3> QED
      BY <3>2
  <2> QED
    BY <2>1, <2>2 DEF CleanChat
<1> DEFINE w == q(ok)
<1>7. /\ w \in RunState /\ w.at = "chats" /\ w.gone = run[r].gone
      /\ w.left = run[r].left \ {c} /\ (w.failed \/ w.failed = run[r].failed)
      /\ run' = [run EXCEPT ![r] = w]
  BY <1>5, <1>6
<1>8. \A d \in Chat : d \in registered' => d \in registered /\ (Idle(d) => Idle(d)')
  BY <1>1, <1>4 DEF Removes, Idle
<1> HIDE DEF w, q
<1>9. tasked' = tasked /\ dirThere' = dirThere
  BY <1>1 DEF directories
<1>10. run'[r] = w => CleanedInv(r)'
  BY <1>1, <1>2, <1>7, <1>8, <1>9 DEF CleanedInv
<1> QED
  BY <1>1, <1>3, <1>4, <1>7, <1>10, RunSteps

LEMMA FinishRunKeeps ==
  ASSUME DeletionsInv, NEW r \in CleanupRun, FinishRun(r)
  PROVE  DeletionsInv'
<1>1. /\ deleting' = deleting /\ since' = since
      /\ UNCHANGED <<sessionState, directories, uploading, stirs, cleanupFaults>>
      /\ run[r].at = "chats" /\ run' = [run EXCEPT ![r].at = "done"]
  BY DEF FinishRun, InRun
<1>2. run[r] \in RunState /\ CleanedInv(r) /\ run \in [CleanupRun -> RunState] /\ r \in Party
  BY RunTyped, CleanupTypes DEF DeletionsInv
<1>3. since' = [since EXCEPT ![r] = since[r]] /\ since[r] \in SUBSET Owned
  BY <1>1, RunTyped
<1> DEFINE q == [run[r] EXCEPT !.at = "done"]
<1>4. run' = [run EXCEPT ![r] = q]
  BY <1>1, <1>2
<1>5. /\ q \in RunState /\ q.at = "done" /\ q.gone = run[r].gone /\ q.failed = run[r].failed
  BY <1>2 DEF RunState
<1>6. Removes
  BY <1>1, NothingRemoved DEF sessionState, directories
<1> HIDE DEF q
<1>7. run'[r] = q => CleanedInv(r)'
  BY <1>1, <1>2, <1>5 DEF CleanedInv, sessionState, directories
<1> QED
  BY <1>1, <1>3, <1>4, <1>5, <1>6, <1>7, RunSteps

-----------------------------------------------------------------------------
(* Deletions: every step, and the theorem *)

LEMMA CleanupStepInv == DeletionsInv /\ [CleanupNext]_cleanupVars => DeletionsInv'
<1> SUFFICES ASSUME DeletionsInv, [CleanupNext]_cleanupVars PROVE DeletionsInv'
  OBVIOUS
<1>1. ASSUME NEW s \in HistorySession,
             \/ RecordMessage(s) \/ DeleteTasks(s) \/ DeleteHistory(s) \/ DeleteWorkspace(s)
             \/ \E u \in Upload : LocalizeImage(u, s)
      PROVE  DeletionsInv'
  <2>1. s \in Owned
    BY OwnedFacts
  <2> QED
    BY <1>1, <2>1, StirsKeep, DeleteTasksKeeps, DeleteHistoryKeeps, DeleteWorkspaceKeeps, LocalizeKeeps
<1>2. ASSUME NEW c \in Chat,
             \/ ChatInput(c) \/ ChatTurnEnds(c) \/ DeleteChat(c)
             \/ \E u \in Upload : PrepareAttachmentDir(u, c)
      PROVE  DeletionsInv'
  <2>1. c \in Owned
    BY OwnedFacts
  <2> QED
    BY <1>2, <2>1, StirsKeep, TurnEndsKeeps, DeleteChatKeeps, PrepareKeeps
<1>3. ASSUME NEW s \in Owned, PinSession(s) \/ GrowInactive(s) \/ RequestDelete(s) PROVE DeletionsInv'
  BY <1>3, StirsKeep, GrowInactiveKeeps, RequestKeeps
<1>4. ASSUME NEW u \in Upload, StoreAttachment(u) PROVE DeletionsInv'
  BY <1>4, WriteKeeps DEF StoreAttachment
<1>5. ASSUME NEW r \in CleanupRun, CleanHistory(r) \/ ListChats(r) \/ FinishRun(r) PROVE DeletionsInv'
  BY <1>5, CleanHistoryKeeps, ListChatsKeeps, FinishRunKeeps
<1>6. ASSUME NEW r \in CleanupRun, NEW s \in Owned,
             CleanTasks(r, s) \/ CleanWorkspace(r, s) \/ CleanChat(r, s)
      PROVE  DeletionsInv'
  BY <1>6, CleanTasksKeeps, CleanWorkspaceKeeps, CleanChatKeeps
<1>7. CASE UNCHANGED cleanupVars
  <2>1. /\ CleanupTypeOK' = CleanupTypeOK /\ AttachmentIsWhole' = AttachmentIsWhole
    BY <1>7 DEF cleanupVars, CleanupTypeOK, AttachmentIsWhole
  <2>2. AttachmentsInv'
    BY <1>7, FilesStay DEF cleanupVars
  <2>3. OthersKeep
    BY <1>7 DEF cleanupVars, OthersKeep, Idle
  <2>4. CleanupTypeOK'
    BY <2>1 DEF DeletionsInv
  <2> QED
    BY <1>7, <2>3, <2>4, NobodysStep DEF cleanupVars
<1> QED
  BY <1>1, <1>2, <1>3, <1>4, <1>5, <1>6, <1>7 DEF CleanupNext

LEMMA CleanupInvAlways == CleanupSpec => []DeletionsInv
<1>1. CleanupInit => DeletionsInv
  BY CleanupInitInv
<1>2. DeletionsInv /\ [CleanupNext]_cleanupVars => DeletionsInv'
  BY CleanupStepInv
<1> QED
  BY <1>1, <1>2, PTL DEF CleanupSpec

LEMMA SuccessFollows == DeletionsInv => SuccessIsComplete /\ AttachmentIsWhole
<1> SUFFICES ASSUME DeletionsInv PROVE SuccessIsComplete /\ AttachmentIsWhole
  OBVIOUS
<1>1. AttachmentIsWhole
  BY DEF DeletionsInv, AttachmentsInv
<1>2. SuccessIsComplete
  BY DEF DeletionsInv, CleanedInv, SuccessIsComplete
<1> QED
  BY <1>1, <1>2

\* What answers the DELETE of a session of the history: only the removal of its directory.
LEMMA DeletedStep ==
  ASSUME DeletionsInv, [CleanupNext]_cleanupVars, NEW s \in HistorySession,
         deleting[s] # "deleted", deleting'[s] = "deleted"
  PROVE  DeleteWorkspace(s) /\ RemoveEmptyDir(s)
<1>1. s \in Owned /\ s \notin Chat /\ deleting \in [Owned -> DeletionStage]
  BY OwnedFacts, CleanupTypes DEF DeletionsInv
<1>2. deleting' # deleting
  OBVIOUS
<1>3. ASSUME NEW t \in Owned, NEW to, deleting' = [deleting EXCEPT ![t] = to]
      PROVE  t = s /\ to = "deleted"
  BY <1>1, <1>3
<1>4. PICK t \in Owned :
        \/ t \in HistorySession /\ (DeleteTasks(t) \/ DeleteHistory(t) \/ DeleteWorkspace(t))
        \/ t \in Chat /\ DeleteChat(t)
        \/ RequestDelete(t)
  <2>1. ASSUME NEW t \in HistorySession,
               RecordMessage(t) \/ \E u \in Upload : LocalizeImage(u, t)
        PROVE  FALSE
    BY <1>2, <2>1 DEF RecordMessage, Stir, requestState, LocalizeImage, PrepareAttachmentDir, AfterUpload
  <2>2. ASSUME NEW c \in Chat,
               ChatInput(c) \/ ChatTurnEnds(c) \/ \E u \in Upload : PrepareAttachmentDir(u, c)
        PROVE  FALSE
    BY <1>2, <2>2 DEF ChatInput, ChatTurnEnds, Stir, requestState, PrepareAttachmentDir, AfterUpload
  <2>3. ASSUME NEW t \in Owned, PinSession(t) \/ GrowInactive(t) PROVE FALSE
    BY <1>2, <2>3 DEF PinSession, GrowInactive, Stir, requestState
  <2>4. ASSUME NEW u \in Upload, StoreAttachment(u) PROVE FALSE
    BY <1>2, <2>4 DEF StoreAttachment, WriteAttachment, AfterUpload
  <2>5. ASSUME NEW r \in CleanupRun,
               \/ CleanHistory(r) \/ ListChats(r) \/ FinishRun(r)
               \/ \E t \in Owned : CleanTasks(r, t) \/ CleanWorkspace(r, t) \/ CleanChat(r, t)
        PROVE  FALSE
    BY <1>2, <2>5 DEF CleanHistory, ListChats, FinishRun, CleanTasks, CleanWorkspace, CleanChat, AfterRun
  <2>6. ~UNCHANGED cleanupVars
    BY <1>2 DEF cleanupVars
  <2> QED
    BY <2>1, <2>2, <2>3, <2>4, <2>5, <2>6, OwnedFacts DEF CleanupNext
<1>5. t = s
  BY <1>2, <1>3, <1>4 DEF DeleteTasks, DeleteHistory, HistoryError, DeleteWorkspace, DeleteChat, RequestDelete, After
<1>6. DeleteWorkspace(s)
  BY <1>1, <1>3, <1>4, <1>5 DEF DeleteTasks, DeleteHistory, HistoryError, RequestDelete, After
<1>7. RemoveEmptyDir(s)
  BY <1>1, <1>2, <1>3, <1>6 DEF DeleteWorkspace, After
<1> QED
  BY <1>6, <1>7

LEMMA DeletedEverywhereStep ==
  ASSUME DeletionsInv, [CleanupNext]_cleanupVars
  PROVE  [\A s \in HistorySession :
           deleting[s] # "deleted" /\ deleting'[s] = "deleted" /\ s \notin since[s] =>
             s \notin recorded' \cup tasked' \cup dirThere']_cleanupVars
<1> SUFFICES ASSUME NEW s \in HistorySession, deleting[s] # "deleted", deleting'[s] = "deleted",
                    s \notin since[s]
             PROVE  s \notin recorded' \cup tasked' \cup dirThere'
  OBVIOUS
<1>1. DeleteWorkspace(s) /\ RemoveEmptyDir(s) /\ DeletionInv(s)
  BY DeletedStep DEF DeletionsInv
<1>2. recorded' = recorded /\ tasked' = tasked /\ deleting[s] = "workspace"
  BY <1>1 DEF DeleteWorkspace, sessionState
<1>3. s \notin recorded /\ s \notin tasked
  BY <1>1, <1>2 DEF DeletionInv
<1>4. s \notin dirThere'
  BY <1>1 DEF RemoveEmptyDir
<1> QED
  BY <1>2, <1>3, <1>4

LEMMA OnlyExpiredStep ==
  ASSUME DeletionsInv, [CleanupNext]_cleanupVars
  PROVE  [\A r \in CleanupRun : \A c \in Chat :
           CleanChat(r, c) /\ c \in registered /\ c \notin registered' =>
             \/ c \in inactive /\ c \notin pinnedSessions /\ c \notin inUse
             \/ c \in since[r]]_cleanupVars
<1> SUFFICES ASSUME NEW r \in CleanupRun, NEW c \in Chat, CleanChat(r, c), c \in registered
             PROVE  \/ c \in inactive /\ c \notin pinnedSessions /\ c \notin inUse
                    \/ c \in since[r]
  OBVIOUS
<1>1. run[r].at = "chats" /\ c \in run[r].left /\ CleanedInv(r)
  BY DEF CleanChat, InRun, DeletionsInv
<1> QED
  BY <1>1 DEF CleanedInv, Idle

\* Deletions and cleanups that overlap, fail and are repeated take all of a session, and
\* of no other: a DELETE that succeeds has left nothing of the session, a run that
\* succeeds has removed the tasks and the directory of every session it took out of the
\* history and deletes only chats that nobody uses, and an attachment that a reader can
\* resolve is whole (server.go, server_chat_runtime.go, maintenance.go).
THEOREM DeletionsAreCompleteAlways == CleanupSpec => DeletionsAreComplete
<1>1. CleanupSpec => []DeletionsInv
  BY CleanupInvAlways
<1>2. DeletionsInv /\ [CleanupNext]_cleanupVars =>
        [\A s \in HistorySession :
           deleting[s] # "deleted" /\ deleting'[s] = "deleted" /\ s \notin since[s] =>
             s \notin recorded' \cup tasked' \cup dirThere']_cleanupVars
  BY DeletedEverywhereStep
<1>3. DeletionsInv /\ [CleanupNext]_cleanupVars =>
        [\A r \in CleanupRun : \A c \in Chat :
           CleanChat(r, c) /\ c \in registered /\ c \notin registered' =>
             \/ c \in inactive /\ c \notin pinnedSessions /\ c \notin inUse
             \/ c \in since[r]]_cleanupVars
  BY OnlyExpiredStep
<1>4. DeletionsInv => SuccessIsComplete /\ AttachmentIsWhole
  BY SuccessFollows
<1>5. CleanupSpec => DeletedEverywhere
  BY <1>1, <1>2, PTL DEF CleanupSpec, DeletedEverywhere
<1>6. CleanupSpec => OnlyExpiredChats
  BY <1>1, <1>3, PTL DEF CleanupSpec, OnlyExpiredChats
<1>7. CleanupSpec => []SuccessIsComplete /\ []AttachmentIsWhole
  BY <1>1, <1>4, PTL
<1> QED
  BY <1>5, <1>6, <1>7 DEF DeletionsAreComplete

=============================================================================
