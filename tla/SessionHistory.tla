--------------------------- MODULE SessionHistory ---------------------------
(***************************************************************************)
(* The session history: internal/session/application/service.go, the file  *)
(* store behind it (storage/infrastructure/localfile/session_store.go) and *)
(* the service that appends to it around every handled message             *)
(* (orchestration/application/session_persistence_service.go).             *)
(*                                                                         *)
(* The service keeps every record in one slice and, per session, a list of *)
(* positions that an append keeps sorted by time.  Every change rewrites   *)
(* the whole layout, one file per session, while the lock is held; a save  *)
(* that fails puts memory back but not the files.                          *)
(***************************************************************************)
EXTENDS Naturals, Sequences, FiniteSets, SequencesExt

CONSTANTS
  Session,       \* 1 .. n: session ids, lower-case as the program makes them
  FileOf,        \* the number of the file a session id is sanitised to
  Legacy,        \* a file of the previous layout
  OldSession,    \* the sessions that may have been left in it
  Message,       \* the messages that are handled
  IdRank,        \* the order of the records' message ids
  MaxTime,       \* bound: the clock
  InactiveFor,   \* sessions silent for longer are cleaned up
  MaxIncidents,  \* bound: deletions, pins, touches, cleanups and faults
  MaxFaults      \* bound: failing saves and crashes

File == {FileOf[s] : s \in Session} \cup {Legacy}
Role == {"user", "assistant"}

ASSUME HistoryAssumption ==
  /\ Session \subseteq Nat /\ IsFiniteSet(Session) /\ OldSession \subseteq Session
  /\ Message \subseteq Nat \ {0} /\ \A m \in Message \cup {0}, role \in Role : IdRank[<<m, role>>] \in Nat
  /\ MaxTime \in Nat \ {0} /\ InactiveFor \in Nat \ {0}
  /\ MaxIncidents \in Nat /\ MaxFaults \in Nat
  /\ File \subseteq Nat /\ Legacy \notin {FileOf[s] : s \in Session}

VARIABLES
  clock,
  message,    \* a handled message: where its handler is
  records,    \* Service.records
  bySession,  \* Service.bySession: positions in records
  files,      \* the sessions directory
  historyUp,  \* the process runs
  faults, requests,
            \* history of the run, read by the properties only
  ordered,  \* how the indexes are: by time; as the slice is, after a removal
            \* rebuilt them; or neither, after one of the others was appended to
  synced,   \* the last save succeeded
  cutShort  \* the move from the previous layout was interrupted

historyVars == <<clock, message, records, bySession, files, historyUp, faults,
                 requests, ordered, synced, cutShort>>

Record == [msg : Message \cup {0}, role : Role, sess : Session, at : 1 .. MaxTime,
           pinned : BOOLEAN, active : 0 .. MaxTime]
Missing == [st |-> "missing", recs |-> <<>>]
Torn == [st |-> "torn", recs |-> <<>>]
Full(recs) == [st |-> "full", recs |-> recs]
NoIndex == [s \in Session |-> <<>>]

NewRecord(m, role, s, t) ==
  [msg |-> m, role |-> role, sess |-> s, at |-> t, pinned |-> FALSE, active |-> 0]

(***************************************************************************)
(* Indexes                                                                 *)
(***************************************************************************)

\* The members of a finite set in a strict order: the k-th is the one that all
\* but k are after.
Ranked(S, Before(_, _)) ==
  [k \in 1 .. Cardinality(S) |-> CHOOSE x \in S : Cardinality({y \in S : ~Before(x, y)}) = k]

\* The records at some positions of a slice, in its order.
InOrder(positions) == Ranked(positions, LAMBDA i, j : i < j)
At(recs, positions) ==
  LET order == InOrder(positions) IN [k \in DOMAIN order |-> recs[order[k]]]

\* sort.Search: the bisection for the first place where a sequence of answers
\* is TRUE, which it finds only when all answers after it are TRUE.
SearchFirst(holds) ==
  LET End == Len(holds) + 1
      find[s \in (1 .. End) \X (1 .. End)] ==
        LET h == (s[1] + s[2]) \div 2
        IN IF s[1] >= s[2] THEN s[1]
           ELSE IF holds[h] THEN find[<<s[1], h>>] ELSE find[<<h + 1, s[2]>>]
  IN find[<<1, End>>]

AppendedLast(recs, index, r) ==   \* mutant: the time is not looked at
  [recs |-> Append(recs, r),
   index |-> [index EXCEPT ![r.sess] = Append(@, Len(recs) + 1)]]

\* appendLocked: after the records of the session that are not later.
AppendLocked(recs, index, r) ==
  LET ix == index[r.sess]
      at == SearchFirst([k \in DOMAIN ix |-> recs[ix[k]].at > r.at])
  IN [recs |-> Append(recs, r),
      index |-> [index EXCEPT ![r.sess] = InsertAt(ix, at, Len(recs) + 1)]]

\* buildSessionIndexes: the order of the slice.
BuildSessionIndexes(recs) ==
  [s \in Session |-> InOrder({i \in 1 .. Len(recs) : recs[i].sess = s})]

Without(recs, gone) == At(recs, {i \in 1 .. Len(recs) : recs[i].sess \notin gone})

LastRecord(recs, ix) == recs[ix[Len(ix)]]

\* sessionSummaryLocked, as far as the cleanup reads it.
Pinned(recs, ix) == \E k \in 1 .. Len(ix) : recs[ix[k]].pinned
LastActive(recs, ix) ==
  LET touched == {recs[ix[k]].active : k \in 1 .. Len(ix)} \cup {LastRecord(recs, ix).at}
  IN CHOOSE t \in touched : \A u \in touched : u <= t

\* rangeBoundsLocked: the records from one time to another, both included.
Between(recs, ix, from, to) ==
  LET first == SearchFirst([k \in DOMAIN ix |-> recs[ix[k]].at >= from])
      last == SearchFirst([k \in DOMAIN ix |-> recs[ix[k]].at > to]) - 1
  IN IF to < from THEN <<>> ELSE SubSeq(ix, first, last)

(***************************************************************************)
(* The files                                                               *)
(***************************************************************************)

\* groupSessionRecords: the sessions in the order their first record has.
Groups(recs) ==
  LET firsts == {i \in 1 .. Len(recs) : \A j \in 1 .. i - 1 : recs[j].sess # recs[i].sess}
  IN [k \in DOMAIN InOrder(firsts) |-> At(recs, firsts)[k].sess]

Content(recs, s) == At(recs, {i \in 1 .. Len(recs) : recs[i].sess = s})

\* The directory after the first n groups were written; a group whose id is
\* sanitised to the same name overwrites the earlier one.
Written(d, recs, n) ==
  LET g == Groups(recs)
  IN [f \in File |->
        LET k == {i \in 1 .. n : FileOf[g[i]] = f}
        IN IF k = {} THEN d[f]
           ELSE Full(Content(recs, g[CHOOSE i \in k : \A j \in k : j <= i]))]

KeptFiles(recs) == {FileOf[recs[i].sess] : i \in 1 .. Len(recs)}

WithLeftovers(d, recs) ==   \* mutant: files without a session stay
  Written(d, recs, Len(Groups(recs)))

\* saveSessionLayoutLocked, to the end ...
SavedLayout(d, recs) ==
  LET written == Written(d, recs, Len(Groups(recs)))
      kept == KeptFiles(recs)
  IN [f \in File |-> IF f \in kept THEN written[f] ELSE Missing]

\* ... and as far as it gets when it fails or the process dies: some groups
\* written, the next one possibly truncated, or some old files not removed.
PartialLayouts(d, recs) ==
  LET g == Groups(recs)
      n == Len(g)
      first == [k \in 0 .. n |-> Written(d, recs, k)]
  IN {first[k] : k \in 0 .. n}
     \cup {[first[k] EXCEPT ![FileOf[g[k + 1]]] = Torn] : k \in 0 .. n - 1}
     \cup {[f \in File |-> IF f \in gone THEN Missing ELSE first[n][f]] :
             gone \in SUBSET (File \ KeptFiles(recs))}

\* What NewServiceWithStore makes of what Load returned.
LoadOrder(a, b) ==
  \/ a.at < b.at
  \/ a.at = b.at /\ a.sess < b.sess
  \/ a.at = b.at /\ a.sess = b.sess /\ IdRank[<<a.msg, a.role>>] < IdRank[<<b.msg, b.role>>]

\* The files are read one after the other, in the order of their names ...
Places(d) == UNION {{f} \X DOMAIN d[f].recs : f \in File}
LoadedItems(d) ==
  LET place == Ranked(Places(d), LAMBDA p, q : p[1] < q[1] \/ (p[1] = q[1] /\ p[2] < q[2]))
  IN [k \in DOMAIN place |-> d[place[k][1]].recs[place[k][2]]]

\* ... and the sort is stable.
Loaded(d) ==
  LET items == LoadedItems(d)
      Earlier(i, j) == \/ LoadOrder(items[i], items[j])
                       \/ ~LoadOrder(items[j], items[i]) /\ i < j
      from == Ranked(DOMAIN items, Earlier)
  IN [k \in DOMAIN from |-> items[from[k]]]

Indexed(recs) ==
  LET load[n \in 0 .. Len(recs)] ==
        IF n = 0 THEN [recs |-> <<>>, index |-> NoIndex]
        ELSE AppendLocked(load[n - 1].recs, load[n - 1].index, recs[n])
  IN load[Len(recs)]

(***************************************************************************)
(* Saving: storeLocked and what its callers do with the error              *)
(***************************************************************************)

\* A fault counts with the request that it happens to.
MayFault == faults < MaxFaults /\ faults + requests' < MaxIncidents

Commit(recs, index) ==
  /\ records' = recs /\ bySession' = index
  /\ files' = SavedLayout(files, recs)
  /\ synced' = TRUE
  /\ UNCHANGED <<clock, historyUp, faults, cutShort>>

\* The save fails: memory goes back, the files stay as they are.
RollBack(recs) ==
  /\ MayFault /\ faults' = faults + 1
  /\ files' \in PartialLayouts(files, recs)
  /\ synced' = FALSE
  /\ UNCHANGED <<clock, records, bySession, historyUp, ordered, cutShort>>

\* The process dies in the middle of a save; the handlers die with it.
DieSaving(recs) ==
  /\ MayFault /\ faults' = faults + 1
  /\ files' \in PartialLayouts(files, recs) \cup {files}
  /\ historyUp' = FALSE /\ synced' = FALSE
  /\ records' = <<>> /\ bySession' = NoIndex /\ ordered' = "time"
  /\ message' = [m \in Message |->
                   IF message[m].stage \in {"received", "running"}
                   THEN [message[m] EXCEPT !.stage = "lost"] ELSE message[m]]
  /\ UNCHANGED <<clock, cutShort>>

(***************************************************************************)
(* Handling a message                                                      *)
(***************************************************************************)

Receive(m, s) ==
  /\ historyUp /\ message[m].stage = "new"
  /\ message' = [message EXCEPT ![m] = [stage |-> "received", sess |-> s, at |-> clock]]
  /\ UNCHANGED <<clock, records, bySession, files, historyUp, faults, requests, ordered,
                 synced, cutShort>>

\* Append, of one record; an error is logged and the handler goes on.
AppendRecord(m, r, next) ==
  LET new == AppendLocked(records, bySession, r)
      passed == [message EXCEPT ![m].stage = next]
  IN /\ UNCHANGED requests
     /\ \/ /\ Commit(new.recs, new.index) /\ message' = passed
           /\ ordered' = IF ordered = "slice" THEN "none" ELSE ordered
        \/ RollBack(new.recs) /\ message' = passed
        \/ DieSaving(new.recs)

PersistUserMessage(m) ==
  /\ historyUp /\ message[m].stage = "received"
  /\ AppendRecord(m, NewRecord(m, "user", message[m].sess, message[m].at), "running")

\* persistAssistantResult: stamped with the time of the answer, never before
\* the question's.
PersistAssistantResult(m) ==
  /\ historyUp /\ message[m].stage = "running"
  /\ LET t == IF clock < message[m].at THEN message[m].at ELSE clock
     IN AppendRecord(m, NewRecord(m, "assistant", message[m].sess, t), "done")

(***************************************************************************)
(* The other operations                                                    *)
(***************************************************************************)

Request == faults + requests < MaxIncidents /\ requests' = requests + 1

RemoveSessions(gone) ==
  LET left == Without(records, gone)
  IN \/ Commit(left, BuildSessionIndexes(left)) /\ ordered' = "slice" /\ UNCHANGED message
     \/ RollBack(left) /\ UNCHANGED message
     \/ DieSaving(left)

DeleteSession(s) ==
  /\ historyUp /\ bySession[s] # <<>>
  /\ Request /\ RemoveSessions({s})

Inactive(s, protected) ==
  /\ bySession[s] # <<>>
  /\ ~Pinned(records, bySession[s])
  /\ s \notin protected
  /\ LastActive(records, bySession[s]) + InactiveFor < clock

CleanupInactiveSessions(protected) ==
  /\ historyUp
  /\ \E s \in Session : Inactive(s, protected)
  /\ Request /\ RemoveSessions({s \in Session : Inactive(s, protected)})

\* The records of a session are changed in place.
Marked(s, marked) ==
  /\ historyUp /\ bySession[s] # <<>> /\ Request
  /\ \/ Commit(marked, bySession) /\ UNCHANGED <<ordered, message>>
     \/ RollBack(marked) /\ UNCHANGED message
     \/ DieSaving(marked)

SetSessionPinned(s, p) ==
  Marked(s, [i \in DOMAIN records |->
               IF records[i].sess = s THEN [records[i] EXCEPT !.pinned = p] ELSE records[i]])

TouchSession(s) ==
  Marked(s, LET latest == bySession[s][Len(bySession[s])]
            IN  [records EXCEPT ![latest].active = clock])

\* NewServiceWithStore: any file that cannot be decoded refuses the start; a
\* file that is not where its sessions belong makes Load rewrite the layout.
Start ==
  /\ ~historyUp
  /\ \A f \in File : files[f].st # "torn"
  /\ LET items == LoadedItems(files)
         loaded == Indexed(Loaded(files))
         moved == files[Legacy].st = "full"
     IN \/ /\ historyUp' = TRUE
           /\ records' = loaded.recs /\ bySession' = loaded.index
           /\ files' = IF moved THEN SavedLayout(files, items) ELSE files
           /\ synced' = TRUE
           /\ UNCHANGED <<clock, message, faults, requests, ordered, cutShort>>
        \/ /\ moved
           /\ UNCHANGED requests /\ MayFault /\ faults' = faults + 1
           /\ files' \in PartialLayouts(files, items)
           /\ cutShort' = TRUE
           /\ UNCHANGED <<clock, message, records, bySession, historyUp, ordered, synced>>

Stop ==
  /\ historyUp
  /\ UNCHANGED requests /\ DieSaving(records) /\ files' = files

Tick ==
  /\ clock < MaxTime /\ clock' = clock + 1
  /\ UNCHANGED <<message, records, bySession, files, historyUp, faults, requests, ordered,
                 synced, cutShort>>

HistoryInit ==
  /\ clock = 1
  /\ message = [m \in Message |-> [stage |-> "new", sess |-> 0, at |-> 0]]
  /\ records = <<>> /\ bySession = NoIndex
  /\ \E old \in {Missing} \cup {Full(<<NewRecord(0, "user", s, 1)>>) : s \in OldSession} :
       files = [f \in File |-> IF f = Legacy THEN old ELSE Missing]
  /\ historyUp = FALSE /\ faults = 0 /\ requests = 0
  /\ ordered = "time" /\ synced = TRUE /\ cutShort = FALSE

HistoryNext ==
  \/ \E m \in Message :
       \/ \E s \in Session : Receive(m, s)
       \/ PersistUserMessage(m)
       \/ PersistAssistantResult(m)
  \/ \E s \in Session :
       \/ DeleteSession(s)
       \/ \E p \in BOOLEAN : SetSessionPinned(s, p)
       \/ TouchSession(s)
  \/ CleanupInactiveSessions({})
  \/ Start \/ Stop \/ Tick

HistorySpec == HistoryInit /\ [][HistoryNext]_historyVars

(***************************************************************************)
(* Properties                                                              *)
(***************************************************************************)

Position == 1 .. Len(records)
Indexes(s) == 1 .. Len(bySession[s])

\* Everything has its type.
HistoryTypeOK ==
  /\ clock \in 1 .. MaxTime
  /\ message \in [Message -> [stage : {"new", "received", "running", "done", "lost"},
                              sess : Session \cup {0}, at : 0 .. MaxTime]]
  /\ records \in Seq(Record)
  /\ bySession \in [Session -> Seq(Nat)]
  /\ files \in [File -> [st : {"missing", "torn", "full"}, recs : Seq(Record)]]
  /\ historyUp \in BOOLEAN /\ faults \in 0 .. MaxFaults /\ requests \in 0 .. MaxIncidents
  /\ ordered \in {"time", "slice", "none"} /\ synced \in BOOLEAN /\ cutShort \in BOOLEAN

\* The index of a session lists exactly the records of the session, each
\* once, through appends, rebuilds, rollbacks and loads.
IndexIsExact ==
  \A s \in Session :
    /\ \A k \in Indexes(s) : bySession[s][k] \in Position
    /\ \A i \in Indexes(s), j \in Indexes(s) : bySession[s][i] = bySession[s][j] => i = j
    /\ \A i \in Position :
         records[i].sess = s <=> \E k \in Indexes(s) : bySession[s][k] = i

\* The conversation of a session is listed in the order of time, as long as no
\* removal has rebuilt the indexes: appends may come late, because a message
\* is stamped when it is received and appended when its handler runs.
ListedInOrder ==
  ordered = "time" =>
    \A s \in Session : \A i, j \in Indexes(s) :
      i < j => records[bySession[s][i]].at <= records[bySession[s][j]].at

\* A query for a span of time returns the records of that span, all of them
\* and no other, with the same proviso: the bisection needs the order.
SpanIsExact ==
  ordered = "time" =>
    \A s \in {s \in Session : bySession[s] # <<>>}, from, to \in 1 .. MaxTime :
      from <= to =>
        ToSet(Between(records, bySession[s], from, to)) =
          {i \in Position : records[i].sess = s /\ records[i].at \in from .. to}

\* An answer is stored and listed after its question, through removals and
\* loads (answers that got the time of their question may change places on a
\* load, which orders equal times by message id).  Once something was appended
\* to indexes that a removal rebuilt, the listing may break this.
QuestionFirst ==
  LET Answers(b, a) == a.msg = b.msg /\ a.role = "user" /\ b.role = "assistant" /\ a.at < b.at
  IN /\ \A i, j \in Position : Answers(records[j], records[i]) => i < j
     /\ ordered # "none" =>
          \A s \in Session : \A i, j \in Indexes(s) :
            Answers(records[bySession[s][j]], records[bySession[s][i]]) => i < j

OwnFile(s) == \A t \in Session : FileOf[t] = FileOf[s] => t = s

\* After a save that succeeded the directory holds what memory holds, so that
\* a restart finds every record, and none of a session that was deleted.
\* Sessions whose ids are sanitised to the same file name lose this.
SavedIsComplete ==
  historyUp /\ synced =>
    /\ \A s \in Session : OwnFile(s) =>
         IF bySession[s] = <<>> THEN files[FileOf[s]] = Missing
         ELSE /\ files[FileOf[s]].st = "full"
              /\ ToSet(files[FileOf[s]].recs) = ToSet(Content(records, s))
    /\ files[Legacy] = Missing

\* No record is there twice, unless the move from the previous layout was cut
\* short and left a session in both places.
NoTwins ==
  ~cutShort =>
    \A i, j \in Position :
      records[i].msg = records[j].msg /\ records[i].role = records[j].role => i = j

Vanishes(s) == bySession[s] # <<>> /\ bySession'[s] = <<>> /\ historyUp'

\* The cleanup takes no session that is pinned, nor one with a record or a
\* touch in the inactivity span; after a rebuild the last position need not
\* be the latest record, and the second half is lost.
CleanupSparesTheActive ==
  [][\A s \in Session :
       Vanishes(s) /\ CleanupInactiveSessions({}) =>
         /\ \A i \in Position : records[i].sess = s => ~records[i].pinned
         /\ ordered = "time" => \A i \in Position :
              records[i].sess = s =>
                records[i].at + InactiveFor < clock /\ records[i].active + InactiveFor < clock
    ]_historyVars

\* The history a page, a cleanup or a restart reads is the one that was
\* written, through late appends, removals, failing saves and crashes.
HistoryIsSound ==
  /\ HistoryTypeOK /\ IndexIsExact /\ ListedInOrder /\ SpanIsExact /\ QuestionFirst
  /\ SavedIsComplete /\ NoTwins

=============================================================================
