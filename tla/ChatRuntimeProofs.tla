-------------------------- MODULE ChatRuntimeProofs --------------------------
(***************************************************************************)
(* Proofs about ChatRuntime, for any number of goroutines, objects and     *)
(* prompts: type correctness and deletion, then one turn at a time and a   *)
(* driver for every busy session.                                          *)
(*                                                                         *)
(* The flags of a session object and the goroutines that work on it change *)
(* in different steps; WorkInv ties them together.  Most steps are quiet:  *)
(* they neither start nor end a turn, whatever they save.  The others      *)
(* begin a turn on a session that nobody drives, or end the driver's own.  *)
(***************************************************************************)
EXTENDS ChatRuntime, TLAPS

(* Types of the data operators *)

\* A function on an initial segment of the naturals is a sequence.
LEMMA FunctionIsSeq ==
  ASSUME NEW S, NEW n \in Nat, NEW f \in [1 .. n -> S]
  PROVE  f \in Seq(S)
BY SMT

\* Changing the status of a turn leaves a session a session.
LEMMA SetTurnType ==
  ASSUME NEW s \in Session, NEW t, NEW st,
         t \in DOMAIN s.turns => st \in TurnStatus
  PROVE  SetTurn(s, t, st) \in Session
<1> DEFINE new == [s.turns EXCEPT ![t].st = st]
<1>1. s.turns \in [1 .. Len(s.turns) -> Turn] /\ Len(s.turns) \in Nat
  BY DEF Session
<1>2. t \in DOMAIN s.turns => [s.turns[t] EXCEPT !.st = st] \in Turn
  BY <1>1 DEF Turn
<1>3. new \in [1 .. Len(s.turns) -> Turn]
  BY <1>1, <1>2
<1>4. new \in Seq(Turn)
  BY <1>1, <1>3, FunctionIsSeq
<1> QED
  BY <1>4 DEF SetTurn, Session

\* What is read back from a record is a session.
LEMMA RestoredType ==
  ASSUME NEW rec \in Record
  PROVE  Restored(rec) \in Session
<1> DEFINE new == [i \in DOMAIN rec.turns |->
                     [rec.turns[i] EXCEPT !.st = IF @ = "running"
                                                 THEN "interrupted" ELSE @]]
<1>1. rec.turns \in [1 .. Len(rec.turns) -> Turn] /\ Len(rec.turns) \in Nat
  BY DEF Record
<1>2. \A t \in Turn : [t EXCEPT !.st = IF @ = "running" THEN "interrupted" ELSE @] \in Turn
  BY DEF Turn, TurnStatus, Terminal
<1>3. new \in [1 .. Len(rec.turns) -> Turn]
  BY <1>1, <1>2
<1>4. new \in Seq(Turn)
  BY <1>1, <1>3, FunctionIsSeq
<1> HIDE DEF new
<1> QED
  BY <1>4 DEF Restored, Session, Record, SessionStatus, RepoStatus, new

\* What is saved of a session is a record.
LEMMA PersistedType ==
  ASSUME NEW s \in Session
  PROVE  Persisted(s) \in Record
BY DEF Session, Record, Persisted

\* The initial values are of their types.
LEMMA InitialTypes == Idle \in Goroutine /\ NewSession \in Session /\ NoRecord \in Record
BY BoundsAssumption DEF Idle, Goroutine, Label, Record, NoRecord, NewSession, Session,
   SessionStatus, RepoStatus, AllOps, Resumption

-----------------------------------------------------------------------------
(* Type correctness *)

TypeInv == TypeOK /\ GoroutinesInv

\* A goroutine at work holds an allocated object.
LEMMA MineType ==
  ASSUME TypeInv, NEW r \in Proc, g[r].pc \in Holding
  PROVE  g[r].obj \in 1 .. used /\ g[r].obj \in Obj /\ Mine(r) \in Session
<1>1. g[r].obj \in 1 .. used
  BY DEF TypeInv, GoroutinesInv
<1>2. used \in 0 .. MaxObj /\ heap \in [Obj -> Session]
  BY DEF TypeInv, TypeOK
<1>3. g[r].obj \in Obj
  BY <1>1, <1>2, BoundsAssumption DEF Obj
<1> QED
  BY <1>1, <1>2, <1>3 DEF Mine

LEMMA TypeInit == Init => TypeInv
<1> SUFFICES ASSUME Init PROVE TypeInv
  OBVIOUS
<1>1. Missing \in File
  BY InitialTypes DEF File, Missing
<1>2. g \in [Proc -> Goroutine] /\ heap \in [Obj -> Session]
  BY InitialTypes DEF Init
<1>3. TypeOK
  <2>1. sess \in 0 .. MaxObj /\ used \in 0 .. MaxObj /\ sent \in 0 .. MaxPrompts
        /\ restarts \in 0 .. MaxRestarts
    BY BoundsAssumption DEF Init
  <2>2. feed \in [Prompt -> {"none", "started"} \cup Terminal]
    BY DEF Init
  <2>3. acked \subseteq Prompt /\ gone \in {"no", "clean", "racy"}
        /\ overlapped \in BOOLEAN /\ rootDone \in BOOLEAN
    BY DEF Init
  <2>4. disk \in File /\ tmp \in File
    BY <1>1 DEF Init
  <2> QED
    BY <1>2, <2>1, <2>2, <2>3, <2>4 DEF TypeOK
<1>4. \A r \in Proc : g[r].pc = "idle" /\ g[r].next = "idle" /\ g[r].op = "none"
  BY DEF Init, Idle
<1>5. sess = 0 /\ used = 0 /\ Reaper \in Proc
  BY DEF Init, Proc
<1>6. GoroutinesInv
  BY <1>4, <1>5 DEF GoroutinesInv, Holding, TurnLabels, TurnOps
<1> QED
  BY <1>3, <1>6 DEF TypeInv

\* What a step leaves a goroutine with, in the terms of GoroutinesInv.
GoodGoroutine(r, gr, n) ==
  /\ gr \in Goroutine
  /\ gr.pc \in Holding => gr.obj \in 1 .. n
  /\ gr.pc \notin Saving \cup {"snapshot"} => gr.next = "idle"
  /\ {gr.pc, gr.next} \cap TurnLabels # {} => gr.op \in TurnOps
  /\ gr.op \in TurnOps => gr.prompt \in Prompt
  /\ "conclude" \in {gr.pc, gr.next} => gr.res \in Terminal
  /\ r = Reaper => gr.op = "none"

LEMMA GoodGoroutines ==
  TypeInv => \A r \in Proc : GoodGoroutine(r, g[r], used)
BY DEF TypeInv, TypeOK, GoroutinesInv, GoodGoroutine

\* A goroutine back from a save is good.
LEMMA ResumedGood ==
  ASSUME TypeInv, NEW r \in Proc, g[r].pc \in Saving \cup {"snapshot"}
  PROVE  GoodGoroutine(r, Resumed(r), used)
<1>1. CASE g[r].next = "idle"
  BY <1>1, InitialTypes DEF Resumed, GoodGoroutine, Idle, Holding, TurnLabels, TurnOps
<1>2. CASE g[r].next # "idle"
  <2>1. GoodGoroutine(r, g[r], used)
    BY GoodGoroutines
  <2>2. g[r].obj \in 1 .. used
    BY <2>1 DEF GoodGoroutine, Saving, Holding, Label
  <2>3. Resumed(r) = [g[r] EXCEPT !.pc = g[r].next, !.next = "idle", !.snap = NoRecord,
                                  !.fd = "none"]
    BY <1>2 DEF Resumed
  <2>4. Resumed(r) \in Goroutine
    <3>1. g[r] \in Goroutine /\ NoRecord \in Record
      BY <2>1, InitialTypes DEF GoodGoroutine
    <3>2. g[r].next \in Label /\ "idle" \in Resumption /\ "none" \in {"none", "tmp", "disk", "lost"}
      BY <3>1 DEF Goroutine, Resumption, Label
    <3> QED
      BY <2>3, <3>1, <3>2 DEF Goroutine
  <2> QED
    BY <2>1, <2>2, <2>3, <2>4, <1>2 DEF GoodGoroutine, Goroutine, TurnLabels, Holding
<1> QED
  BY <1>1, <1>2

\* A step may change the descriptors and the cancellation of other goroutines,
\* never what they are doing.
SameWork(q) ==
  /\ g'[q].pc = g[q].pc /\ g'[q].next = g[q].next /\ g'[q].op = g[q].op
  /\ g'[q].obj = g[q].obj /\ g'[q].prompt = g[q].prompt /\ g'[q].turn = g[q].turn
  /\ g'[q].res = g[q].res

\* A step of r that leaves r good keeps GoroutinesInv.
LEMMA StepOfOne ==
  ASSUME TypeInv, NEW r \in Proc,
         g' \in [Proc -> Goroutine],
         used' \in Nat, used <= used', sess' \in 0 .. used',
         GoodGoroutine(r, g'[r], used'),
         \A q \in Proc \ {r} : SameWork(q),
         ~rootDone' => ~rootDone /\ g'[r].pc \notin {"sweep", "mark"}
  PROVE  GoroutinesInv'
<1>1. used \in Nat
  BY BoundsAssumption DEF TypeInv, TypeOK
<1>2. \A q \in Proc : GoodGoroutine(q, g'[q], used')
  <2> SUFFICES ASSUME NEW q \in Proc \ {r} PROVE GoodGoroutine(q, g'[q], used')
    OBVIOUS
  <2>1. GoodGoroutine(q, g[q], used)
    BY GoodGoroutines
  <2>2. g'[q] \in Goroutine /\ SameWork(q)
    OBVIOUS
  <2>3. 1 .. used \subseteq 1 .. used'
    BY <1>1
  <2> QED
    BY <2>1, <2>2, <2>3 DEF GoodGoroutine, SameWork
<1>3. ~rootDone' => g'[Reaper].pc \notin {"sweep", "mark"}
  BY DEF TypeInv, GoroutinesInv, SameWork, Proc
<1> QED
  BY <1>2, <1>3 DEF GoroutinesInv, GoodGoroutine, Proc

\* Replacing r's record alone.
LEMMA Replaced ==
  ASSUME TypeInv, NEW r \in Proc, NEW gr \in Goroutine, g' = [g EXCEPT ![r] = gr]
  PROVE  /\ g' \in [Proc -> Goroutine] /\ g'[r] = gr
         /\ \A q \in Proc \ {r} : SameWork(q)
<1>1. g \in [Proc -> Goroutine]
  BY DEF TypeInv, TypeOK
<1> QED
  BY <1>1 DEF SameWork

\* A rename or an unlink redirects descriptors.
LEMMA MovedType ==
  ASSUME TypeInv, NEW where,
         \A f \in {"none", "tmp", "disk", "lost"} : where[f] \in {"none", "tmp", "disk", "lost"}
  PROVE  /\ Moved(g, where) \in [Proc -> Goroutine]
         /\ \A q \in Proc :
              /\ Moved(g, where)[q] = [g[q] EXCEPT !.fd = where[g[q].fd]]
              /\ Moved(g, where)[q].pc = g[q].pc /\ Moved(g, where)[q].next = g[q].next
              /\ Moved(g, where)[q].op = g[q].op /\ Moved(g, where)[q].obj = g[q].obj
              /\ Moved(g, where)[q].prompt = g[q].prompt
              /\ Moved(g, where)[q].turn = g[q].turn
              /\ Moved(g, where)[q].res = g[q].res
<1>1. \A q \in Proc : g[q] \in Goroutine
  BY DEF TypeInv, TypeOK
<1>2. \A q \in Proc : g[q].fd \in {"none", "tmp", "disk", "lost"}
  BY <1>1 DEF Goroutine
<1>3. \A q \in Proc : [g[q] EXCEPT !.fd = where[g[q].fd]] \in Goroutine
  BY <1>1, <1>2 DEF Goroutine
<1>4. \A q \in Proc : Moved(g, where)[q] = [g[q] EXCEPT !.fd = where[g[q].fd]]
  BY DEF Moved
<1>5. Moved(g, where) \in [Proc -> Goroutine]
  BY <1>3 DEF Moved
<1> QED
  BY <1>1, <1>4, <1>5 DEF Goroutine

LEMMA WhereTypes ==
  \A f \in {"none", "tmp", "disk", "lost"} :
    /\ Renamed[f] \in {"none", "tmp", "disk", "lost"}
    /\ Unlinked("tmp")[f] \in {"none", "tmp", "disk", "lost"}
    /\ Unlinked("disk")[f] \in {"none", "tmp", "disk", "lost"}
BY DEF Renamed, Unlinked

\* The goroutine that moved the files resumes.
LEMMA MovedAndResumed ==
  ASSUME TypeInv, NEW r \in Proc, NEW gr \in Goroutine, NEW where,
         \A f \in {"none", "tmp", "disk", "lost"} : where[f] \in {"none", "tmp", "disk", "lost"},
         g' = [Moved(g, where) EXCEPT ![r] = gr]
  PROVE  /\ g' \in [Proc -> Goroutine] /\ g'[r] = gr
         /\ \A q \in Proc \ {r} : SameWork(q)
<1>1. Moved(g, where) \in [Proc -> Goroutine]
  BY MovedType
<1>2. g'[r] = gr /\ \A q \in Proc \ {r} : g'[q] = Moved(g, where)[q]
  BY <1>1
<1>3. \A q \in Proc \ {r} : SameWork(q)
  BY <1>2, MovedType DEF SameWork
<1> QED
  BY <1>1, <1>2, <1>3

\* A goroutine that only changes its label keeps what it holds.
LEMMA GotoGood ==
  ASSUME TypeInv, NEW r \in Proc, g[r].pc \in Holding, NEW label \in Holding,
         g[r].pc \in Saving \cup {"snapshot"} \/ label \notin Saving \cup {"snapshot"},
         label \notin Saving \cup {"snapshot"} => g[r].next = "idle",
         label \in TurnLabels => g[r].op \in TurnOps,
         NEW gr \in Goroutine,
         gr.pc = label, gr.next = g[r].next, gr.op = g[r].op, gr.obj = g[r].obj,
         gr.prompt = g[r].prompt, gr.res = g[r].res, label # "conclude"
  PROVE  GoodGoroutine(r, gr, used)
<1>1. GoodGoroutine(r, g[r], used)
  BY GoodGoroutines
<1> QED
  BY <1>1 DEF GoodGoroutine

\* A step of r alone that moves nothing in the map.
LEMMA StepInPlace ==
  ASSUME TypeInv, NEW r \in Proc, NEW gr, GoodGoroutine(r, gr, used),
         gr.pc \notin {"sweep", "mark"}, g' = [g EXCEPT ![r] = gr],
         used' = used, sess' = sess, rootDone' = rootDone
  PROVE  g' \in [Proc -> Goroutine] /\ GoroutinesInv'
<1>1. gr \in Goroutine
  BY DEF GoodGoroutine
<1>2. g' \in [Proc -> Goroutine] /\ g'[r] = gr /\ \A q \in Proc \ {r} : SameWork(q)
  BY <1>1, Replaced
<1>3. used \in Nat /\ sess \in 0 .. used
  BY BoundsAssumption DEF TypeInv, TypeOK, GoroutinesInv
<1> QED
  BY <1>2, <1>3, StepOfOne

\* The steps of a save.
LEMMA TypePersist ==
  ASSUME TypeInv, NEW r \in Proc, Persist(r)
  PROVE  TypeInv'
<1>0. /\ used \in Nat /\ sess \in 0 .. used /\ g[r] \in Goroutine
      /\ ~rootDone => g[r].pc \notin {"sweep", "mark"} \/ r # Reaper
  BY BoundsAssumption DEF TypeInv, TypeOK, GoroutinesInv
<1>1. CASE SnapshotRecord(r)
  <2>1. g[r].pc = "snapshot" /\ Mine(r) \in Session /\ Persisted(Mine(r)) \in Record
    BY <1>1, MineType, PersistedType DEF SnapshotRecord, At, Holding, Label
  <2>2. CASE Mine(r).deleted
    <3>1. GoodGoroutine(r, Resumed(r), used) /\ g' = [g EXCEPT ![r] = Resumed(r)]
      BY <1>1, <2>1, <2>2, ResumedGood DEF SnapshotRecord
    <3>2. Resumed(r).pc \notin {"sweep", "mark"}
      BY <1>0 DEF Resumed, Idle, Goroutine, Resumption
    <3> QED
      <4>1. g' \in [Proc -> Goroutine] /\ GoroutinesInv'
        BY <1>1, <3>1, <3>2, StepInPlace DEF SnapshotRecord
      <4> QED
        BY <1>1, <2>2, <4>1 DEF SnapshotRecord, TypeInv, TypeOK
  <2>3. CASE ~Mine(r).deleted
    <3> DEFINE gr == [g[r] EXCEPT !.pc = "open", !.snap = Persisted(Mine(r))]
    <3>1. g' = [g EXCEPT ![r] = gr] /\ gr \in Goroutine
      BY <1>0, <1>1, <2>1, <2>3 DEF SnapshotRecord, Goroutine, Label
    <3>2. GoodGoroutine(r, gr, used)
      BY <2>1, <3>1, GotoGood DEF Holding, Label, Saving, TurnLabels, Goroutine
    <3> HIDE DEF gr
    <3>3. gr.pc = "open"
      BY <1>0 DEF gr, Goroutine
    <3> QED
      <4>1. g' \in [Proc -> Goroutine] /\ GoroutinesInv'
        BY <1>1, <3>1, <3>2, <3>3, StepInPlace DEF SnapshotRecord
      <4> QED
        BY <1>1, <2>3, <4>1 DEF SnapshotRecord, TypeInv, TypeOK
  <2> QED
    BY <2>2, <2>3
<1>2. CASE OpenTemp(r)
  <2> DEFINE gr == [g[r] EXCEPT !.pc = "write", !.fd = "tmp"]
  <2>1. g' = [g EXCEPT ![r] = gr] /\ gr \in Goroutine /\ g[r].pc = "open"
    BY <1>0, <1>2 DEF OpenTemp, At, Goroutine, Label
  <2>2. GoodGoroutine(r, gr, used)
    BY <2>1, GotoGood DEF Holding, Label, Saving, TurnLabels, Goroutine
  <2>3. gr.pc = "write"
    BY <1>0 DEF Goroutine
  <2>4. tmp' \in File
    BY <1>2, InitialTypes DEF OpenTemp, Empty, File
  <2> HIDE DEF gr
  <2> QED
    <3>1. g' \in [Proc -> Goroutine] /\ GoroutinesInv'
      BY <1>2, <2>1, <2>2, <2>3, StepInPlace DEF OpenTemp
    <3> QED
      BY <1>2, <2>4, <3>1 DEF OpenTemp, TypeInv, TypeOK
<1>3. CASE WriteTemp(r)
  <2> DEFINE gr == [g[r] EXCEPT !.pc = "verify", !.fd = "none"]
  <2>1. g' = [g EXCEPT ![r] = gr] /\ gr \in Goroutine /\ g[r].pc = "write"
    BY <1>0, <1>3 DEF WriteTemp, At, Goroutine, Label
  <2>2. GoodGoroutine(r, gr, used)
    BY <2>1, GotoGood DEF Holding, Label, Saving, TurnLabels, Goroutine
  <2>3. gr.pc = "verify"
    BY <1>0 DEF Goroutine
  <2>4. \A f \in File, rec \in Record : Written(f, rec) \subseteq File
    BY InitialTypes DEF Written, Full, Torn, File
  <2>5. tmp' \in File /\ disk' \in File
    <3>1. tmp \in File /\ disk \in File /\ g[r].snap \in Record
      BY <1>0 DEF TypeInv, TypeOK, Goroutine
    <3>2. \/ tmp' \in Written(tmp, g[r].snap) /\ disk' = disk
          \/ disk' \in Written(disk, g[r].snap) /\ tmp' = tmp
          \/ disk' = disk /\ tmp' = tmp
      BY <1>3 DEF WriteTemp
    <3> QED
      BY <2>4, <3>1, <3>2
  <2> HIDE DEF gr
  <2> QED
    <3>1. g' \in [Proc -> Goroutine] /\ GoroutinesInv'
      BY <1>3, <2>1, <2>2, <2>3, StepInPlace DEF WriteTemp
    <3> QED
      BY <1>3, <2>5, <3>1 DEF WriteTemp, TypeInv, TypeOK
<1>4. CASE VerifyNotDeleted(r)
  <2>1. g[r].pc = "verify"
    BY <1>4 DEF VerifyNotDeleted, At
  <2>2. CASE Mine(r).deleted
    <3>1. GoodGoroutine(r, Resumed(r), used) /\ tmp' = Missing
          /\ g' = [Moved(g, Unlinked("tmp")) EXCEPT ![r] = Resumed(r)]
      BY <1>4, <2>1, <2>2, ResumedGood DEF VerifyNotDeleted, Saving
    <3>2. Resumed(r).pc \notin {"sweep", "mark"}
      BY <1>0 DEF Resumed, Idle, Goroutine, Resumption
    <3>3. /\ g' \in [Proc -> Goroutine] /\ g'[r] = Resumed(r)
          /\ \A q \in Proc \ {r} : SameWork(q)
      BY <3>1, WhereTypes, MovedAndResumed DEF GoodGoroutine
    <3>4. GoroutinesInv'
      BY <1>0, <1>4, <3>1, <3>2, <3>3, StepOfOne DEF VerifyNotDeleted
    <3>5. Missing \in File
      BY InitialTypes DEF Missing, File
    <3> QED
      BY <1>4, <3>1, <3>3, <3>4, <3>5 DEF VerifyNotDeleted, TypeInv, TypeOK
  <2>3. CASE ~Mine(r).deleted
    <3> DEFINE gr == [g[r] EXCEPT !.pc = "commit"]
    <3>1. g' = [g EXCEPT ![r] = gr] /\ gr \in Goroutine
      BY <1>0, <1>4, <2>3 DEF VerifyNotDeleted, Goto, Goroutine, Label
    <3>2. GoodGoroutine(r, gr, used)
      BY <2>1, <3>1, GotoGood DEF Holding, Label, Saving, TurnLabels, Goroutine
    <3>3. gr.pc = "commit"
      BY <1>0 DEF Goroutine
    <3> HIDE DEF gr
    <3> QED
      <4>1. g' \in [Proc -> Goroutine] /\ GoroutinesInv'
        BY <1>4, <3>1, <3>2, <3>3, StepInPlace DEF VerifyNotDeleted
      <4> QED
        BY <1>4, <2>3, <4>1 DEF VerifyNotDeleted, TypeInv, TypeOK
  <2> QED
    BY <2>2, <2>3
<1>5. CASE CommitTemp(r)
  <2>1. GoodGoroutine(r, Resumed(r), used)
    BY <1>5, ResumedGood DEF CommitTemp, At, Saving
  <2>2. Resumed(r).pc \notin {"sweep", "mark"}
    BY <1>0 DEF Resumed, Idle, Goroutine, Resumption
  <2>3. /\ g' \in [Proc -> Goroutine] /\ g'[r] = Resumed(r)
        /\ \A q \in Proc \ {r} : SameWork(q)
    <3>1. CASE tmp.st = "none"
      BY <1>5, <2>1, <3>1, Replaced DEF CommitTemp, GoodGoroutine
    <3>2. CASE tmp.st # "none"
      BY <1>5, <2>1, <3>2, WhereTypes, MovedAndResumed DEF CommitTemp, GoodGoroutine
    <3> QED
      BY <3>1, <3>2
  <2>4. GoroutinesInv'
    BY <1>0, <1>5, <2>1, <2>2, <2>3, StepOfOne DEF CommitTemp
  <2>5. disk' \in File /\ tmp' \in File
    BY <1>5, InitialTypes DEF CommitTemp, TypeInv, TypeOK, Missing, File
  <2> QED
    BY <1>5, <2>3, <2>4, <2>5 DEF CommitTemp, TypeInv, TypeOK
<1>6. CASE SaveFails(r)
  <2>1. GoodGoroutine(r, Resumed(r), used)
    BY <1>6, ResumedGood DEF SaveFails, At, Saving
  <2>2. Resumed(r).pc \notin {"sweep", "mark"}
    BY <1>0 DEF Resumed, Idle, Goroutine, Resumption
  <2>3. /\ g' \in [Proc -> Goroutine] /\ g'[r] = Resumed(r)
        /\ \A q \in Proc \ {r} : SameWork(q)
    <3>1. CASE g' = [g EXCEPT ![r] = Resumed(r)]
      BY <2>1, <3>1, Replaced DEF GoodGoroutine
    <3>2. CASE g' = [Moved(g, Unlinked("tmp")) EXCEPT ![r] = Resumed(r)]
      BY <2>1, <3>2, WhereTypes, MovedAndResumed DEF GoodGoroutine
    <3> QED
      BY <1>6, <3>1, <3>2 DEF SaveFails
  <2>4. GoroutinesInv'
    BY <1>0, <1>6, <2>1, <2>2, <2>3, StepOfOne DEF SaveFails
  <2>5. disk' \in File /\ tmp' \in File
    <3>1. Torn \in File /\ Missing \in File
      BY InitialTypes DEF Torn, Missing, File
    <3> QED
      BY <1>6, <3>1 DEF SaveFails, TypeInv, TypeOK
  <2> QED
    BY <1>6, <2>3, <2>4, <2>5 DEF SaveFails, TypeInv, TypeOK
<1> QED
  BY <1>1, <1>2, <1>3, <1>4, <1>5, <1>6 DEF Persist

\* Everything but the goroutines and the objects.
Rest == <<sess, used, disk, tmp, rootDone, feed, sent, restarts, acked, gone,
          overlapped>>

LEMMA RestTypes ==
  ASSUME TypeInv, UNCHANGED Rest, heap' \in [Obj -> Session],
         g' \in [Proc -> Goroutine], GoroutinesInv'
  PROVE  TypeInv'
BY DEF TypeInv, TypeOK, Rest

LEMMA IdleGood == TypeInv => \A r \in Proc : GoodGoroutine(r, Idle, used)
BY InitialTypes DEF GoodGoroutine, Idle, Holding, TurnLabels, TurnOps

\* A request that ends.
LEMMA ReturnStep ==
  ASSUME TypeInv, NEW r \in Proc, Return(r), UNCHANGED Rest, UNCHANGED heap
  PROVE  TypeInv'
<1>1. g' \in [Proc -> Goroutine] /\ GoroutinesInv'
  BY IdleGood, StepInPlace DEF Return, Rest, Idle
<1> QED
  BY <1>1, RestTypes DEF TypeInv, TypeOK

\* A goroutine that only moves on.
LEMMA MoveOnStep ==
  ASSUME TypeInv, NEW r \in Proc, NEW gr, GoodGoroutine(r, gr, used),
         gr.pc \notin {"sweep", "mark"}, g' = [g EXCEPT ![r] = gr],
         UNCHANGED Rest, UNCHANGED heap
  PROVE  TypeInv'
<1>1. g' \in [Proc -> Goroutine] /\ GoroutinesInv'
  BY StepInPlace DEF Rest
<1> QED
  BY <1>1, RestTypes DEF TypeInv, TypeOK

\* A critical section followed by a save.
LEMMA SaveGood ==
  ASSUME TypeInv, NEW r \in Proc, NEW gr \in Goroutine, NEW next \in Resumption,
         gr.obj \in 1 .. used, gr.op = g[r].op,
         next \in TurnLabels => gr.op \in TurnOps,
         gr.op \in TurnOps => gr.prompt \in Prompt,
         next = "conclude" => gr.res \in Terminal
  PROVE  /\ GoodGoroutine(r, [gr EXCEPT !.pc = "snapshot", !.next = next], used)
         /\ [gr EXCEPT !.pc = "snapshot", !.next = next].pc = "snapshot"
<1> DEFINE new == [gr EXCEPT !.pc = "snapshot", !.next = next]
<1>1. new \in Goroutine /\ new.pc = "snapshot" /\ new.next = next /\ new.op = gr.op
      /\ new.obj = gr.obj /\ new.prompt = gr.prompt /\ new.res = gr.res
  BY DEF Goroutine, Label
<1> HIDE DEF new
<1>2. GoodGoroutine(r, new, used)
  BY <1>1, GoodGoroutines DEF GoodGoroutine, TurnLabels
<1> QED
  BY <1>1, <1>2 DEF new

LEMMA SaveStep ==
  ASSUME TypeInv, NEW r \in Proc, NEW s \in Session, NEW gr \in Goroutine,
         NEW next \in Resumption, gr.obj \in 1 .. used, gr.op = g[r].op,
         next \in TurnLabels => gr.op \in TurnOps,
         gr.op \in TurnOps => gr.prompt \in Prompt,
         next = "conclude" => gr.res \in Terminal,
         Save(r, s, gr, next), UNCHANGED Rest
  PROVE  TypeInv'
<1> DEFINE new == [gr EXCEPT !.pc = "snapshot", !.next = next]
<1>1. GoodGoroutine(r, new, used) /\ new.pc = "snapshot"
  BY SaveGood
<1>2. g' = [g EXCEPT ![r] = new] /\ heap' = [heap EXCEPT ![gr.obj] = s]
  BY DEF Save
<1> HIDE DEF new
<1>3. g' \in [Proc -> Goroutine] /\ GoroutinesInv'
  BY <1>1, <1>2, StepInPlace DEF Rest
<1>4. heap' \in [Obj -> Session]
  BY <1>2 DEF TypeInv, TypeOK
<1> QED
  BY <1>3, <1>4, RestTypes

\* What a goroutine that serves its own session knows.
LEMMA AtWork ==
  ASSUME TypeInv, NEW r \in Proc, g[r].pc \in Holding \ (Saving \cup {"snapshot"})
  PROVE  /\ g[r] \in Goroutine /\ g[r].obj \in 1 .. used /\ Mine(r) \in Session
         /\ g[r].next = "idle"
         /\ g[r].pc \in TurnLabels => g[r].op \in TurnOps
         /\ g[r].op \in TurnOps => g[r].prompt \in Prompt
         /\ GoodGoroutine(r, g[r], used)
BY MineType, GoodGoroutines DEF GoodGoroutine

\* Requests up to the critical section that starts a turn.
LEMMA TypeRequest ==
  ASSUME TypeInv, NEW r \in Proc,
         Reconcile(r) \/ CheckRepository(r) \/ Pin(r) \/ Accept(r) \/ Retry(r)
  PROVE  TypeInv'
<1> DEFINE s == Mine(r)
<1>0. /\ g[r].pc \in Holding \ (Saving \cup {"snapshot"})
      /\ UNCHANGED Rest
  BY DEF Reconcile, CheckRepository, Pin, Accept, Retry, At, Holding, Label, Saving, Rest
<1>a. /\ g[r] \in Goroutine /\ g[r].obj \in 1 .. used /\ s \in Session
      /\ g[r].next = "idle"
      /\ g[r].pc \in TurnLabels => g[r].op \in TurnOps
      /\ g[r].op \in TurnOps => g[r].prompt \in Prompt
      /\ GoodGoroutine(r, g[r], used)
  BY <1>0, AtWork
<1> HIDE DEF s
<1>1. CASE Reconcile(r)
  <2> DEFINE next == AfterReconcile(g[r].op)
  <2>1. next \in {"idle", "accept", "check", "retry"} /\ (next \in TurnLabels => g[r].op \in TurnOps)
    BY DEF AfterReconcile, TurnOps, TurnLabels
  <2>2. CASE Orphaned(s)
    <3> DEFINE s2 == [Interrupt(s, OrphanedTurn(s)) EXCEPT !.active = 0]
    <3>1. s2 \in Session
      <4>1. SetTurn(s, OrphanedTurn(s), "interrupted") \in Session
        BY <1>a, SetTurnType DEF TurnStatus, Terminal
      <4> QED
        BY <4>1 DEF Interrupt, Session, SessionStatus
    <3>2. Save(r, s2, g[r], next)
      BY <1>1, <2>2 DEF Reconcile, s
    <3> QED
      BY <1>0, <1>a, <2>1, <3>1, <3>2, SaveStep DEF Resumption
  <2>3. CASE ~Orphaned(s) /\ next = "idle"
    BY <1>0, <1>1, <2>3, ReturnStep DEF Reconcile, s
  <2>4. CASE ~Orphaned(s) /\ next # "idle"
    <3> DEFINE gr == [g[r] EXCEPT !.pc = next]
    <3>1. g' = [g EXCEPT ![r] = gr] /\ UNCHANGED heap
      BY <1>1, <2>4 DEF Reconcile, Goto, s
    <3>2. gr \in Goroutine /\ gr.pc = next /\ gr.next = "idle" /\ gr.op = g[r].op
          /\ gr.obj = g[r].obj /\ gr.prompt = g[r].prompt
      BY <1>a, <2>1 DEF Goroutine, Label
    <3> HIDE DEF gr
    <3>3. GoodGoroutine(r, gr, used)
      BY <1>a, <2>1, <3>2 DEF GoodGoroutine, TurnLabels
    <3> QED
      BY <1>0, <2>1, <3>1, <3>2, <3>3, MoveOnStep
  <2> QED
    BY <2>2, <2>3, <2>4
<1>2. CASE CheckRepository(r)
  <2>1. CASE s.repo = "none" /\ s.turns # <<>>
    BY <1>0, <1>2, <2>1, ReturnStep DEF CheckRepository, s
  <2>2. CASE ~(s.repo = "none" /\ s.turns # <<>>)
    <3> DEFINE gr == [g[r] EXCEPT !.pc = "accept", !.bind = (s.repo = "none")]
    <3>1. g' = [g EXCEPT ![r] = gr] /\ UNCHANGED heap
      BY <1>2, <2>2 DEF CheckRepository, s
    <3>2. gr \in Goroutine /\ gr.pc = "accept" /\ gr.next = "idle" /\ gr.op = g[r].op
          /\ gr.obj = g[r].obj /\ gr.prompt = g[r].prompt
      BY <1>a DEF Goroutine, Label
    <3>3. g[r].op \in TurnOps
      BY <1>2, <1>a DEF CheckRepository, At, TurnLabels
    <3> HIDE DEF gr
    <3>4. GoodGoroutine(r, gr, used)
      BY <1>a, <3>2, <3>3 DEF GoodGoroutine
    <3> QED
      BY <1>0, <3>1, <3>2, <3>4, MoveOnStep
  <2> QED
    BY <2>1, <2>2
<1>3. CASE Pin(r)
  <2>1. PICK b \in BOOLEAN : Save(r, [s EXCEPT !.pinned = b], g[r], "idle")
    BY <1>3 DEF Pin, s
  <2>2. [s EXCEPT !.pinned = b] \in Session
    BY <1>a DEF Session
  <2> QED
    BY <1>0, <1>a, <2>1, <2>2, SaveStep DEF Resumption, TurnLabels
<1>4. CASE Accept(r)
  <2>1. CASE Return(r) /\ UNCHANGED heap
    BY <1>0, <2>1, ReturnStep
  <2>2. CASE ~(Return(r) /\ UNCHANGED heap)
    <3> DEFINE t == Len(s.turns) + 1
               turn == [prompt |-> g[r].prompt, st |-> "running", steps |-> 0]
               s2 == [s EXCEPT !.repo = IF g[r].bind THEN "preparing" ELSE @,
                               !.closed = FALSE, !.turns = Append(@, turn)]
               gr == [g[r] EXCEPT !.turn = t, !.bind = FALSE]
    <3>1. g[r].op \in TurnOps /\ g[r].prompt \in Prompt
      BY <1>4, <1>a DEF Accept, At, TurnLabels
    <3>2. s.turns \in Seq(Turn) /\ Len(s.turns) \in Nat /\ s.repo \in RepoStatus
      BY <1>a DEF Session
    <3>3. turn \in Turn
      BY <3>1, BoundsAssumption DEF Turn, TurnStatus
    <3>4. Append(s.turns, turn) \in Seq(Turn)
      BY <3>2, <3>3
    <3>a. t \in Nat
      BY <3>2
    <3> HIDE DEF turn
    <3>5. s2 \in Session
      BY <1>a, <3>2, <3>4 DEF Session, RepoStatus
    <3>6. Save(r, Driven(s2, t, r), gr, "announce")
      BY <1>4, <2>2 DEF Accept, s, turn
    <3> HIDE DEF s2, t
    <3>7. gr \in Goroutine /\ gr.obj = g[r].obj /\ gr.op = g[r].op /\ gr.prompt = g[r].prompt
      BY <1>a, <3>a DEF Goroutine
    <3> HIDE DEF gr
    <3>8. Driven(s2, t, r) \in Session
      BY <3>a, <3>5 DEF Driven, Session, SessionStatus
    <3> QED
      BY <1>0, <1>a, <3>1, <3>6, <3>7, <3>8, SaveStep DEF Resumption
  <2> QED
    BY <2>1, <2>2
<1>5. CASE Retry(r)
  <2>1. CASE Return(r) /\ UNCHANGED heap
    BY <1>0, <2>1, ReturnStep
  <2>2. CASE ~(Return(r) /\ UNCHANGED heap)
    <3> DEFINE again(t) == [SetTurn(s, t, "running") EXCEPT !.repo = "preparing"]
    <3>1. PICK t \in RetryTurns(s) :
            Save(r, Driven(again(t), t, r),
                 [g[r] EXCEPT !.turn = t, !.prompt = s.turns[t].prompt], "announce")
      BY <1>5, <2>2 DEF Retry, s
    <3> DEFINE gr == [g[r] EXCEPT !.turn = t, !.prompt = s.turns[t].prompt]
    <3>2. t \in DOMAIN s.turns /\ s.turns \in Seq(Turn)
      BY <1>a DEF RetryTurns, Session
    <3>3. t \in Nat /\ s.turns[t].prompt \in Prompt
      <4>1. s.turns \in [1 .. Len(s.turns) -> Turn] /\ Len(s.turns) \in Nat
        BY <3>2
      <4>2. t \in 1 .. Len(s.turns) /\ s.turns[t] \in Turn
        BY <3>2, <4>1
      <4> QED
        BY <4>1, <4>2 DEF Turn
    <3>4. g[r].op \in TurnOps
      BY <1>5, <1>a DEF Retry, At, TurnLabels
    <3>5. gr \in Goroutine /\ gr.obj = g[r].obj /\ gr.op = g[r].op /\ gr.prompt \in Prompt
      <4>1. s.turns[t].prompt \in 0 .. MaxPrompts
        BY <3>3 DEF Prompt
      <4> QED
        BY <1>a, <3>3, <4>1 DEF Goroutine
    <3>6. SetTurn(s, t, "running") \in Session
      BY <1>a, SetTurnType DEF TurnStatus
    <3>7. again(t) \in Session
      BY <3>6 DEF Session, RepoStatus
    <3> HIDE DEF again, gr
    <3>8. Driven(again(t), t, r) \in Session
      BY <3>3, <3>7 DEF Driven, Session, SessionStatus
    <3> QED
      BY <1>0, <1>a, <3>1, <3>4, <3>5, <3>8, SaveStep DEF Resumption, gr
  <2> QED
    BY <2>1, <2>2
<1> QED
  BY <1>1, <1>2, <1>3, <1>4, <1>5

\* What a driver concludes with is a session, and a word for the feed.
LEMMA ConcludeType ==
  ASSUME NEW r \in Proc, NEW s \in Session, g[r] \in Goroutine
  PROVE  /\ Outcome(r) \in Terminal
         /\ SetTurn(s, g[r].turn, Outcome(r)) \in Session
         /\ ConcludeSession(r, s) \in Session
         /\ Reported(r, s) \in Goroutine
         /\ Reported(r, s).obj = g[r].obj /\ Reported(r, s).op = g[r].op
         /\ Reported(r, s).prompt = g[r].prompt
<1> DEFINE t == g[r].turn
<1>1. Outcome(r) \in Terminal
  BY DEF Outcome, Terminal
<1>2. SetTurn(s, t, Outcome(r)) \in Session
  BY <1>1, SetTurnType DEF TurnStatus
<1>3. ConcludeSession(r, s) \in Session
  <2>1. CASE s.closed
    <3> DEFINE st == IF IsLive(s.turns[t]) THEN "completed" ELSE s.turns[t].st
    <3>1. t \in DOMAIN s.turns => st \in TurnStatus
      <4>1. s.turns \in [1 .. Len(s.turns) -> Turn]
        BY DEF Session
      <4> QED
        BY <4>1 DEF Turn, TurnStatus, Terminal
    <3>2. SetTurn(s, t, st) \in Session
      BY <3>1, SetTurnType
    <3>3. ConcludeSession(r, s) = [SetTurn(s, t, st) EXCEPT !.status = "exited"]
      BY <2>1 DEF ConcludeSession
    <3> HIDE DEF st
    <3> QED
      BY <3>2, <3>3 DEF Session, SessionStatus
  <2>2. CASE ~s.closed
    <3>1. StatusAfter[Outcome(r)] \in SessionStatus
      BY <1>1 DEF StatusAfter, Terminal, SessionStatus
    <3>2. ConcludeSession(r, s) =
            [SetTurn(s, t, Outcome(r)) EXCEPT !.status = StatusAfter[Outcome(r)]]
      BY <2>2 DEF ConcludeSession
    <3> QED
      BY <1>2, <3>1, <3>2 DEF Session
  <2> QED
    BY <2>1, <2>2
<1>4. (IF s.closed THEN "completed" ELSE Outcome(r)) \in Terminal
  BY <1>1 DEF Terminal
<1> QED
  BY <1>1, <1>2, <1>3, <1>4 DEF Reported, Goroutine

\* Calling a cancel function marks a goroutine and nothing else.
LEMMA CancelledType ==
  ASSUME TypeInv, NEW c \in Proc \cup {None}
  PROVE  /\ Cancelled(g, c) \in [Proc -> Goroutine]
         /\ \A q \in Proc :
              /\ Cancelled(g, c)[q].pc = g[q].pc /\ Cancelled(g, c)[q].next = g[q].next
              /\ Cancelled(g, c)[q].op = g[q].op /\ Cancelled(g, c)[q].obj = g[q].obj
              /\ Cancelled(g, c)[q].prompt = g[q].prompt
              /\ Cancelled(g, c)[q].turn = g[q].turn
              /\ Cancelled(g, c)[q].res = g[q].res
              /\ Cancelled(g, c)[q].fd = g[q].fd
<1>1. g \in [Proc -> Goroutine]
  BY DEF TypeInv, TypeOK
<1>2. CASE c = None
  BY <1>1, <1>2 DEF Cancelled
<1>3. CASE c # None
  <2>1. [g[c] EXCEPT !.cancelled = TRUE] \in Goroutine /\ c \in Proc
    BY <1>1, <1>3 DEF Goroutine
  <2>2. Cancelled(g, c) = [g EXCEPT ![c] = [g[c] EXCEPT !.cancelled = TRUE]]
    BY <1>1, <1>3 DEF Cancelled
  <2>3. g[c] \in Goroutine
    BY <1>1, <2>1
  <2> QED
    BY <1>1, <2>1, <2>2, <2>3 DEF Goroutine
<1> QED
  BY <1>2, <1>3

LEMMA CancelledAndReplaced ==
  ASSUME TypeInv, NEW r \in Proc, NEW gr \in Goroutine, NEW c \in Proc \cup {None},
         g' = [Cancelled(g, c) EXCEPT ![r] = gr]
  PROVE  /\ g' \in [Proc -> Goroutine] /\ g'[r] = gr
         /\ \A q \in Proc \ {r} : SameWork(q)
<1>1. Cancelled(g, c) \in [Proc -> Goroutine]
  BY CancelledType
<1>2. g'[r] = gr /\ \A q \in Proc \ {r} : g'[q] = Cancelled(g, c)[q]
  BY <1>1
<1>3. \A q \in Proc \ {r} : SameWork(q)
  BY <1>2, CancelledType DEF SameWork
<1> QED
  BY <1>1, <1>2, <1>3

\* The steps of a driver before its turn ends, and its publications.
LEMMA TypeDrive ==
  ASSUME TypeInv, NEW r \in Proc,
         Announce(r) \/ PrepareRepository(r) \/ CodexEvent(r) \/ CodexExit(r) \/ Conclude(r)
  PROVE  TypeInv'
<1> DEFINE s == Mine(r)
<1>0. g[r].pc \in Holding \ (Saving \cup {"snapshot"}) /\ g[r].pc \in TurnLabels
  BY DEF Announce, PrepareRepository, CodexEvent, CodexExit, Conclude, At, Holding, Label,
         Saving, TurnLabels
<1>a. /\ g[r] \in Goroutine /\ g[r].obj \in 1 .. used /\ s \in Session
      /\ g[r].next = "idle" /\ g[r].op \in TurnOps /\ g[r].prompt \in Prompt
      /\ GoodGoroutine(r, g[r], used)
  BY <1>0, AtWork
<1> HIDE DEF s
<1>b. \A label \in {"prepare", "exec"} :
        /\ GoodGoroutine(r, [g[r] EXCEPT !.pc = label], used)
        /\ [g[r] EXCEPT !.pc = label].pc = label
  <2> SUFFICES ASSUME NEW label \in {"prepare", "exec"}
               PROVE  /\ GoodGoroutine(r, [g[r] EXCEPT !.pc = label], used)
                      /\ [g[r] EXCEPT !.pc = label].pc = label
    OBVIOUS
  <2> DEFINE gr == [g[r] EXCEPT !.pc = label]
  <2>1. gr \in Goroutine /\ gr.pc = label /\ gr.next = "idle" /\ gr.op = g[r].op
        /\ gr.obj = g[r].obj /\ gr.prompt = g[r].prompt
    BY <1>a DEF Goroutine, Label
  <2> HIDE DEF gr
  <2>2. GoodGoroutine(r, gr, used)
    BY <1>a, <2>1 DEF GoodGoroutine
  <2> QED
    BY <2>1, <2>2 DEF gr
<1>1. CASE Announce(r)
  <2>1. g' \in [Proc -> Goroutine] /\ GoroutinesInv'
    BY <1>1, <1>b, StepInPlace DEF Announce, Goto
  <2>2. feed' \in [Prompt -> {"none", "started"} \cup Terminal] /\ acked' \subseteq Prompt
    BY <1>1, <1>a DEF Announce, TypeInv, TypeOK
  <2> QED
    BY <1>1, <2>1, <2>2 DEF Announce, TypeInv, TypeOK
<1>2. CASE PrepareRepository(r)
  <2>1. UNCHANGED Rest
    BY <1>2 DEF PrepareRepository, Rest
  <2>2. CASE s.repo \in {"none", "ready"}
    BY <1>2, <2>1, <2>2, <1>b, MoveOnStep DEF PrepareRepository, Goto, s
  <2>3. CASE Save(r, [s EXCEPT !.repo = "ready"], g[r], "exec")
    <3>1. [s EXCEPT !.repo = "ready"] \in Session
      BY <1>a DEF Session, RepoStatus
    <3> QED
      BY <1>a, <2>1, <2>3, <3>1, SaveStep DEF Resumption
  <2>4. CASE Save(r, [s EXCEPT !.repo = "failed"], [g[r] EXCEPT !.res = "error"], "finish")
    <3> DEFINE gr == [g[r] EXCEPT !.res = "error"]
    <3>1. [s EXCEPT !.repo = "failed"] \in Session
      BY <1>a DEF Session, RepoStatus
    <3>2. gr \in Goroutine /\ gr.op = g[r].op /\ gr.obj = g[r].obj /\ gr.prompt = g[r].prompt
      BY <1>a DEF Goroutine
    <3> HIDE DEF gr
    <3> QED
      BY <1>a, <2>1, <2>4, <3>1, <3>2, SaveStep DEF Resumption, gr
  <2> QED
    BY <1>2, <2>2, <2>3, <2>4 DEF PrepareRepository, s
<1>3. CASE CodexEvent(r)
  <2> DEFINE t == g[r].turn
             new == [s.turns EXCEPT ![t].steps = @ + 1]
  <2>1. /\ s.turns[t].steps < MaxSteps
        /\ Save(r, [s EXCEPT !.turns = new], g[r], "exec")
        /\ UNCHANGED Rest
    BY <1>3 DEF CodexEvent, s, Rest
  <2>2. s.turns \in [1 .. Len(s.turns) -> Turn] /\ Len(s.turns) \in Nat
    BY <1>a DEF Session
  <2>3. t \in DOMAIN s.turns => [s.turns[t] EXCEPT !.steps = @ + 1] \in Turn
    <3> SUFFICES ASSUME t \in DOMAIN s.turns PROVE [s.turns[t] EXCEPT !.steps = @ + 1] \in Turn
      OBVIOUS
    <3>1. s.turns[t] \in Turn
      BY <2>2
    <3>2. s.turns[t].steps + 1 \in 0 .. MaxSteps
      BY <2>1, <3>1, BoundsAssumption DEF Turn
    <3> QED
      BY <3>1, <3>2 DEF Turn
  <2>4. new \in [1 .. Len(s.turns) -> Turn]
    BY <2>2, <2>3
  <2>5. new \in Seq(Turn)
    BY <2>2, <2>4, FunctionIsSeq
  <2> HIDE DEF new
  <2>6. [s EXCEPT !.turns = new] \in Session
    BY <1>a, <2>5 DEF Session
  <2> QED
    BY <1>a, <2>1, <2>6, SaveStep DEF Resumption
<1>4. CASE CodexExit(r)
  <2>1. PICK res \in {"ok", "error", "canceled"} :
          g' = [g EXCEPT ![r] = [g[r] EXCEPT !.pc = "finish", !.res = res]]
    BY <1>4 DEF CodexExit
  <2> DEFINE gr == [g[r] EXCEPT !.pc = "finish", !.res = res]
  <2>2. gr \in Goroutine /\ gr.pc = "finish" /\ gr.next = "idle" /\ gr.op = g[r].op
        /\ gr.obj = g[r].obj /\ gr.prompt = g[r].prompt
    BY <1>a DEF Goroutine, Label
  <2> HIDE DEF gr
  <2>3. GoodGoroutine(r, gr, used)
    BY <1>a, <2>2 DEF GoodGoroutine
  <2>4. UNCHANGED Rest /\ UNCHANGED heap
    BY <1>4 DEF CodexExit, Rest
  <2> QED
    BY <2>1, <2>2, <2>3, <2>4, MoveOnStep DEF gr
<1>5. CASE Conclude(r)
  <2>1. g' \in [Proc -> Goroutine] /\ GoroutinesInv'
    BY <1>5, IdleGood, StepInPlace DEF Conclude, Return, Idle
  <2>2. feed' \in [Prompt -> {"none", "started"} \cup Terminal]
    <3>1. g[r].res \in Terminal
      BY <1>5, <1>a DEF Conclude, At, GoodGoroutine
    <3> QED
      BY <1>5, <3>1 DEF Conclude, TypeInv, TypeOK
  <2> QED
    BY <1>5, <2>1, <2>2 DEF Conclude, TypeInv, TypeOK
<1> QED
  BY <1>1, <1>2, <1>3, <1>4, <1>5

\* The three ways finishTurn goes.
LEMMA TypeFinish ==
  ASSUME TypeInv, NEW r \in Proc, FinishActive(r) \/ FinishSuperseded(r) \/ FinishLate(r)
  PROVE  TypeInv'
<1> DEFINE s == Mine(r)
<1>0. g[r].pc = "finish" /\ UNCHANGED Rest
  BY DEF FinishActive, FinishSuperseded, FinishLate, At, Rest
<1>a. /\ g[r] \in Goroutine /\ g[r].obj \in 1 .. used /\ s \in Session
      /\ g[r].op \in TurnOps /\ g[r].prompt \in Prompt
  BY <1>0, AtWork DEF Holding, Label, Saving, TurnLabels
<1> HIDE DEF s
<1>b. \A x \in Session :
        /\ Outcome(r) \in Terminal
        /\ SetTurn(x, g[r].turn, Outcome(r)) \in Session
        /\ ConcludeSession(r, x) \in Session
        /\ Reported(r, x) \in Goroutine
        /\ Reported(r, x).obj = g[r].obj /\ Reported(r, x).op = g[r].op
        /\ Reported(r, x).prompt = g[r].prompt
        /\ Reported(r, x).res \in Terminal
  <2> SUFFICES ASSUME NEW x \in Session
               PROVE  Outcome(r) \in Terminal /\ Reported(r, x).res \in Terminal
    BY <1>a, ConcludeType
  <2> QED
    BY <1>a DEF Outcome, Terminal, Reported, Goroutine
<1>1. CASE FinishActive(r)
  <2> DEFINE free == Freed(s)
             gr == [Reported(r, s) EXCEPT !.pc = "snapshot", !.next = "conclude"]
  <2>1. free \in Session
    BY <1>a DEF Freed, Session
  <2>2. /\ heap' = [heap EXCEPT ![g[r].obj] = ConcludeSession(r, free)]
        /\ g' = [Cancelled(g, s.cancel) EXCEPT ![r] = gr]
    BY <1>1 DEF FinishActive, s
  <2>3. GoodGoroutine(r, gr, used) /\ gr.pc = "snapshot"
    BY <1>a, <1>b, SaveGood DEF Resumption
  <2> HIDE DEF free, gr
  <2>4. s.cancel \in Proc \cup {None} /\ gr \in Goroutine
    BY <1>a, <2>3 DEF Session, GoodGoroutine
  <2>5. g' \in [Proc -> Goroutine] /\ g'[r] = gr /\ \A q \in Proc \ {r} : SameWork(q)
    BY <2>2, <2>4, CancelledAndReplaced
  <2>6. used' = used /\ sess' = sess /\ rootDone' = rootDone /\ used \in Nat /\ sess \in 0 .. used
    BY <1>0, BoundsAssumption DEF Rest, TypeInv, TypeOK, GoroutinesInv
  <2>7. GoroutinesInv'
    BY <2>3, <2>5, <2>6, StepOfOne
  <2>8. heap' \in [Obj -> Session]
    BY <1>b, <2>1, <2>2 DEF TypeInv, TypeOK
  <2> QED
    BY <1>0, <2>5, <2>7, <2>8, RestTypes
<1>2. CASE FinishSuperseded(r)
  <2> DEFINE gr == [g[r] EXCEPT !.res = Outcome(r)]
  <2>1. Save(r, SetTurn(s, g[r].turn, Outcome(r)), gr, "conclude")
    BY <1>2 DEF FinishSuperseded, s
  <2>2. /\ gr \in Goroutine /\ gr.obj = g[r].obj /\ gr.op = g[r].op
        /\ gr.prompt = g[r].prompt /\ gr.res \in Terminal
    BY <1>a, <1>b DEF Goroutine
  <2> HIDE DEF gr
  <2> QED
    BY <1>0, <1>a, <1>b, <2>1, <2>2, SaveStep DEF Resumption
<1>3. CASE FinishLate(r)
  <2>1. Save(r, ConcludeSession(r, s), Reported(r, s), "conclude")
    BY <1>3 DEF FinishLate, s
  <2> QED
    BY <1>0, <1>a, <1>b, <2>1, SaveStep DEF Resumption
<1> QED
  BY <1>1, <1>2, <1>3

\* A new object gets the next number.
LEMMA InsertType ==
  ASSUME TypeInv, NEW s \in Session, Insert(s)
  PROVE  /\ heap' \in [Obj -> Session] /\ used' \in 0 .. MaxObj
         /\ used' = used + 1 /\ sess' = used' /\ used \in Nat /\ used' \in Nat
         /\ used' \in Obj /\ heap' = [heap EXCEPT ![used'] = s]
BY BoundsAssumption DEF Insert, TypeInv, TypeOK, Obj

\* Requests that look the session up, insert it or remove it.
LEMMA TypeMap ==
  ASSUME TypeInv, NEW r \in Proc,
         Open(r) \/ Lookup(r) \/ LoadRecord(r) \/ Adopt(r) \/ Drop(r) \/ Unlink(r)
  PROVE  TypeInv'
<1>a. /\ used \in Nat /\ sess \in 0 .. used /\ g \in [Proc -> Goroutine] /\ g[r] \in Goroutine
      /\ GoodGoroutine(r, g[r], used)
  BY BoundsAssumption, GoodGoroutines DEF TypeInv, TypeOK, GoroutinesInv
<1>1. CASE Open(r)
  <2>1. Insert(NewSession) /\ NewSession \in Session
    BY <1>1, InitialTypes DEF Open
  <2> DEFINE gr == [g[r] EXCEPT !.pc = "snapshot", !.op = "open", !.obj = used']
  <2>2. gr \in Goroutine /\ gr.pc = "snapshot" /\ gr.op = "open" /\ gr.obj = used'
        /\ gr.next = g[r].next /\ gr.res = g[r].res
    <3>1. used' \in 0 .. MaxObj
      BY <2>1, InsertType
    <3> QED
      BY <1>a, <3>1 DEF Goroutine, Label, AllOps
  <2>3. g' = [g EXCEPT ![r] = gr]
    BY <1>1 DEF Open, Insert
  <2> HIDE DEF gr
  <2>4. g[r].next = "idle"
    BY <1>1, <1>a DEF Open, At, GoodGoroutine, Saving
  <2>5. GoodGoroutine(r, gr, used')
    BY <1>1, <2>1, <2>2, <2>4, InsertType, ProcessAssumption
       DEF Open, GoodGoroutine, TurnLabels, TurnOps, Saving
  <2>6. g' \in [Proc -> Goroutine] /\ g'[r] = gr /\ \A q \in Proc \ {r} : SameWork(q)
    BY <2>2, <2>3, Replaced
  <2>7. GoroutinesInv'
    BY <1>1, <2>1, <2>2, <2>5, <2>6, InsertType, StepOfOne DEF Open
  <2>8. heap' \in [Obj -> Session] /\ used' \in 0 .. MaxObj /\ sess' \in 0 .. MaxObj
    BY <2>1, InsertType
  <2> QED
    BY <1>1, <2>6, <2>7, <2>8 DEF Open, TypeInv, TypeOK
<1>2. CASE Lookup(r)
  <2>1. PICK o \in Ops \ {"open", "stop", "fault"} :
          LET inMap == sess # 0 /\ o # "list"
              input == o \in TurnOps
          IN  /\ input => sent < MaxPrompts
              /\ sent' = IF input THEN sent + 1 ELSE sent
              /\ g' = [g EXCEPT ![r].op = o,
                                ![r].pc = IF inMap THEN Entry(o) ELSE "load",
                                ![r].obj = IF inMap THEN sess ELSE 0,
                                ![r].prompt = IF input THEN sent + 1 ELSE 0]
    BY <1>2 DEF Lookup
  <2> DEFINE inMap == sess # 0 /\ o # "list"
             pc == IF inMap THEN Entry(o) ELSE "load"
             obj == IF inMap THEN sess ELSE 0
             n == IF o \in TurnOps THEN sent + 1 ELSE 0
             gr == [g[r] EXCEPT !.op = o, !.pc = pc, !.obj = obj, !.prompt = n]
  <2>2. /\ pc \in {"drop", "pin", "reconcile", "load"} /\ (pc # "load" => obj \in 1 .. used)
        /\ obj \in 0 .. MaxObj
    BY <1>a, BoundsAssumption DEF Entry, TypeInv, TypeOK
  <2>3. /\ sent' \in 0 .. MaxPrompts /\ n \in 0 .. MaxPrompts
        /\ (o \in TurnOps => n \in Prompt)
    BY <2>1, BoundsAssumption DEF TypeInv, TypeOK, Prompt
  <2>4. o \in AllOps
    BY OpsAssumption
  <2>5. g' = [g EXCEPT ![r] = gr]
    BY <2>1
  <2> HIDE DEF pc, obj, n
  <2>6. gr \in Goroutine /\ gr.pc = pc /\ gr.op = o /\ gr.obj = obj /\ gr.prompt = n
        /\ gr.next = g[r].next /\ gr.res = g[r].res
    BY <1>a, <2>2, <2>3, <2>4 DEF Goroutine, Label
  <2> HIDE DEF gr
  <2>7. g[r].next = "idle"
    BY <1>2, <1>a DEF Lookup, At, GoodGoroutine, Saving
  <2>8. GoodGoroutine(r, gr, used) /\ gr.pc \notin {"sweep", "mark"}
    BY <1>2, <2>2, <2>3, <2>6, <2>7, ProcessAssumption
       DEF Lookup, GoodGoroutine, Holding, TurnLabels
  <2>9. g' \in [Proc -> Goroutine] /\ GoroutinesInv'
    BY <1>2, <2>5, <2>8, StepInPlace DEF Lookup
  <2> QED
    BY <1>2, <2>3, <2>9 DEF Lookup, TypeInv, TypeOK
<1>3. CASE LoadRecord(r)
  <2>1. UNCHANGED Rest /\ UNCHANGED heap /\ g[r].pc = "load"
    BY <1>3 DEF LoadRecord, Rest, At
  <2>2. CASE disk.st # "full"
    BY <1>3, <2>1, <2>2, ReturnStep DEF LoadRecord
  <2>3. CASE disk.st = "full"
    <3> DEFINE gr == [g[r] EXCEPT !.pc = "adopt", !.snap = disk.rec]
    <3>1. g' = [g EXCEPT ![r] = gr]
      BY <1>3, <2>3 DEF LoadRecord
    <3>2. gr \in Goroutine /\ gr.pc = "adopt" /\ gr.next = g[r].next /\ gr.op = g[r].op
          /\ gr.prompt = g[r].prompt
      BY <1>a DEF Goroutine, Label, TypeInv, TypeOK, File
    <3> HIDE DEF gr
    <3>3. GoodGoroutine(r, gr, used)
      BY <1>a, <2>1, <3>2 DEF GoodGoroutine, Holding, TurnLabels, Saving
    <3> QED
      BY <2>1, <3>1, <3>2, <3>3, MoveOnStep
  <2> QED
    BY <2>2, <2>3
<1>4. CASE Adopt(r)
  <2>1. /\ heap' \in [Obj -> Session] /\ used' \in 0 .. MaxObj /\ used' \in Nat
        /\ used <= used' /\ sess' \in 1 .. used' /\ sess' \in 0 .. MaxObj
    <3>1. CASE sess = 0
      <4>1. Restored(g[r].snap) \in Session
        BY <1>a, RestoredType DEF Goroutine
      <4> QED
        BY <1>4, <3>1, <4>1, InsertType DEF Adopt
    <3>2. CASE sess # 0
      BY <1>4, <1>a, <3>2, BoundsAssumption DEF Adopt, TypeInv, TypeOK
    <3> QED
      BY <3>1, <3>2
  <2> DEFINE gr == [g[r] EXCEPT !.pc = Entry(g[r].op), !.obj = sess', !.snap = NoRecord]
  <2>2. g' = [g EXCEPT ![r] = gr] /\ g[r].next = "idle"
    BY <1>4, <1>a DEF Adopt, At, GoodGoroutine, Saving
  <2>3. Entry(g[r].op) \in {"drop", "pin", "reconcile"}
    BY DEF Entry
  <2>4. gr \in Goroutine /\ gr.pc = Entry(g[r].op) /\ gr.next = g[r].next /\ gr.op = g[r].op
        /\ gr.prompt = g[r].prompt /\ gr.obj = sess'
    BY <1>a, <2>1, <2>3, InitialTypes DEF Goroutine, Label
  <2> HIDE DEF gr
  <2>5. GoodGoroutine(r, gr, used') /\ gr.pc \notin {"sweep", "mark"}
    BY <1>a, <2>1, <2>2, <2>3, <2>4 DEF GoodGoroutine, TurnLabels
  <2>6. g' \in [Proc -> Goroutine] /\ g'[r] = gr /\ \A q \in Proc \ {r} : SameWork(q)
    BY <2>2, <2>4, Replaced
  <2>7. GoroutinesInv'
    <3>1. rootDone' = rootDone /\ sess' \in 0 .. used'
      BY <1>4, <2>1 DEF Adopt
    <3>2. GoodGoroutine(r, g'[r], used') /\ g'[r].pc \notin {"sweep", "mark"}
      BY <2>5, <2>6
    <3> QED
      BY <2>1, <2>6, <3>1, <3>2, StepOfOne
  <2> QED
    BY <1>4, <2>1, <2>6, <2>7 DEF Adopt, TypeInv, TypeOK
<1>5. CASE Drop(r)
  <2>1. CASE sess = 0
    BY <1>5, <2>1, ReturnStep DEF Drop, Rest
  <2>2. CASE sess # 0
    <3> DEFINE c == heap[sess].cancel
               gr == [Cancelled(g, c)[r] EXCEPT !.pc = "unlink"]
               s == [heap[sess] EXCEPT !.deleted = TRUE, !.closed = TRUE,
                                       !.cancel = None, !.running = FALSE]
    <3>1. sess \in Obj /\ heap[sess] \in Session
      BY <1>a, <2>2, BoundsAssumption DEF TypeInv, TypeOK, Obj
    <3>2. c \in Proc \cup {None} /\ s \in Session
      BY <3>1 DEF Session
    <3>3. g' = [Cancelled(g, c) EXCEPT ![r] = gr] /\ g[r].next = "idle" /\ g[r].pc = "drop"
      BY <1>5, <1>a, <2>2, <3>2, CancelledType DEF Drop, At, GoodGoroutine, Saving
    <3>4. /\ gr \in Goroutine /\ gr.pc = "unlink" /\ gr.next = g[r].next
          /\ gr.op = g[r].op /\ gr.obj = g[r].obj /\ gr.prompt = g[r].prompt
      <4> DEFINE x == Cancelled(g, c)[r]
      <4>1. x \in Goroutine
        BY <3>2, CancelledType
      <4>2. /\ x.next = g[r].next /\ x.op = g[r].op
            /\ x.obj = g[r].obj /\ x.prompt = g[r].prompt
        BY <3>2, CancelledType
      <4> HIDE DEF x
      <4>3. [x EXCEPT !.pc = "unlink"] \in Goroutine /\ "unlink" \in Label
        BY <4>1 DEF Goroutine, Label
      <4>4. LET y == [x EXCEPT !.pc = "unlink"]
            IN  /\ y.pc = "unlink" /\ y.next = x.next
                /\ y.op = x.op /\ y.obj = x.obj /\ y.prompt = x.prompt
        BY <4>1 DEF Goroutine
      <4> QED
        BY <4>2, <4>3, <4>4 DEF x
    <3>5. heap' = [heap EXCEPT ![sess] = s]
      BY <1>5, <2>2, <3>1 DEF Drop, TypeInv, TypeOK
    <3> HIDE DEF gr, c, s
    <3>6. GoodGoroutine(r, gr, used)
      BY <1>a, <3>3, <3>4 DEF GoodGoroutine, Holding, TurnLabels, Label
    <3>7. g' \in [Proc -> Goroutine] /\ g'[r] = gr /\ \A q \in Proc \ {r} : SameWork(q)
      BY <3>2, <3>3, <3>4, CancelledAndReplaced
    <3>8. used' = used /\ sess' = 0 /\ acked' = {} /\ overlapped' \in BOOLEAN
      BY <1>5, <2>2 DEF Drop, TypeInv, TypeOK
    <3>9. GoroutinesInv'
      BY <1>5, <1>a, <3>4, <3>6, <3>7, <3>8, StepOfOne DEF Drop
    <3>10. heap' \in [Obj -> Session]
      BY <3>2, <3>5 DEF TypeInv, TypeOK
    <3> QED
      BY <1>5, <3>7, <3>8, <3>9, <3>10, BoundsAssumption DEF Drop, TypeInv, TypeOK
  <2> QED
    BY <2>1, <2>2
<1>6. CASE Unlink(r)
  <2>1. GoodGoroutine(r, Idle, used) /\ Idle \in Goroutine /\ Idle.pc = "idle"
    BY IdleGood, InitialTypes DEF Idle
  <2>2. g' = [Moved(g, Unlinked("disk")) EXCEPT ![r] = Idle]
    BY <1>6 DEF Unlink
  <2>3. g' \in [Proc -> Goroutine] /\ g'[r] = Idle /\ \A q \in Proc \ {r} : SameWork(q)
    BY <2>1, <2>2, WhereTypes, MovedAndResumed
  <2>4. GoroutinesInv'
    BY <1>6, <1>a, <2>1, <2>3, StepOfOne DEF Unlink
  <2>5. Missing \in File
    BY InitialTypes DEF Missing, File
  <2> QED
    BY <1>6, <2>3, <2>4, <2>5 DEF Unlink, TypeInv, TypeOK
<1> QED
  BY <1>1, <1>2, <1>3, <1>4, <1>5, <1>6

\* A step of the stop, or a restart.
LEMMA TypeStop ==
  ASSUME TypeInv, CancelRoot \/ Sweep \/ Mark \/ Restart
  PROVE  TypeInv'
<1>a. /\ Reaper \in Proc /\ g[Reaper] \in Goroutine /\ GoodGoroutine(Reaper, g[Reaper], used)
      /\ used \in Nat /\ sess \in 0 .. used
  BY GoodGoroutines, BoundsAssumption DEF Proc, TypeInv, TypeOK, GoroutinesInv
<1>1. CASE CancelRoot
  <2> DEFINE gr == [Idle EXCEPT !.pc = "sweep"]
  <2>1. gr \in Goroutine /\ gr.pc = "sweep" /\ gr.next = "idle" /\ gr.op = "none"
    BY InitialTypes DEF Idle, Goroutine, Label
  <2>2. g' = [g EXCEPT ![Reaper] = gr] /\ used' = used /\ sess' = sess /\ rootDone'
    BY <1>1 DEF CancelRoot
  <2> HIDE DEF gr
  <2>3. GoodGoroutine(Reaper, gr, used)
    BY <2>1 DEF GoodGoroutine, Holding, TurnLabels, TurnOps, Saving
  <2>4. /\ g' \in [Proc -> Goroutine] /\ g'[Reaper] = gr
        /\ \A q \in Proc \ {Reaper} : SameWork(q)
    BY <1>a, <2>1, <2>2, Replaced
  <2>5. GoroutinesInv'
    BY <1>a, <2>2, <2>3, <2>4, StepOfOne
  <2> QED
    BY <1>1, <2>4, <2>5 DEF CancelRoot, TypeInv, TypeOK
<1>2. CASE Sweep
  <2>1. g[Reaper].pc = "sweep" /\ g[Reaper].next = "idle" /\ UNCHANGED Rest /\ UNCHANGED heap
    BY <1>a, <1>2 DEF Sweep, At, Rest, GoodGoroutine, Saving
  <2>2. CASE sess = 0
    BY <1>a, <1>2, <2>1, <2>2, ReturnStep DEF Sweep
  <2>3. CASE sess # 0
    <3> DEFINE gr == [g[Reaper] EXCEPT !.pc = "mark", !.obj = sess]
    <3>1. sess \in 1 .. used /\ sess \in 0 .. MaxObj
      BY <1>a, <2>3 DEF TypeInv, TypeOK
    <3>2. /\ gr \in Goroutine /\ gr.pc = "mark" /\ gr.obj = sess
          /\ gr.next = "idle" /\ gr.op = g[Reaper].op /\ gr.prompt = g[Reaper].prompt
      BY <1>a, <2>1, <3>1 DEF Goroutine, Label
    <3>3. g' = [g EXCEPT ![Reaper] = gr]
      BY <1>2, <2>3 DEF Sweep
    <3> HIDE DEF gr
    <3>4. GoodGoroutine(Reaper, gr, used)
      BY <1>a, <3>1, <3>2 DEF GoodGoroutine, TurnLabels, Saving
    <3>5. /\ g' \in [Proc -> Goroutine] /\ g'[Reaper] = gr
          /\ \A q \in Proc \ {Reaper} : SameWork(q)
      BY <1>a, <3>2, <3>3, Replaced
    <3>6. rootDone /\ UNCHANGED <<used, sess, rootDone>>
      BY <2>1 DEF TypeInv, GoroutinesInv, Rest
    <3>7. GoroutinesInv'
      BY <1>a, <3>4, <3>5, <3>6, StepOfOne
    <3> QED
      BY <2>1, <3>5, <3>7, RestTypes DEF TypeInv, TypeOK
  <2> QED
    BY <2>2, <2>3
<1>3. CASE Mark
  <2> DEFINE s == Mine(Reaper)
             busy == ~s.closed /\ s.status = "busy"
             left == IF busy THEN Interrupt(s, s.active) ELSE s
             end == [left EXCEPT !.cancel = None, !.running = FALSE]
             gr == [Cancelled(g, s.cancel)[Reaper] EXCEPT !.pc = "snapshot"]
  <2>1. g[Reaper].pc = "mark" /\ g[Reaper].next = "idle" /\ UNCHANGED Rest
    BY <1>a, <1>3 DEF Mark, At, Rest, GoodGoroutine, Saving
  <2>2. s \in Session /\ g[Reaper].obj \in 1 .. used
    BY <1>a, <2>1, MineType DEF Holding, Label
  <2>3. left \in Session
    <3>1. SetTurn(s, s.active, "interrupted") \in Session
      BY <2>2, SetTurnType DEF TurnStatus, Terminal
    <3> QED
      BY <2>2, <3>1 DEF Interrupt, Session, SessionStatus
  <2> HIDE DEF left
  <2>4. end \in Session /\ s.cancel \in Proc \cup {None}
    BY <2>2, <2>3 DEF Session
  <2>5. /\ gr \in Goroutine /\ gr.pc = "snapshot" /\ gr.next = "idle"
        /\ gr.op = g[Reaper].op /\ gr.obj = g[Reaper].obj /\ gr.prompt = g[Reaper].prompt
    <3>1. Reaper \in Proc
      BY <1>a
    <3> HIDE DEF s
    <3> QED
      BY <2>1, <2>4, <3>1, CancelledType DEF Goroutine, Label
  <2>6. /\ heap' = [heap EXCEPT ![g[Reaper].obj] = end]
        /\ g' = [Cancelled(g, s.cancel) EXCEPT ![Reaper] = gr]
    BY <1>a, <1>3, <2>4, CancelledType DEF Mark, left
  <2> HIDE DEF gr, end, s
  <2>7. GoodGoroutine(Reaper, gr, used)
    BY <1>a, <2>1, <2>2, <2>5 DEF GoodGoroutine, TurnLabels, Saving
  <2>8. /\ g' \in [Proc -> Goroutine] /\ g'[Reaper] = gr
        /\ \A q \in Proc \ {Reaper} : SameWork(q)
    BY <1>a, <2>4, <2>5, <2>6, CancelledAndReplaced
  <2>9. rootDone /\ UNCHANGED <<used, sess, rootDone>>
    BY <2>1 DEF TypeInv, GoroutinesInv, Rest
  <2>10. GoroutinesInv'
    BY <1>a, <2>7, <2>8, <2>9, StepOfOne
  <2>11. heap' \in [Obj -> Session]
    BY <2>4, <2>6 DEF TypeInv, TypeOK
  <2> QED
    BY <2>1, <2>8, <2>10, <2>11, RestTypes
<1>4. CASE Restart
  <2> DEFINE found == disk.st = "full"
  <2>1. Restored(disk.rec) \in Session /\ NewSession \in Session /\ Idle \in Goroutine
    BY RestoredType, InitialTypes DEF TypeInv, TypeOK, File
  <2>2. /\ g' = [r \in Proc |-> Idle]
        /\ heap' = [o \in Obj |-> IF found /\ o = 1 THEN Restored(disk.rec) ELSE NewSession]
        /\ sess' = (IF found THEN 1 ELSE 0) /\ used' = (IF found THEN 1 ELSE 0)
    BY <1>4 DEF Restart
  <2>3. g' \in [Proc -> Goroutine] /\ heap' \in [Obj -> Session]
    BY <2>1, <2>2
  <2>4. \A r \in Proc : g'[r] = Idle
    BY <2>2
  <2>5. GoroutinesInv'
    BY <1>a, <2>2, <2>4 DEF GoroutinesInv, Idle, Holding, TurnLabels, TurnOps
  <2>6. sess' \in 0 .. MaxObj /\ used' \in 0 .. MaxObj /\ restarts' \in 0 .. MaxRestarts
    BY <1>4, <2>2, BoundsAssumption DEF Restart, TypeInv, TypeOK
  <2>7. feed' \in [Prompt -> {"none", "started"} \cup Terminal]
    BY <1>4 DEF Restart
  <2> QED
    BY <1>4, <2>3, <2>5, <2>6, <2>7 DEF Restart, TypeInv, TypeOK
<1> QED
  BY <1>1, <1>2, <1>3, <1>4

LEMMA TypeStep == TypeInv /\ [Next]_vars => TypeInv'
<1> SUFFICES ASSUME TypeInv, [Next]_vars PROVE TypeInv'
  OBVIOUS
<1>1. CASE \E r \in Proc : Call(r) \/ Serve(r) \/ Persist(r)
  <2> PICK r \in Proc : Call(r) \/ Serve(r) \/ Persist(r)
    BY <1>1
  <2> QED
    BY TypeMap, TypeRequest, TypeDrive, TypeFinish, TypePersist DEF Call, Serve
<1>2. CASE CancelRoot \/ Sweep \/ Mark \/ Restart
  BY <1>2, TypeStop
<1>3. CASE UNCHANGED vars
  BY <1>3 DEF vars, TypeInv, TypeOK, GoroutinesInv
<1> QED
  BY <1>1, <1>2, <1>3 DEF Next

\* Every goroutine works on an allocated session object, and every value in
\* the map, the objects, the file and the goroutines has its type.
THEOREM TypeCorrect == Spec => []TypeOK
<1>1. TypeInv => TypeOK
  BY DEF TypeInv
<1> QED
  BY TypeInit, TypeStep, <1>1, PTL DEF Spec

-----------------------------------------------------------------------------
(***************************************************************************)
(* A session object that lost its place in the map was deleted, and a      *)
(* session whose deletion was answered cleanly stays away.                 *)
(*                                                                         *)
(* The invariant is RemovalInv: after a clean deletion every object is     *)
(* marked deleted, so no save gets past its check, no file is left for a   *)
(* lookup to load, and no open descriptor leads to the state file.         *)
(***************************************************************************)

RemovalInv == TypeInv /\ OneLiveObject /\ DeletionInv

LEMMA RemovalInit == Init => OneLiveObject /\ DeletionInv
BY DEF Init, OneLiveObject, DeletionInv

\* A step that neither touches the map, the file or the deletion marks, nor
\* takes a goroutine to where it could bring a session back.
Calm ==
  /\ UNCHANGED <<sess, used, disk, gone>>
  /\ \A o \in 1 .. used : heap'[o].deleted = heap[o].deleted
  /\ \A q \in Proc : g'[q].pc \in {"commit", "adopt"} => g'[q].pc = g[q].pc
  /\ \A q \in Proc : g'[q].fd = "disk" => g[q].fd = "disk"

LEMMA CalmKeeps ==
  ASSUME RemovalInv, Calm
  PROVE  OneLiveObject' /\ DeletionInv'
BY DEF RemovalInv, Calm, OneLiveObject, DeletionInv

\* A step of one goroutine on the object it holds.
LEMMA CalmStep ==
  ASSUME RemovalInv, NEW r \in Proc, NEW gr,
         g' = [g EXCEPT ![r] = gr],
         gr.pc \notin {"commit", "adopt"},
         gr.fd \in {"none", "tmp"} \cup {g[r].fd},
         UNCHANGED <<sess, used, disk, gone>>,
         \A o \in 1 .. used : heap'[o].deleted = heap[o].deleted
  PROVE  OneLiveObject' /\ DeletionInv'
<1>1. g \in [Proc -> Goroutine]
  BY DEF RemovalInv, TypeInv, TypeOK
<1>2. g'[r] = gr /\ \A q \in Proc \ {r} : g'[q] = g[q]
  BY <1>1
<1>3. Calm
  BY <1>2 DEF Calm
<1> QED
  BY <1>3, CalmKeeps

\* A critical section followed by a save.
LEMMA CalmSave ==
  ASSUME RemovalInv, NEW r \in Proc, NEW s, NEW gr \in Goroutine, NEW next \in Resumption,
         Save(r, s, gr, next), gr.obj \in 1 .. used, gr.fd = g[r].fd,
         s.deleted = heap[gr.obj].deleted,
         UNCHANGED <<sess, used, disk, gone>>
  PROVE  OneLiveObject' /\ DeletionInv'
<1> DEFINE left == [gr EXCEPT !.pc = "snapshot", !.next = next]
<1>1. g' = [g EXCEPT ![r] = left] /\ heap' = [heap EXCEPT ![gr.obj] = s]
  BY DEF Save
<1>2. left.pc = "snapshot" /\ left.fd = gr.fd
  BY DEF Goroutine
<1>3. heap \in [Obj -> Session] /\ used \in 0 .. MaxObj
  BY DEF RemovalInv, TypeInv, TypeOK
<1>4. \A o \in 1 .. used : heap'[o].deleted = heap[o].deleted
  <2>1. 1 .. used \subseteq Obj
    BY <1>3, BoundsAssumption DEF Obj
  <2> QED
    BY <1>1, <1>3, <2>1
<1> HIDE DEF left
<1> QED
  BY <1>1, <1>2, <1>4, CalmStep

\* The parts of the state that a step reads here.
LEMMA Shape ==
  ASSUME RemovalInv
  PROVE  /\ heap \in [Obj -> Session] /\ g \in [Proc -> Goroutine]
         /\ used \in 0 .. MaxObj /\ used \in Nat /\ 1 .. used \subseteq Obj
         /\ sess \in 0 .. used
         /\ \A r \in Proc : g[r].pc \in Holding => g[r].obj \in 1 .. used
<1>1. used \in 0 .. MaxObj /\ MaxObj \in Nat
  BY BoundsAssumption DEF RemovalInv, TypeInv, TypeOK
<1>2. 1 .. used \subseteq Obj
  BY <1>1 DEF Obj
<1> QED
  BY <1>1, <1>2 DEF RemovalInv, TypeInv, TypeOK, GoroutinesInv

\* A goroutine back from a save is nowhere near the file.
LEMMA ResumedCalm ==
  ASSUME RemovalInv, NEW r \in Proc
  PROVE  Resumed(r).pc \notin {"commit", "adopt"} /\ Resumed(r).fd = "none"
<1>1. g[r] \in Goroutine
  BY Shape
<1> QED
  BY <1>1 DEF Resumed, Idle, Goroutine, Resumption

\* The steps of a save: the only goroutine that could bring the file back is
\* one that commits, and none does after a clean deletion.
LEMMA RemovalPersist ==
  ASSUME RemovalInv, NEW r \in Proc, Persist(r)
  PROVE  OneLiveObject' /\ DeletionInv'
<1>1. CASE SnapshotRecord(r)
  <2> DEFINE gr == IF Mine(r).deleted THEN Resumed(r)
                   ELSE [g[r] EXCEPT !.pc = "open", !.snap = Persisted(Mine(r))]
  <2>1. g' = [g EXCEPT ![r] = gr]
    BY <1>1, Shape DEF SnapshotRecord
  <2>2. gr.pc \notin {"commit", "adopt"} /\ gr.fd \in {"none", "tmp"} \cup {g[r].fd}
    BY Shape, ResumedCalm DEF Goroutine
  <2> HIDE DEF gr
  <2> QED
    BY <1>1, <2>1, <2>2, CalmStep DEF SnapshotRecord
<1>2. CASE OpenTemp(r)
  <2> DEFINE gr == [g[r] EXCEPT !.pc = "write", !.fd = "tmp"]
  <2>1. g' = [g EXCEPT ![r] = gr] /\ gr.pc = "write" /\ gr.fd = "tmp"
    BY <1>2, Shape DEF OpenTemp, Goroutine
  <2> HIDE DEF gr
  <2> QED
    BY <1>2, <2>1, CalmStep DEF OpenTemp
<1>3. CASE WriteTemp(r)
  <2> DEFINE gr == [g[r] EXCEPT !.pc = "verify", !.fd = "none"]
  <2>1. g' = [g EXCEPT ![r] = gr] /\ gr.pc = "verify" /\ gr.fd = "none"
    BY <1>3, Shape DEF WriteTemp, Goroutine
  <2> HIDE DEF gr
  <2>2. CASE g[r].fd = "disk"
    <3>1. gone # "clean"
      BY <2>2 DEF RemovalInv, DeletionInv
    <3> QED
      BY <1>3, <3>1 DEF WriteTemp, RemovalInv, OneLiveObject, DeletionInv
  <2>3. CASE g[r].fd # "disk"
    BY <1>3, <2>1, <2>3, CalmStep DEF WriteTemp
  <2> QED
    BY <2>2, <2>3
<1>4. CASE VerifyNotDeleted(r)
  <2>1. CASE Mine(r).deleted
    <3>1. g' = [Moved(g, Unlinked("tmp")) EXCEPT ![r] = Resumed(r)]
      BY <1>4, <2>1 DEF VerifyNotDeleted
    <3>2. \A q \in Proc \ {r} : g'[q] = Moved(g, Unlinked("tmp"))[q]
      BY <3>1 DEF Moved
    <3>3. g'[r] = Resumed(r)
      BY <3>1 DEF Moved
    <3>4. \A q \in Proc \ {r} : /\ g'[q].pc = g[q].pc
                                /\ g'[q].fd = Unlinked("tmp")[g[q].fd]
      <4> SUFFICES ASSUME NEW q \in Proc \ {r}
                   PROVE  g'[q].pc = g[q].pc /\ g'[q].fd = Unlinked("tmp")[g[q].fd]
        OBVIOUS
      <4>1. g[q] \in Goroutine
        BY Shape
      <4>2. g'[q] = [g[q] EXCEPT !.fd = Unlinked("tmp")[@]]
        BY <3>2 DEF Moved
      <4> QED
        BY <4>1, <4>2 DEF Goroutine
    <3>5. \A q \in Proc : g[q].fd \in {"none", "tmp", "disk", "lost"}
      BY Shape DEF Goroutine
    <3>6. Calm
      BY <1>4, <3>3, <3>4, <3>5, ResumedCalm DEF VerifyNotDeleted, Calm, Unlinked
    <3> QED
      BY <3>6, CalmKeeps
  <2>2. CASE ~Mine(r).deleted
    <3>1. g[r].obj \in 1 .. used
      BY <1>4, Shape DEF VerifyNotDeleted, At, Holding, Label
    <3>2. gone # "clean"
      BY <2>2, <3>1 DEF RemovalInv, DeletionInv, OneLiveObject, Mine
    <3> QED
      BY <1>4, <3>2 DEF VerifyNotDeleted, RemovalInv, OneLiveObject, DeletionInv
  <2> QED
    BY <2>1, <2>2
<1>5. CASE CommitTemp(r)
  <2>1. gone # "clean"
    BY <1>5 DEF CommitTemp, At, RemovalInv, DeletionInv
  <2> QED
    BY <1>5, <2>1 DEF CommitTemp, RemovalInv, OneLiveObject, DeletionInv
<1>6. CASE SaveFails(r)
  <2>1. CASE g' = [g EXCEPT ![r] = Resumed(r)] /\ UNCHANGED disk
    BY <1>6, <2>1, ResumedCalm, CalmStep DEF SaveFails
  <2>2. CASE g[r].fd = "disk" \/ g[r].pc = "commit"
    <3>1. gone # "clean"
      BY <2>2 DEF RemovalInv, DeletionInv
    <3> QED
      BY <1>6, <3>1 DEF SaveFails, RemovalInv, OneLiveObject, DeletionInv
  <2> QED
    BY <1>6, <2>1, <2>2 DEF SaveFails, At
<1> QED
  BY <1>1, <1>2, <1>3, <1>4, <1>5, <1>6 DEF Persist

\* The goroutine returns, or goes on at another label.
LEMMA CalmReturn ==
  ASSUME RemovalInv, NEW r \in Proc, Return(r), UNCHANGED <<sess, used, disk, gone, heap>>
  PROVE  OneLiveObject' /\ DeletionInv'
<1>1. Idle.pc = "idle" /\ Idle.fd = "none" /\ g' = [g EXCEPT ![r] = Idle]
  BY DEF Idle, Return
<1> QED
  BY <1>1, CalmStep

LEMMA CalmGoto ==
  ASSUME RemovalInv, NEW r \in Proc, NEW label, Goto(r, label),
         label \notin {"commit", "adopt"}, UNCHANGED <<sess, used, disk, gone, heap>>
  PROVE  OneLiveObject' /\ DeletionInv'
<1> DEFINE gr == [g[r] EXCEPT !.pc = label]
<1>1. gr.pc = label /\ gr.fd = g[r].fd /\ g' = [g EXCEPT ![r] = gr]
  BY Shape DEF Goto, Goroutine
<1> HIDE DEF gr
<1> QED
  BY <1>1, CalmStep

\* The critical sections of the requests keep the deletion marks.
LEMMA RemovalRequest ==
  ASSUME RemovalInv, NEW r \in Proc,
         Reconcile(r) \/ CheckRepository(r) \/ Pin(r) \/ Accept(r) \/ Retry(r)
  PROVE  OneLiveObject' /\ DeletionInv'
<1>a. TypeInv /\ g[r] \in Goroutine
  BY Shape DEF RemovalInv
<1>b. g[r].obj \in 1 .. used /\ Mine(r) \in Session
  BY <1>a, MineType DEF Reconcile, CheckRepository, Pin, Accept, Retry, At, Holding, Label
<1>c. /\ Mine(r).deleted = heap[g[r].obj].deleted
      /\ \A t, st : SetTurn(Mine(r), t, st).deleted = Mine(r).deleted
      /\ \A t, st : SetTurn(Mine(r), t, st) = [Mine(r) EXCEPT !.turns = SetTurn(Mine(r), t, st).turns]
  BY <1>b DEF Mine, SetTurn, Session
<1>1. CASE Reconcile(r)
  <2> DEFINE next == AfterReconcile(g[r].op)
             s == [Interrupt(Mine(r), OrphanedTurn(Mine(r))) EXCEPT !.active = 0]
  <2>1. next \in Resumption /\ next \notin {"commit", "adopt"}
    BY DEF AfterReconcile, Resumption
  <2>2. s.deleted = Mine(r).deleted
    BY <1>b, <1>c DEF Interrupt, Session
  <2>3. \/ Save(r, s, g[r], next)
        \/ (Return(r) \/ Goto(r, next)) /\ UNCHANGED heap
    BY <1>1 DEF Reconcile
  <2>4. UNCHANGED <<sess, used, disk, gone>>
    BY <1>1 DEF Reconcile
  <2> HIDE DEF next, s
  <2> QED
    BY <1>a, <1>b, <1>c, <2>1, <2>2, <2>3, <2>4, CalmSave, CalmReturn, CalmGoto
<1>2. CASE CheckRepository(r)
  <2> DEFINE gr == [g[r] EXCEPT !.pc = "accept", !.bind = (Mine(r).repo = "none")]
  <2>1. gr.pc = "accept" /\ gr.fd = g[r].fd
    BY <1>a DEF Goroutine
  <2>2. Return(r) \/ g' = [g EXCEPT ![r] = gr]
    BY <1>2, <1>a, Shape DEF CheckRepository
  <2>3. UNCHANGED <<sess, used, disk, gone, heap>>
    BY <1>2 DEF CheckRepository
  <2> HIDE DEF gr
  <2> QED
    BY <2>1, <2>2, <2>3, CalmReturn, CalmStep
<1>3. CASE Pin(r)
  <2>1. PICK b \in BOOLEAN : Save(r, [Mine(r) EXCEPT !.pinned = b], g[r], "idle")
    BY <1>3 DEF Pin
  <2>2. [Mine(r) EXCEPT !.pinned = b].deleted = Mine(r).deleted
    BY <1>b DEF Session
  <2>3. UNCHANGED <<sess, used, disk, gone>> /\ "idle" \in Resumption
    BY <1>3 DEF Pin, Resumption
  <2> QED
    BY <1>a, <1>b, <1>c, <2>1, <2>2, <2>3, CalmSave
<1>4. CASE Accept(r)
  <2> DEFINE s == Mine(r)
             t == Len(s.turns) + 1
             begun == [s EXCEPT
               !.repo = IF g[r].bind THEN "preparing" ELSE @,
               !.closed = FALSE,
               !.turns = Append(@, [prompt |-> g[r].prompt, st |-> "running", steps |-> 0])]
             gr == [g[r] EXCEPT !.turn = t, !.bind = FALSE]
             left == Driven(begun, t, r)
  <2>1. \/ Return(r) /\ UNCHANGED heap
        \/ Save(r, left, gr, "announce")
    BY <1>4 DEF Accept
  <2>2. left.deleted = Mine(r).deleted
    <3>1. begun.deleted = s.deleted
      BY <1>b DEF Session
    <3>2. Driven(begun, t, r).deleted = begun.deleted
      BY <1>b DEF Session, Driven
    <3> QED
      BY <3>1, <3>2
  <2>3. gr \in Goroutine /\ gr.obj = g[r].obj /\ gr.fd = g[r].fd
    <3>1. t \in Nat
      BY <1>b DEF Session
    <3> QED
      BY <1>a, <3>1 DEF Goroutine
  <2>4. UNCHANGED <<sess, used, disk, gone>> /\ "announce" \in Resumption
    BY <1>4 DEF Accept, Resumption
  <2> HIDE DEF gr, left
  <2> QED
    BY <1>b, <1>c, <2>1, <2>2, <2>3, <2>4, CalmReturn, CalmSave
<1>5. CASE Retry(r)
  <2>1. CASE Return(r) /\ UNCHANGED heap
    BY <1>5, <2>1, CalmReturn DEF Retry
  <2>2. CASE ~(Return(r) /\ UNCHANGED heap)
    <3> DEFINE s == Mine(r)
               again(t) == [SetTurn(s, t, "running") EXCEPT !.repo = "preparing"]
    <3>1. PICK t \in RetryTurns(s) :
            Save(r, Driven(again(t), t, r),
                 [g[r] EXCEPT !.turn = t, !.prompt = s.turns[t].prompt], "announce")
      BY <1>5, <2>2 DEF Retry
    <3> DEFINE gr == [g[r] EXCEPT !.turn = t, !.prompt = s.turns[t].prompt]
               left == Driven(again(t), t, r)
    <3>2. left.deleted = Mine(r).deleted
      <4>1. again(t).deleted = s.deleted
        BY <1>b, <1>c DEF Session
      <4>2. left.deleted = again(t).deleted
        BY <1>b, <1>c DEF Session, Driven
      <4> QED
        BY <4>1, <4>2
    <3>3. gr \in Goroutine /\ gr.obj = g[r].obj /\ gr.fd = g[r].fd
      <4>1. t \in 1 .. Len(s.turns) /\ s.turns \in Seq(Turn)
        BY <1>b DEF Session, RetryTurns
      <4>2. s.turns[t].prompt \in 0 .. MaxPrompts /\ t \in Nat
        <5>1. s.turns[t] \in Turn
          BY <4>1
        <5> QED
          BY <4>1, <5>1, BoundsAssumption DEF Turn, Prompt
      <4> QED
        BY <1>a, <4>2 DEF Goroutine
    <3>4. UNCHANGED <<sess, used, disk, gone>> /\ "announce" \in Resumption
      BY <1>5 DEF Retry, Resumption
    <3>5. Save(r, left, gr, "announce")
      BY <3>1
    <3> HIDE DEF gr, left
    <3> QED
      BY <1>b, <1>c, <3>2, <3>3, <3>4, <3>5, CalmSave
  <2> QED
    BY <2>1, <2>2
<1> QED
  BY <1>1, <1>2, <1>3, <1>4, <1>5

\* So do the steps of a driver ...
LEMMA RemovalDrive ==
  ASSUME RemovalInv, NEW r \in Proc,
         Announce(r) \/ PrepareRepository(r) \/ CodexEvent(r) \/ CodexExit(r) \/ Conclude(r)
  PROVE  OneLiveObject' /\ DeletionInv'
<1>a. TypeInv /\ g[r] \in Goroutine
  BY Shape DEF RemovalInv
<1>b. g[r].obj \in 1 .. used /\ Mine(r) \in Session
  BY <1>a, MineType DEF Announce, PrepareRepository, CodexEvent, CodexExit, Conclude, At,
     Holding, Label
<1>1. CASE Announce(r)
  BY <1>1, CalmGoto DEF Announce
<1>2. CASE PrepareRepository(r)
  <2>1. CASE Goto(r, "exec") /\ UNCHANGED heap
    BY <1>2, <2>1, CalmGoto DEF PrepareRepository
  <2>2. ASSUME NEW st \in RepoStatus, NEW res \in {g[r].res, "error"},
               NEW next \in {"exec", "finish"},
               Save(r, [Mine(r) EXCEPT !.repo = st], [g[r] EXCEPT !.res = res], next)
        PROVE  OneLiveObject' /\ DeletionInv'
    <3> DEFINE s == [Mine(r) EXCEPT !.repo = st]
               gr == [g[r] EXCEPT !.res = res]
    <3>1. s.deleted = heap[g[r].obj].deleted
      BY <1>b DEF Session, Mine
    <3>2. gr \in Goroutine /\ gr.obj = g[r].obj /\ gr.fd = g[r].fd
      BY <1>a DEF Goroutine
    <3>3. next \in Resumption /\ UNCHANGED <<sess, used, disk, gone>>
      BY <1>2 DEF PrepareRepository, Resumption
    <3>4. Save(r, s, gr, next)
      BY <2>2
    <3> HIDE DEF s, gr
    <3> QED
      BY <1>b, <3>1, <3>2, <3>3, <3>4, CalmSave
  <2>3. \/ Goto(r, "exec") /\ UNCHANGED heap
        \/ Save(r, [Mine(r) EXCEPT !.repo = "ready"], g[r], "exec")
        \/ Save(r, [Mine(r) EXCEPT !.repo = "failed"], [g[r] EXCEPT !.res = "error"], "finish")
    BY <1>2 DEF PrepareRepository
  <2>4. g[r] = [g[r] EXCEPT !.res = g[r].res] /\ {"ready", "failed"} \subseteq RepoStatus
    BY <1>a DEF Goroutine, RepoStatus
  <2>5. CASE Save(r, [Mine(r) EXCEPT !.repo = "ready"], g[r], "exec")
    BY <2>2, <2>4, <2>5
  <2>6. CASE Save(r, [Mine(r) EXCEPT !.repo = "failed"], [g[r] EXCEPT !.res = "error"], "finish")
    BY <2>2, <2>4, <2>6
  <2> QED
    BY <2>1, <2>3, <2>5, <2>6
<1>3. CASE CodexEvent(r)
  <2> DEFINE s == [Mine(r) EXCEPT !.turns[g[r].turn].steps = @ + 1]
  <2>1. s.deleted = heap[g[r].obj].deleted
    BY <1>b DEF Session, Mine
  <2>2. Save(r, s, g[r], "exec") /\ UNCHANGED <<sess, used, disk, gone>>
    BY <1>3 DEF CodexEvent
  <2> HIDE DEF s
  <2> QED
    BY <1>a, <1>b, <2>1, <2>2, CalmSave DEF Resumption
<1>4. CASE CodexExit(r)
  <2>1. PICK res \in {"ok", "error", "canceled"} :
          g' = [g EXCEPT ![r].pc = "finish", ![r].res = res]
    BY <1>4 DEF CodexExit
  <2> DEFINE gr == [g[r] EXCEPT !.pc = "finish", !.res = res]
  <2>2. gr.pc = "finish" /\ gr.fd = g[r].fd /\ g' = [g EXCEPT ![r] = gr]
    BY <1>a, <2>1, Shape DEF Goroutine
  <2> HIDE DEF gr
  <2> QED
    BY <1>4, <2>2, CalmStep DEF CodexExit
<1>5. CASE Conclude(r)
  BY <1>5, CalmReturn DEF Conclude
<1> QED
  BY <1>1, <1>2, <1>3, <1>4, <1>5

\* ... and the end of its turn, whether it owns the session or not.
LEMMA RemovalFinish ==
  ASSUME RemovalInv, NEW r \in Proc, FinishActive(r) \/ FinishSuperseded(r) \/ FinishLate(r)
  PROVE  OneLiveObject' /\ DeletionInv'
<1>a. TypeInv /\ g[r] \in Goroutine
  BY Shape DEF RemovalInv
<1>b. g[r].obj \in 1 .. used /\ Mine(r) \in Session /\ Mine(r).deleted = heap[g[r].obj].deleted
  BY <1>a, MineType DEF FinishActive, FinishSuperseded, FinishLate, At, Holding, Label, Mine
<1>c. /\ UNCHANGED <<sess, used, disk, gone>>
      /\ {"conclude", "idle"} \subseteq Resumption
  BY DEF FinishActive, FinishSuperseded, FinishLate, Resumption
<1>d. Outcome(r) \in Terminal
  BY DEF Outcome, Terminal
<1>e. \A s \in Session : /\ ConcludeSession(r, s).deleted = s.deleted
                         /\ Reported(r, s) \in Goroutine
                         /\ Reported(r, s).obj = g[r].obj /\ Reported(r, s).fd = g[r].fd
  <2> SUFFICES ASSUME NEW s \in Session
               PROVE  /\ ConcludeSession(r, s).deleted = s.deleted
                      /\ Reported(r, s) \in Goroutine
                      /\ Reported(r, s).obj = g[r].obj /\ Reported(r, s).fd = g[r].fd
    OBVIOUS
  <2>1. ConcludeSession(r, s).deleted = s.deleted
    BY DEF ConcludeSession, SetTurn, Session
  <2>2. (IF s.closed THEN "completed" ELSE Outcome(r)) \in Terminal
    BY <1>d DEF Terminal
  <2> QED
    BY <1>a, <2>1, <2>2 DEF Reported, Goroutine
<1>1. CASE FinishActive(r)
  <2> DEFINE s == Mine(r)
             free == Freed(s)
             left == ConcludeSession(r, free)
             gr == [Reported(r, s) EXCEPT !.pc = "snapshot", !.next = "conclude"]
  <2>1. free \in Session /\ free.deleted = s.deleted /\ s.cancel \in Proc \cup {None}
    BY <1>b DEF Freed, Session
  <2>2. left.deleted = heap[g[r].obj].deleted
    BY <1>b, <1>e, <2>1
  <2>3. heap' = [heap EXCEPT ![g[r].obj] = left] /\ g' = [Cancelled(g, s.cancel) EXCEPT ![r] = gr]
    BY <1>1 DEF FinishActive
  <2>4. gr.pc = "snapshot" /\ gr.fd = g[r].fd
    BY <1>b, <1>e DEF Goroutine
  <2> HIDE DEF free, left, gr, s
  <2>5. /\ Cancelled(g, s.cancel) \in [Proc -> Goroutine]
        /\ \A q \in Proc : /\ Cancelled(g, s.cancel)[q].pc = g[q].pc
                           /\ Cancelled(g, s.cancel)[q].fd = g[q].fd
    BY <1>a, <2>1, CancelledType
  <2>6. g'[r] = gr /\ \A q \in Proc \ {r} : g'[q].pc = g[q].pc /\ g'[q].fd = g[q].fd
    BY <2>3, <2>5
  <2>7. \A o \in 1 .. used : heap'[o].deleted = heap[o].deleted
    BY <2>2, <2>3, Shape
  <2>8. Calm
    BY <1>c, <2>4, <2>6, <2>7 DEF Calm
  <2> QED
    BY <2>8, CalmKeeps
<1>2. CASE FinishSuperseded(r)
  <2> DEFINE left == SetTurn(Mine(r), g[r].turn, Outcome(r))
             gr == [g[r] EXCEPT !.res = Outcome(r)]
  <2>1. left.deleted = heap[g[r].obj].deleted
    BY <1>b DEF SetTurn, Session
  <2>2. gr \in Goroutine /\ gr.obj = g[r].obj /\ gr.fd = g[r].fd
    BY <1>a, <1>d DEF Goroutine
  <2>3. Save(r, left, gr, "conclude")
    BY <1>2 DEF FinishSuperseded
  <2> HIDE DEF left, gr
  <2> QED
    BY <1>b, <1>c, <2>1, <2>2, <2>3, CalmSave
<1>3. CASE FinishLate(r)
  <2> DEFINE left == ConcludeSession(r, Mine(r))
             gr == Reported(r, Mine(r))
  <2>1. left.deleted = heap[g[r].obj].deleted
        /\ gr \in Goroutine /\ gr.obj = g[r].obj /\ gr.fd = g[r].fd
    BY <1>b, <1>e
  <2>2. Save(r, left, gr, "conclude")
    BY <1>3 DEF FinishLate
  <2> HIDE DEF left, gr
  <2> QED
    BY <1>b, <1>c, <2>1, <2>2, CalmSave
<1> QED
  BY <1>1, <1>2, <1>3

\* The steps on the map.  Opening a session ends the claim of its deletion; a
\* record is only loaded from a file that is there, and Unlink answers cleanly
\* only when nobody is about to put the session back.
LEMMA RemovalMap ==
  ASSUME RemovalInv, NEW r \in Proc,
         Open(r) \/ Lookup(r) \/ LoadRecord(r) \/ Adopt(r) \/ Drop(r) \/ Unlink(r)
  PROVE  OneLiveObject' /\ DeletionInv'
<1>1. CASE Open(r)
  <2>1. sess' = used + 1 /\ used' = used + 1 /\ gone' = "no" /\ sess = 0
        /\ \A o \in 1 .. used : heap'[o] = heap[o]
    BY <1>1, Shape DEF Open, Insert
  <2> QED
    BY <2>1, Shape DEF RemovalInv, OneLiveObject, DeletionInv
<1>2. CASE Lookup(r)
  <2>1. PICK o \in Ops \ {"open", "stop", "fault"} :
          LET inMap == sess # 0 /\ o # "list"
          IN  g' = [g EXCEPT ![r].op = o,
                             ![r].pc = IF inMap THEN Entry(o) ELSE "load",
                             ![r].obj = IF inMap THEN sess ELSE 0,
                             ![r].prompt = IF o \in TurnOps THEN sent + 1 ELSE 0]
    BY <1>2 DEF Lookup
  <2> DEFINE inMap == sess # 0 /\ o # "list"
             pc == IF inMap THEN Entry(o) ELSE "load"
             obj == IF inMap THEN sess ELSE 0
             n == IF o \in TurnOps THEN sent + 1 ELSE 0
  <2>3. pc \in {"drop", "pin", "reconcile", "load"}
    BY DEF Entry
  <2> DEFINE gr == [g[r] EXCEPT !.op = o, !.pc = pc, !.obj = obj, !.prompt = n]
  <2>2. gr.pc = pc /\ gr.fd = g[r].fd /\ g' = [g EXCEPT ![r] = gr]
    BY <2>1, Shape DEF Goroutine
  <2> HIDE DEF gr, pc
  <2> QED
    BY <1>2, <2>2, <2>3, CalmStep DEF Lookup
<1>3. CASE LoadRecord(r)
  <2>1. CASE disk.st = "full"
    <3>1. gone # "clean"
      BY <2>1 DEF RemovalInv, DeletionInv, Missing
    <3> QED
      BY <1>3, <3>1 DEF LoadRecord, RemovalInv, OneLiveObject, DeletionInv
  <2>2. CASE disk.st # "full"
    BY <1>3, <2>2, CalmReturn DEF LoadRecord
  <2> QED
    BY <2>1, <2>2
<1>4. CASE Adopt(r)
  <2>1. gone # "clean" /\ gone' = gone
    BY <1>4 DEF Adopt, At, RemovalInv, DeletionInv
  <2>2. OneLiveObject'
    <3>1. CASE sess = 0
      <4>1. sess' = used + 1 /\ used' = used + 1 /\ \A o \in 1 .. used : heap'[o] = heap[o]
        BY <1>4, <3>1, Shape DEF Adopt, Insert
      <4> QED
        BY <3>1, <4>1, Shape DEF RemovalInv, OneLiveObject
    <3>2. CASE sess # 0
      BY <1>4, <3>2 DEF Adopt, RemovalInv, OneLiveObject
    <3> QED
      BY <3>1, <3>2
  <2> QED
    BY <2>1, <2>2 DEF DeletionInv
<1>5. CASE Drop(r)
  <2>1. CASE sess = 0
    BY <1>5, <2>1, CalmReturn DEF Drop
  <2>2. CASE sess # 0
    <3>1. gone # "clean" /\ gone' = gone /\ sess' = 0 /\ used' = used
      BY <1>5, <2>2 DEF Drop, RemovalInv, DeletionInv
    <3>2. \A o \in 1 .. used : heap'[o].deleted = (heap[o].deleted \/ o = sess)
      <4> SUFFICES ASSUME NEW o \in 1 .. used
                   PROVE  heap'[o].deleted = (heap[o].deleted \/ o = sess)
        OBVIOUS
      <4>1. o \in Obj /\ heap[o] \in Session /\ sess \in Obj
        BY <2>2, Shape
      <4>2. heap' = [heap EXCEPT ![sess] = [heap[sess] EXCEPT !.deleted = TRUE, !.closed = TRUE,
                                              !.cancel = None, !.running = FALSE]]
        BY <1>5, <2>2, <4>1, Shape DEF Drop
      <4>3. CASE o = sess
        <5>1. heap'[o] = [heap[o] EXCEPT !.deleted = TRUE, !.closed = TRUE,
                                         !.cancel = None, !.running = FALSE]
          BY <4>1, <4>2, <4>3, Shape
        <5>2. heap'[o].deleted = TRUE
          BY <4>1, <5>1 DEF Session
        <5> QED
          BY <4>3, <5>2
      <4>4. CASE o # sess
        <5>1. heap'[o] = heap[o] /\ heap[o].deleted \in BOOLEAN
          BY <4>1, <4>2, <4>4, Shape DEF Session
        <5> QED
          BY <4>4, <5>1
      <4> QED
        BY <4>3, <4>4
    <3>3. OneLiveObject'
      BY <3>1, <3>2 DEF RemovalInv, OneLiveObject
    <3> QED
      BY <3>1, <3>3 DEF DeletionInv
  <2> QED
    BY <2>1, <2>2
<1>6. CASE Unlink(r)
  <2>1. /\ disk' = Missing /\ UNCHANGED <<sess, used, heap>>
        /\ g' = [Moved(g, Unlinked("disk")) EXCEPT ![r] = Idle]
        /\ gone' = "clean" => sess = 0 /\ \A q \in Proc : g[q].pc \notin {"commit", "adopt"}
    BY <1>6 DEF Unlink
  <2>2. \A q \in Proc : g[q].fd \in {"none", "tmp", "disk", "lost"}
    BY Shape DEF Goroutine
  <2>3. \A q \in Proc \ {r} : g'[q].pc = g[q].pc /\ g'[q].fd = Unlinked("disk")[g[q].fd]
    <3> SUFFICES ASSUME NEW q \in Proc \ {r}
                 PROVE  g'[q].pc = g[q].pc /\ g'[q].fd = Unlinked("disk")[g[q].fd]
      OBVIOUS
    <3>1. g[q] \in Goroutine /\ g'[q] = [g[q] EXCEPT !.fd = Unlinked("disk")[@]]
      BY <2>1, Shape DEF Moved
    <3> QED
      BY <3>1 DEF Goroutine
  <2>4. g'[r].pc = "idle" /\ g'[r].fd = "none"
    BY <2>1 DEF Moved, Idle
  <2>5. \A q \in Proc : g'[q].fd # "disk"
    BY <2>2, <2>3, <2>4 DEF Unlinked
  <2> QED
    BY <2>1, <2>3, <2>4, <2>5 DEF RemovalInv, OneLiveObject, DeletionInv
<1> QED
  BY <1>1, <1>2, <1>3, <1>4, <1>5, <1>6

\* The stop and the restart.
LEMMA RemovalStop ==
  ASSUME RemovalInv, CancelRoot \/ Sweep \/ Mark \/ Restart
  PROVE  OneLiveObject' /\ DeletionInv'
<1>a. Reaper \in Proc /\ g[Reaper] \in Goroutine /\ TypeInv
  BY Shape DEF Proc, RemovalInv
<1>1. CASE CancelRoot
  <2> DEFINE gr == [Idle EXCEPT !.pc = "sweep"]
  <2>1. gr.pc = "sweep" /\ gr.fd = "none" /\ g' = [g EXCEPT ![Reaper] = gr]
    BY <1>1 DEF CancelRoot, Idle
  <2> HIDE DEF gr
  <2> QED
    BY <1>1, <1>a, <2>1, CalmStep DEF CancelRoot
<1>2. CASE Sweep
  <2> DEFINE gr == [g[Reaper] EXCEPT !.pc = "mark", !.obj = sess]
  <2>1. gr.pc = "mark" /\ gr.fd = g[Reaper].fd
    BY <1>a DEF Goroutine
  <2>2. Return(Reaper) \/ g' = [g EXCEPT ![Reaper] = gr]
    BY <1>2, <1>a, Shape DEF Sweep
  <2> HIDE DEF gr
  <2> QED
    BY <1>2, <1>a, <2>1, <2>2, CalmReturn, CalmStep DEF Sweep
<1>3. CASE Mark
  <2> DEFINE s == Mine(Reaper)
             busy == ~s.closed /\ s.status = "busy"
             left == IF busy THEN Interrupt(s, s.active) ELSE s
             end == [left EXCEPT !.cancel = None, !.running = FALSE]
  <2>1. g[Reaper].obj \in 1 .. used /\ s \in Session
    BY <1>3, <1>a, MineType DEF Mark, At, Holding, Label
  <2>2. end.deleted = heap[g[Reaper].obj].deleted
    <3>1. left.deleted = s.deleted
      BY <2>1 DEF Interrupt, SetTurn, Session
    <3>2. left = [s EXCEPT !.turns = left.turns, !.status = left.status]
      BY <2>1 DEF Interrupt, SetTurn, Session
    <3>3. end.deleted = left.deleted
      BY <2>1, <3>2 DEF Session
    <3> QED
      BY <3>1, <3>3 DEF Mine
  <2>3. s.cancel \in Proc \cup {None}
    BY <2>1 DEF Session
  <2>4. /\ heap' = [heap EXCEPT ![g[Reaper].obj] = end]
        /\ g' = [Cancelled(g, s.cancel) EXCEPT ![Reaper].pc = "snapshot"]
    BY <1>3 DEF Mark
  <2> HIDE DEF s, end
  <2>5. /\ Cancelled(g, s.cancel) \in [Proc -> Goroutine]
        /\ \A q \in Proc : /\ Cancelled(g, s.cancel)[q].pc = g[q].pc
                           /\ Cancelled(g, s.cancel)[q].fd = g[q].fd
    BY <1>a, <2>3, CancelledType
  <2>6. /\ \A q \in Proc \ {Reaper} : g'[q].pc = g[q].pc /\ g'[q].fd = g[q].fd
        /\ g'[Reaper] = [Cancelled(g, s.cancel)[Reaper] EXCEPT !.pc = "snapshot"]
    BY <1>a, <2>4, <2>5
  <2>7. g'[Reaper].pc = "snapshot" /\ g'[Reaper].fd = g[Reaper].fd
    BY <1>a, <2>5, <2>6 DEF Goroutine
  <2>8. \A o \in 1 .. used : heap'[o].deleted = heap[o].deleted
    BY <2>1, <2>2, <2>4, Shape
  <2>9. UNCHANGED <<sess, used, disk, gone>>
    BY <1>3 DEF Mark
  <2>10. Calm
    BY <2>6, <2>7, <2>8, <2>9 DEF Calm
  <2> QED
    BY <2>10, CalmKeeps
<1>4. CASE Restart
  <2>1. /\ UNCHANGED <<disk, gone>> /\ g' = [r \in Proc |-> Idle]
        /\ sess' = used' /\ used' \in {0, 1} /\ (disk.st # "full" => sess' = 0)
    BY <1>4 DEF Restart
  <2>2. \A r \in Proc : g'[r].pc = "idle" /\ g'[r].fd = "none"
    BY <2>1 DEF Idle
  <2>3. OneLiveObject'
    BY <2>1 DEF OneLiveObject
  <2>4. DeletionInv'
    BY <2>1, <2>2 DEF RemovalInv, DeletionInv, Missing
  <2> QED
    BY <2>3, <2>4
<1> QED
  BY <1>1, <1>2, <1>3, <1>4

LEMMA RemovalStep == RemovalInv /\ [Next]_vars => RemovalInv'
<1> SUFFICES ASSUME RemovalInv, [Next]_vars PROVE OneLiveObject' /\ DeletionInv'
  BY TypeStep DEF RemovalInv
<1>1. CASE \E r \in Proc : Call(r) \/ Serve(r) \/ Persist(r)
  <2> PICK r \in Proc : Call(r) \/ Serve(r) \/ Persist(r)
    BY <1>1
  <2> QED
    BY RemovalMap, RemovalRequest, RemovalDrive, RemovalFinish, RemovalPersist
       DEF Call, Serve
<1>2. CASE CancelRoot \/ Sweep \/ Mark \/ Restart
  BY <1>2, RemovalStop
<1>3. CASE UNCHANGED vars
  BY <1>3 DEF vars, RemovalInv, OneLiveObject, DeletionInv
<1> QED
  BY <1>1, <1>2, <1>3 DEF Next

\* At any time at most one object stands for the session, and the map holds
\* it: every other one was marked deleted before it lost its place.
THEOREM OneLiveObjectAlways == Spec => []OneLiveObject
<1>1. Init => RemovalInv
  BY TypeInit, RemovalInit DEF RemovalInv
<1>2. RemovalInv => OneLiveObject
  BY DEF RemovalInv
<1> QED
  BY <1>1, <1>2, RemovalStep, PTL DEF Spec

\* Once a deletion was answered and nobody was past the checks, neither the
\* file nor the session comes back, whatever drivers of the deleted session
\* still save, until the session is opened anew.
THEOREM DeletedStaysAwayAlways == Spec => []DeletedStaysAway
<1>1. Init => RemovalInv
  BY TypeInit, RemovalInit DEF RemovalInv
<1>2. RemovalInv => DeletedStaysAway
  BY DEF RemovalInv, DeletionInv, DeletedStaysAway
<1> QED
  BY <1>1, <1>2, RemovalStep, PTL DEF Spec

-----------------------------------------------------------------------------
(* Turns and those who drive them *)


WorkInv == TypeInv /\ DriverInv /\ ActiveHasDriver /\ BusyHasDriver

LEMMA WorkInit == Init => DriverInv /\ ActiveHasDriver /\ BusyHasDriver
<1> SUFFICES ASSUME Init PROVE DriverInv /\ ActiveHasDriver /\ BusyHasDriver
  OBVIOUS
<1>1. used = 0 /\ \A r \in Proc : g[r].pc = "idle" /\ g[r].next = "idle"
  BY DEF Init, Idle
<1>2. \A r \in Proc : ~Driving(r)
  BY <1>1 DEF Driving
<1>3. \A o \in 1 .. used : FALSE
  BY <1>1
<1> QED
  BY <1>2, <1>3 DEF DriverInv, ActiveHasDriver, BusyHasDriver

-----------------------------------------------------------------------------
(* Quiet steps *)

\* A goroutine with this record drives a turn.
Drives(gr) == {gr.pc, gr.next} \cap {"announce", "prepare", "exec", "finish"} # {}

\* The goroutine drives what it drove.
SameDrive(q) ==
  /\ Drives(g'[q]) <=> Drives(g[q])
  /\ Drives(g[q]) => g'[q].obj = g[q].obj /\ g'[q].turn = g[q].turn

\* z in the place of s neither starts nor ends a turn.
Quiet(s, z) ==
  /\ z.running => s.running /\ z.active = s.active
  /\ z.status = "busy" => s.status = "busy"
  /\ ~rootDone => /\ z.status = s.status /\ z.active = s.active
                  /\ s.running \/ s.closed => z.running \/ z.closed
                  /\ \A i \in DOMAIN z.turns :
                       IsLive(z.turns[i]) => i \in DOMAIN s.turns /\ IsLive(s.turns[i])
                  /\ \A i \in DOMAIN s.turns :
                       IsLive(s.turns[i]) => i \in DOMAIN z.turns /\ IsLive(z.turns[i])

\* No turn runs in a session that was just created or restored.
Fresh(z) == /\ z.status # "busy" /\ ~z.running
            /\ \A i \in DOMAIN z.turns : ~IsLive(z.turns[i])

\* The parts of the state that a step reads here.
LEMMA WorkShape ==
  ASSUME WorkInv
  PROVE  /\ heap \in [Obj -> Session] /\ g \in [Proc -> Goroutine]
         /\ used \in 0 .. MaxObj /\ used \in Nat /\ 1 .. used \subseteq Obj
         /\ sess \in 0 .. used
         /\ \A r \in Proc : g[r].pc \in Holding => g[r].obj \in 1 .. used
<1>1. used \in 0 .. MaxObj /\ MaxObj \in Nat
  BY BoundsAssumption DEF WorkInv, TypeInv, TypeOK
<1>2. 1 .. used \subseteq Obj
  BY <1>1 DEF Obj
<1> QED
  BY <1>1, <1>2 DEF WorkInv, TypeInv, TypeOK, GoroutinesInv

\* Only a goroutine at work drives.
LEMMA DriverHolds ==
  ASSUME WorkInv, NEW r \in Proc, Drives(g[r])
  PROVE  g[r].obj \in 1 .. used
<1>1. g[r] \in Goroutine /\ (g[r].pc \notin Saving \cup {"snapshot"} => g[r].next = "idle")
  BY WorkShape DEF WorkInv, TypeInv, GoroutinesInv
<1>2. g[r].pc \in Holding
  BY <1>1 DEF Drives, Holding, Goroutine, Label, Saving
<1> QED
  BY <1>2, WorkShape

LEMMA QuietKeeps ==
  ASSUME WorkInv,
         \A q \in Proc : SameDrive(q),
         used' \in Nat, used <= used',
         \A o \in 1 .. used : Quiet(heap[o], heap'[o]),
         \A o \in 1 .. used' : o > used => Fresh(heap'[o]),
         ~rootDone' => ~rootDone
  PROVE  DriverInv' /\ ActiveHasDriver' /\ BusyHasDriver'
<1>0. used \in Nat
  BY WorkShape
<1>1. \A q \in Proc : Driving(q) <=> Drives(g[q])
  BY DEF Driving, Drives
<1>2. \A q \in Proc : Driving(q)' <=> Driving(q)
  BY DEF Driving, Drives, SameDrive
<1>3. \A q \in Proc : Driving(q) => g'[q].obj = g[q].obj /\ g'[q].turn = g[q].turn
  BY <1>1 DEF SameDrive
<1>4. \A o \in 1 .. used' : o \in 1 .. used \/ (o > used /\ Fresh(heap'[o]))
  BY <1>0
<1>5. DriverInv'
  <2> SUFFICES ASSUME ~rootDone', ~rootDone
               PROVE  DriverInv'
    BY DEF DriverInv
  <2>1. \A r \in Proc : Driving(r)' =>
          LET s == heap'[g'[r].obj]
          IN  /\ s.status = "busy" /\ s.active = g'[r].turn /\ (s.running \/ s.closed)
              /\ g'[r].turn \in DOMAIN s.turns /\ IsLive(s.turns[g'[r].turn])
    <3> SUFFICES ASSUME NEW r \in Proc, Driving(r)
                 PROVE  LET s == heap'[g[r].obj]
                        IN  /\ s.status = "busy" /\ s.active = g[r].turn
                            /\ s.running \/ s.closed
                            /\ g[r].turn \in DOMAIN s.turns /\ IsLive(s.turns[g[r].turn])
      BY <1>2, <1>3
    <3>1. g[r].obj \in 1 .. used
      BY <1>1, DriverHolds
    <3> QED
      BY <3>1 DEF WorkInv, DriverInv, Quiet
  <2>2. \A r, q \in Proc : Driving(r)' /\ Driving(q)' /\ g'[r].obj = g'[q].obj => r = q
    BY <1>2, <1>3 DEF WorkInv, DriverInv
  <2>3. \A o \in 1 .. used' : \A i \in DOMAIN heap'[o].turns :
          IsLive(heap'[o].turns[i]) => heap'[o].active = i /\ heap'[o].status = "busy"
    <3> SUFFICES ASSUME NEW o \in 1 .. used', NEW i \in DOMAIN heap'[o].turns,
                        IsLive(heap'[o].turns[i])
                 PROVE  heap'[o].active = i /\ heap'[o].status = "busy"
      OBVIOUS
    <3>1. o \in 1 .. used
      BY <1>4 DEF Fresh
    <3> QED
      BY <3>1 DEF WorkInv, DriverInv, Quiet
  <2> QED
    BY <2>1, <2>2, <2>3 DEF DriverInv, IsLive
<1>6. \A o \in 1 .. used : \A r \in Drivers(o) :
        r \in Proc /\ Driving(r)' /\ g'[r].obj = o /\ g'[r].turn = g[r].turn
  BY <1>2, <1>3 DEF Drivers
<1>7. ActiveHasDriver'
  <2> SUFFICES ASSUME NEW o \in 1 .. used', heap'[o].running, heap'[o].active # 0
               PROVE  \E r \in Proc : g'[r].obj = o /\ Driving(r)' /\ g'[r].turn = heap'[o].active
    BY DEF ActiveHasDriver, Drivers
  <2>1. o \in 1 .. used
    BY <1>4 DEF Fresh
  <2>2. heap[o].running /\ heap'[o].active = heap[o].active
    BY <2>1 DEF Quiet
  <2>3. PICK r \in Drivers(o) : g[r].turn = heap[o].active
    BY <2>1, <2>2 DEF WorkInv, ActiveHasDriver
  <2> QED
    BY <1>6, <2>1, <2>2, <2>3
<1>8. BusyHasDriver'
  <2> SUFFICES ASSUME NEW o \in 1 .. used', heap'[o].status = "busy"
               PROVE  \E r \in Proc : g'[r].obj = o /\ Driving(r)'
    BY DEF BusyHasDriver, Drivers
  <2>1. o \in 1 .. used
    BY <1>4 DEF Fresh
  <2>2. heap[o].status = "busy"
    BY <2>1 DEF Quiet
  <2>3. PICK r : r \in Drivers(o)
    BY <2>1, <2>2 DEF WorkInv, BusyHasDriver
  <2> QED
    BY <1>6, <2>1, <2>3
<1> QED
  BY <1>5, <1>7, <1>8

\* A session that a step leaves alone.
LEMMA QuietSame == \A s : Quiet(s, s)
BY DEF Quiet

\* A quiet step of one goroutine.
LEMMA QuietStep ==
  ASSUME WorkInv, NEW r \in Proc, NEW gr,
         g' = [g EXCEPT ![r] = gr],
         Drives(gr) <=> Drives(g[r]),
         Drives(g[r]) => gr.obj = g[r].obj /\ gr.turn = g[r].turn,
         used' = used, ~rootDone' => ~rootDone,
         \A o \in 1 .. used : Quiet(heap[o], heap'[o])
  PROVE  DriverInv' /\ ActiveHasDriver' /\ BusyHasDriver'
<1>1. used' \in Nat /\ used <= used' /\ \A o \in 1 .. used' : ~(o > used)
  BY WorkShape
<1>2. \A q \in Proc : SameDrive(q)
  BY WorkShape DEF SameDrive
<1> QED
  BY <1>1, <1>2, QuietKeeps

\* A goroutine that stops where it did not drive, or goes on driving.
LEMMA QuietReturn ==
  ASSUME WorkInv, NEW r \in Proc, Return(r), ~Drives(g[r]),
         UNCHANGED <<used, rootDone, heap>>
  PROVE  DriverInv' /\ ActiveHasDriver' /\ BusyHasDriver'
<1>1. ~Drives(Idle) /\ g' = [g EXCEPT ![r] = Idle]
  BY DEF Idle, Return, Drives
<1>2. \A o \in 1 .. used : Quiet(heap[o], heap'[o])
  BY QuietSame
<1> QED
  BY <1>1, <1>2, QuietStep

LEMMA QuietSave ==
  ASSUME WorkInv, NEW r \in Proc, NEW s, NEW gr \in Goroutine, NEW next \in Resumption,
         Save(r, s, gr, next), gr.obj \in 1 .. used, gr.obj = g[r].obj, gr.turn = g[r].turn,
         Drives(g[r]) <=> next \in {"announce", "prepare", "exec", "finish"},
         Quiet(heap[gr.obj], s), UNCHANGED <<used, rootDone>>
  PROVE  DriverInv' /\ ActiveHasDriver' /\ BusyHasDriver'
<1> DEFINE left == [gr EXCEPT !.pc = "snapshot", !.next = next]
<1>1. g' = [g EXCEPT ![r] = left] /\ heap' = [heap EXCEPT ![gr.obj] = s]
  BY DEF Save
<1>2. left.pc = "snapshot" /\ left.next = next /\ left.obj = g[r].obj /\ left.turn = g[r].turn
  BY DEF Goroutine
<1>3. Drives(left) <=> Drives(g[r])
  BY <1>2 DEF Drives
<1>4. \A o \in 1 .. used : Quiet(heap[o], heap'[o])
  BY <1>1, WorkShape, QuietSame
<1> HIDE DEF left
<1> QED
  BY <1>1, <1>2, <1>3, <1>4, QuietStep

\* Steps of a save: a goroutine that resumes goes on driving what it drove.
LEMMA ResumedDrives ==
  ASSUME WorkInv, NEW r \in Proc, g[r].pc \in Saving \cup {"snapshot"}
  PROVE  /\ Drives(Resumed(r)) <=> Drives(g[r])
         /\ Drives(g[r]) => Resumed(r).obj = g[r].obj /\ Resumed(r).turn = g[r].turn
<1>1. g[r] \in Goroutine
  BY WorkShape
<1>2. CASE g[r].next = "idle"
  BY <1>2 DEF Resumed, Idle, Drives, Saving
<1>3. CASE g[r].next # "idle"
  <2>1. Resumed(r) = [g[r] EXCEPT !.pc = g[r].next, !.next = "idle", !.snap = NoRecord,
                                  !.fd = "none"]
    BY <1>3 DEF Resumed
  <2>2. /\ Resumed(r).pc = g[r].next /\ Resumed(r).next = "idle"
        /\ Resumed(r).obj = g[r].obj /\ Resumed(r).turn = g[r].turn
    BY <1>1, <2>1 DEF Goroutine
  <2> QED
    BY <2>2 DEF Drives, Saving
<1> QED
  BY <1>2, <1>3

\* A step that moves descriptors along with r.
LEMMA MovedDrives ==
  ASSUME WorkInv, NEW r \in Proc, NEW where, NEW gr,
         g' = [Moved(g, where) EXCEPT ![r] = gr],
         Drives(gr) <=> Drives(g[r]),
         Drives(g[r]) => gr.obj = g[r].obj /\ gr.turn = g[r].turn
  PROVE  \A q \in Proc : SameDrive(q)
<1>1. g'[r] = gr /\ \A q \in Proc \ {r} : g'[q] = [g[q] EXCEPT !.fd = where[@]]
  BY DEF Moved
<1>2. \A q \in Proc \ {r} : /\ g'[q].pc = g[q].pc /\ g'[q].next = g[q].next
                            /\ g'[q].obj = g[q].obj /\ g'[q].turn = g[q].turn
  <2> SUFFICES ASSUME NEW q \in Proc \ {r}
               PROVE  /\ g'[q].pc = g[q].pc /\ g'[q].next = g[q].next
                      /\ g'[q].obj = g[q].obj /\ g'[q].turn = g[q].turn
    OBVIOUS
  <2>1. g[q] \in Goroutine
    BY WorkShape
  <2>2. g'[q] = [g[q] EXCEPT !.fd = where[g[q].fd]]
    BY <1>1
  <2>3. PICK f : f = where[g[q].fd]
    OBVIOUS
  <2>4. g'[q] = [g[q] EXCEPT !.fd = f]
    BY <2>2, <2>3
  <2> QED
    BY <2>1, <2>4, SMT DEF Goroutine
<1> QED
  BY <1>1, <1>2 DEF SameDrive, Drives

LEMMA WorkPersist ==
  ASSUME WorkInv, NEW r \in Proc, Persist(r)
  PROVE  DriverInv' /\ ActiveHasDriver' /\ BusyHasDriver'
<1>a. /\ UNCHANGED <<used, rootDone, heap>>
      /\ g[r] \in Goroutine /\ g[r].pc \in Saving \cup {"snapshot"}
  BY WorkShape DEF Persist, SnapshotRecord, OpenTemp, WriteTemp, VerifyNotDeleted, CommitTemp,
     SaveFails, At, Saving
<1>b. \A o \in 1 .. used : Quiet(heap[o], heap'[o])
  BY <1>a, QuietSame
<1>1. ASSUME NEW label \in Saving, NEW fd, NEW snap,
             g' = [g EXCEPT ![r].pc = label, ![r].fd = fd, ![r].snap = snap]
      PROVE  DriverInv' /\ ActiveHasDriver' /\ BusyHasDriver'
  <2> DEFINE gr == [g[r] EXCEPT !.pc = label, !.fd = fd, !.snap = snap]
  <2>1. /\ g' = [g EXCEPT ![r] = gr] /\ gr.pc = label /\ gr.next = g[r].next
        /\ gr.obj = g[r].obj /\ gr.turn = g[r].turn
    BY <1>1, <1>a, WorkShape DEF Goroutine
  <2> HIDE DEF gr
  <2>2. Drives(gr) <=> Drives(g[r])
    BY <1>a, <2>1 DEF Drives, Saving
  <2> QED
    BY <1>a, <1>b, <2>1, <2>2, QuietStep
<1>2. CASE g' = [g EXCEPT ![r] = Resumed(r)]
  BY <1>2, <1>a, <1>b, ResumedDrives, QuietStep
<1>3. ASSUME NEW where, g' = [Moved(g, where) EXCEPT ![r] = Resumed(r)]
      PROVE  DriverInv' /\ ActiveHasDriver' /\ BusyHasDriver'
  <2>1. \A q \in Proc : SameDrive(q)
    BY <1>3, <1>a, ResumedDrives, MovedDrives
  <2>2. used' \in Nat /\ used <= used' /\ \A o \in 1 .. used' : ~(o > used)
    BY <1>a, WorkShape
  <2> QED
    BY <1>a, <1>b, <2>1, <2>2, QuietKeeps
<1>4. ASSUME NEW label \in Saving, g' = [g EXCEPT ![r].pc = label]
      PROVE  DriverInv' /\ ActiveHasDriver' /\ BusyHasDriver'
  <2>1. g' = [g EXCEPT ![r].pc = label, ![r].fd = g[r].fd, ![r].snap = g[r].snap]
    BY <1>4, <1>a, WorkShape DEF Goroutine
  <2> QED
    BY <1>1, <2>1
<1>5. ASSUME NEW label \in Saving, NEW fd, g' = [g EXCEPT ![r].pc = label, ![r].fd = fd]
      PROVE  DriverInv' /\ ActiveHasDriver' /\ BusyHasDriver'
  <2>1. g' = [g EXCEPT ![r].pc = label, ![r].fd = fd, ![r].snap = g[r].snap]
    BY <1>5, <1>a, WorkShape DEF Goroutine
  <2> QED
    BY <1>1, <2>1
<1>6. ASSUME NEW label \in Saving, NEW snap, g' = [g EXCEPT ![r].pc = label, ![r].snap = snap]
      PROVE  DriverInv' /\ ActiveHasDriver' /\ BusyHasDriver'
  <2>1. g' = [g EXCEPT ![r].pc = label, ![r].fd = g[r].fd, ![r].snap = snap]
    BY <1>6, <1>a, WorkShape DEF Goroutine
  <2> QED
    BY <1>1, <2>1
<1>7. "open" \in Saving /\ "write" \in Saving /\ "verify" \in Saving /\ "commit" \in Saving
  BY DEF Saving
<1>8. CASE SnapshotRecord(r)
  <2>1. \/ g' = [g EXCEPT ![r] = Resumed(r)]
        \/ g' = [g EXCEPT ![r].pc = "open", ![r].snap = Persisted(Mine(r))]
    BY <1>8 DEF SnapshotRecord
  <2> QED
    BY <1>2, <1>6, <1>7, <2>1
<1>9. CASE OpenTemp(r)
  BY <1>5, <1>7, <1>9 DEF OpenTemp
<1>10. CASE WriteTemp(r)
  BY <1>5, <1>7, <1>10 DEF WriteTemp
<1>11. CASE VerifyNotDeleted(r)
  <2>1. \/ g' = [Moved(g, Unlinked("tmp")) EXCEPT ![r] = Resumed(r)]
        \/ g' = [g EXCEPT ![r].pc = "commit"]
    BY <1>11 DEF VerifyNotDeleted, Goto
  <2> QED
    BY <1>3, <1>4, <1>7, <2>1
<1>12. CASE CommitTemp(r)
  <2>1. \/ g' = [Moved(g, Renamed) EXCEPT ![r] = Resumed(r)]
        \/ g' = [g EXCEPT ![r] = Resumed(r)]
    BY <1>12 DEF CommitTemp
  <2> QED
    BY <1>2, <1>3, <2>1
<1>13. CASE SaveFails(r)
  <2>1. \/ g' = [Moved(g, Unlinked("tmp")) EXCEPT ![r] = Resumed(r)]
        \/ g' = [g EXCEPT ![r] = Resumed(r)]
    BY <1>13 DEF SaveFails
  <2> QED
    BY <1>2, <1>3, <2>1
<1> QED
  BY <1>8, <1>9, <1>10, <1>11, <1>12, <1>13 DEF Persist

-----------------------------------------------------------------------------
(* Steps that begin a turn *)

\* A session that is not busy has no driver, and no turn of it runs; so the
\* goroutine that begins one is its only driver.
LEMMA BeginKeeps ==
  ASSUME WorkInv, NEW r \in Proc, ~Drives(g[r]), NEW s \in Session, NEW t \in Nat,
         NEW gr \in Goroutine, Save(r, s, gr, "announce"),
         gr.obj \in 1 .. used, gr.turn = t, t # 0,
         ~Busy(heap[gr.obj]),
         s.status = "busy", s.running, s.active = t,
         t \in DOMAIN s.turns, IsLive(s.turns[t]),
         \A i \in DOMAIN s.turns :
           IsLive(s.turns[i]) => \/ i = t
                                 \/ /\ i \in DOMAIN heap[gr.obj].turns
                                    /\ IsLive(heap[gr.obj].turns[i]),
         UNCHANGED <<used, rootDone>>
  PROVE  DriverInv' /\ ActiveHasDriver' /\ BusyHasDriver'
<1> DEFINE left == [gr EXCEPT !.pc = "snapshot", !.next = "announce"]
           p == gr.obj
<1>1. g' = [g EXCEPT ![r] = left] /\ heap' = [heap EXCEPT ![p] = s]
  BY DEF Save
<1>2. left.pc = "snapshot" /\ left.next = "announce" /\ left.obj = p /\ left.turn = t
  BY DEF Goroutine
<1> HIDE DEF left
<1>3. g'[r] = left /\ \A q \in Proc \ {r} : g'[q] = g[q]
  BY <1>1, WorkShape
<1>4. heap'[p] = s /\ \A o \in 1 .. used : o # p => heap'[o] = heap[o]
  BY <1>1, WorkShape
<1>5. /\ Driving(r)' /\ g'[r].obj = p /\ g'[r].turn = t /\ ~Driving(r)
      /\ \A q \in Proc \ {r} : (Driving(q)' <=> Driving(q)) /\ g'[q].obj = g[q].obj
                               /\ g'[q].turn = g[q].turn
  BY <1>2, <1>3 DEF Driving, Drives
<1>6. \A q \in Proc : Driving(q) => g[q].obj \in 1 .. used
  BY DriverHolds DEF Driving, Drives
<1>7. DriverInv'
  <2> SUFFICES ASSUME ~rootDone PROVE DriverInv'
    BY DEF DriverInv
  <2>1. \A q \in Proc : Driving(q) => g[q].obj # p
    BY DEF WorkInv, DriverInv, Busy
  <2>2. \A i \in DOMAIN s.turns : IsLive(s.turns[i]) => i = t
    BY DEF WorkInv, DriverInv, Busy
  <2>3. \A q \in Proc : Driving(q)' =>
          LET z == heap'[g'[q].obj]
          IN  /\ z.status = "busy" /\ z.active = g'[q].turn /\ (z.running \/ z.closed)
              /\ g'[q].turn \in DOMAIN z.turns /\ IsLive(z.turns[g'[q].turn])
    BY <1>4, <1>5, <1>6, <2>1 DEF WorkInv, DriverInv
  <2>4. \A q, w \in Proc : Driving(q)' /\ Driving(w)' /\ g'[q].obj = g'[w].obj => q = w
    BY <1>5, <2>1 DEF WorkInv, DriverInv
  <2>5. \A o \in 1 .. used : \A i \in DOMAIN heap'[o].turns :
          IsLive(heap'[o].turns[i]) => heap'[o].active = i /\ heap'[o].status = "busy"
    BY <1>4, <2>2 DEF WorkInv, DriverInv
  <2> QED
    BY <2>3, <2>4, <2>5 DEF DriverInv, IsLive
<1>8. \A o \in 1 .. used : \A q \in Drivers(o) :
        q \in Proc /\ Driving(q)' /\ g'[q].obj = o /\ g'[q].turn = g[q].turn
  BY <1>5 DEF Drivers
<1>9. ActiveHasDriver'
  <2> SUFFICES ASSUME NEW o \in 1 .. used, heap'[o].running, heap'[o].active # 0
               PROVE  \E q \in Proc : g'[q].obj = o /\ Driving(q)' /\ g'[q].turn = heap'[o].active
    BY DEF ActiveHasDriver, Drivers
  <2>1. CASE o = p
    BY <1>4, <1>5, <2>1
  <2>2. CASE o # p
    BY <1>4, <1>8, <2>2 DEF WorkInv, ActiveHasDriver
  <2> QED
    BY <2>1, <2>2
<1>10. BusyHasDriver'
  <2> SUFFICES ASSUME NEW o \in 1 .. used, heap'[o].status = "busy"
               PROVE  \E q \in Proc : g'[q].obj = o /\ Driving(q)'
    BY DEF BusyHasDriver, Drivers
  <2>1. CASE o = p
    BY <1>5, <2>1
  <2>2. CASE o # p
    <3>1. PICK q : q \in Drivers(o)
      BY <1>4, <2>2 DEF WorkInv, BusyHasDriver
    <3> QED
      BY <1>8, <3>1
  <2> QED
    BY <2>1, <2>2
<1> QED
  BY <1>7, <1>9, <1>10

\* Before the stop nothing looks like an orphan: a busy session has a driver,
\* and its running flag is up unless it was deleted.
LEMMA NoOrphan == WorkInv => NeverOrphaned
<1> SUFFICES ASSUME WorkInv, ~rootDone, NEW o \in 1 .. used, Orphaned(heap[o])
             PROVE  FALSE
  BY DEF NeverOrphaned
<1>1. heap[o].status = "busy"
  BY DEF Orphaned, WorkInv, DriverInv
<1>2. PICK r : r \in Drivers(o)
  BY <1>1 DEF WorkInv, BusyHasDriver
<1>3. heap[o].running \/ heap[o].closed
  BY <1>2 DEF Drivers, WorkInv, DriverInv
<1> QED
  BY <1>3 DEF Orphaned

LEMMA WorkRequest ==
  ASSUME WorkInv, NEW r \in Proc,
         Reconcile(r) \/ CheckRepository(r) \/ Pin(r) \/ Accept(r) \/ Retry(r)
  PROVE  DriverInv' /\ ActiveHasDriver' /\ BusyHasDriver'
<1>a. TypeInv /\ g[r] \in Goroutine
  BY WorkShape DEF WorkInv
<1>b. g[r].obj \in 1 .. used /\ Mine(r) \in Session /\ Mine(r) = heap[g[r].obj]
  BY <1>a, MineType DEF Reconcile, CheckRepository, Pin, Accept, Retry, At, Holding, Label, Mine
<1>c. UNCHANGED <<used, rootDone>>
  BY DEF Reconcile, CheckRepository, Pin, Accept, Retry
<1>d. g[r].pc \in {"reconcile", "check", "pin", "accept", "retry"} /\ g[r].next = "idle"
  <2>1. g[r].pc \in {"reconcile", "check", "pin", "accept", "retry"}
    BY DEF Reconcile, CheckRepository, Pin, Accept, Retry, At
  <2> QED
    BY <1>a, <2>1 DEF TypeInv, GoroutinesInv, Saving
<1>e. ~Drives(g[r])
  BY <1>d DEF Drives
<1>f. ASSUME NEW label, label \notin {"announce", "prepare", "exec", "finish"}, NEW b,
             g' = [g EXCEPT ![r].pc = label, ![r].bind = b], UNCHANGED heap
      PROVE  DriverInv' /\ ActiveHasDriver' /\ BusyHasDriver'
  <2> DEFINE gr == [g[r] EXCEPT !.pc = label, !.bind = b]
  <2>1. gr.pc = label /\ gr.next = "idle" /\ g' = [g EXCEPT ![r] = gr]
    BY <1>a, <1>d, <1>f, WorkShape DEF Goroutine
  <2>2. \A o \in 1 .. used : Quiet(heap[o], heap'[o])
    BY <1>f, QuietSame
  <2> HIDE DEF gr
  <2>3. ~Drives(gr)
    BY <1>f, <2>1 DEF Drives
  <2> QED
    BY <1>c, <1>e, <2>1, <2>2, <2>3, QuietStep
<1>1. CASE Reconcile(r)
  <2> DEFINE next == AfterReconcile(g[r].op)
             s == Mine(r)
             turn == SetTurn(s, OrphanedTurn(s), "interrupted")
             left == [Interrupt(s, OrphanedTurn(s)) EXCEPT !.active = 0]
  <2>1. next \in {"accept", "check", "retry", "idle"}
    BY DEF AfterReconcile
  <2>2. CASE Orphaned(s)
    <3>1. rootDone /\ ~s.running
      BY <1>b, <2>2, NoOrphan DEF NeverOrphaned, Orphaned
    <3>2. left.status = "interrupted" /\ left.running = s.running
      <4>1. turn = [s EXCEPT !.turns = turn.turns]
        BY <1>b DEF SetTurn, Session
      <4> QED
        BY <1>b, <4>1 DEF Interrupt, Session
    <3>3. Quiet(s, left)
      BY <3>1, <3>2 DEF Quiet
    <3>4. Save(r, left, g[r], next)
      BY <1>1, <2>2 DEF Reconcile
    <3> HIDE DEF left, next, s
    <3>5. next \in Resumption /\ next \notin {"announce", "prepare", "exec", "finish"}
      BY <2>1 DEF Resumption
    <3>6. Quiet(heap[g[r].obj], left)
      BY <1>b, <3>3 DEF s
    <3> QED
      BY <1>a, <1>b, <1>c, <1>e, <3>4, <3>5, <3>6, QuietSave
  <2>3. CASE ~Orphaned(s)
    <3>1. (Return(r) \/ Goto(r, next)) /\ UNCHANGED heap
      BY <1>1, <2>3 DEF Reconcile
    <3>2. CASE Goto(r, next)
      <4>1. g' = [g EXCEPT ![r].pc = next, ![r].bind = g[r].bind]
        BY <1>a, <3>2, WorkShape DEF Goto, Goroutine
      <4> HIDE DEF next
      <4> QED
        BY <1>f, <2>1, <3>1, <4>1
    <3> QED
      BY <1>c, <1>e, <3>1, <3>2, QuietReturn
  <2> QED
    BY <2>2, <2>3
<1>2. CASE CheckRepository(r)
  <2>1. CASE Return(r)
    BY <1>2, <1>e, <2>1, QuietReturn DEF CheckRepository
  <2>2. CASE g' = [g EXCEPT ![r].pc = "accept", ![r].bind = (Mine(r).repo = "none")]
    BY <1>2, <1>f, <2>2 DEF CheckRepository
  <2> QED
    BY <1>2, <2>1, <2>2 DEF CheckRepository
<1>3. CASE Pin(r)
  <2>1. PICK b \in BOOLEAN : Save(r, [Mine(r) EXCEPT !.pinned = b], g[r], "idle")
    BY <1>3 DEF Pin
  <2> DEFINE left == [Mine(r) EXCEPT !.pinned = b]
  <2>2. /\ left.status = Mine(r).status /\ left.running = Mine(r).running
        /\ left.active = Mine(r).active /\ left.closed = Mine(r).closed
        /\ left.turns = Mine(r).turns
    BY <1>b DEF Session
  <2> HIDE DEF left
  <2>3. Quiet(heap[g[r].obj], left)
    BY <1>b, <2>2 DEF Quiet
  <2>4. Save(r, left, g[r], "idle") /\ "idle" \in Resumption
    BY <2>1 DEF left, Resumption
  <2> QED
    BY <1>a, <1>b, <1>c, <1>e, <2>3, <2>4, QuietSave
<1>4. CASE Accept(r)
  <2> DEFINE s == Mine(r)
             t == Len(s.turns) + 1
             added == [prompt |-> g[r].prompt, st |-> "running", steps |-> 0]
             begun == [s EXCEPT
               !.repo = IF g[r].bind THEN "preparing" ELSE @,
               !.closed = FALSE,
               !.turns = Append(@, added)]
             gr == [g[r] EXCEPT !.turn = t, !.bind = FALSE]
             left == Driven(begun, t, r)
  <2>1. \/ Return(r) /\ UNCHANGED heap
        \/ ~Busy(s) /\ Save(r, left, gr, "announce")
    BY <1>4 DEF Accept
  <2>2. CASE Return(r) /\ UNCHANGED heap
    BY <1>c, <1>e, <2>2, QuietReturn
  <2>3. CASE ~Busy(s) /\ Save(r, left, gr, "announce")
    <3>1. s.turns \in Seq(Turn) /\ t \in Nat /\ t # 0
      BY <1>b DEF Session
    <3>2. added \in Turn
      <4>1. g[r].op \in TurnOps
        BY <1>4, <1>a DEF Accept, At, TypeInv, GoroutinesInv, TurnLabels
      <4>2. g[r].prompt \in Prompt
        BY <1>a, <4>1 DEF TypeInv, GoroutinesInv
      <4> QED
        BY <4>2, BoundsAssumption DEF Turn, TurnStatus
    <3> HIDE DEF added
    <3>3. /\ begun \in Session /\ begun.turns = Append(s.turns, added)
      <4>1. Append(s.turns, added) \in Seq(Turn)
        BY <3>1, <3>2
      <4>2. (IF g[r].bind THEN "preparing" ELSE s.repo) \in RepoStatus
        BY <1>b DEF Session, RepoStatus
      <4> QED
        BY <1>b, <4>1, <4>2 DEF Session
    <3> HIDE DEF begun
    <3>4. /\ left \in Session /\ left.status = "busy" /\ left.running /\ left.active = t
          /\ left.turns = begun.turns
      BY <3>1, <3>3 DEF Driven, Session, SessionStatus
    <3> HIDE DEF left
    <3>5. gr \in Goroutine /\ gr.obj = g[r].obj /\ gr.turn = t
      BY <1>a, <3>1 DEF Goroutine
    <3> HIDE DEF gr
    <3>6. \A i \in DOMAIN left.turns : i = t \/ (i \in DOMAIN s.turns /\ left.turns[i] = s.turns[i])
      BY <3>1, <3>2, <3>3, <3>4
    <3>7. t \in DOMAIN left.turns /\ IsLive(left.turns[t])
      BY <3>1, <3>2, <3>3, <3>4 DEF IsLive, added
    <3> HIDE DEF t
    <3> QED
      BY <1>b, <1>c, <1>e, <2>3, <3>1, <3>4, <3>5, <3>6, <3>7, BeginKeeps DEF IsLive
  <2> QED
    BY <2>1, <2>2, <2>3
<1>5. CASE Retry(r)
  <2> DEFINE s == Mine(r)
             again(t) == [SetTurn(s, t, "running") EXCEPT !.repo = "preparing"]
  <2>1. CASE Return(r) /\ UNCHANGED heap
    BY <1>c, <1>e, <2>1, QuietReturn
  <2>2. CASE ~(Return(r) /\ UNCHANGED heap)
    <3>1. PICK t \in RetryTurns(s) :
            /\ ~Busy(s)
            /\ Save(r, Driven(again(t), t, r),
                    [g[r] EXCEPT !.turn = t, !.prompt = s.turns[t].prompt], "announce")
      BY <1>5, <2>2 DEF Retry
    <3> DEFINE gr == [g[r] EXCEPT !.turn = t, !.prompt = s.turns[t].prompt]
               left == Driven(again(t), t, r)
    <3>2. t \in 1 .. Len(s.turns) /\ s.turns \in Seq(Turn) /\ t \in Nat /\ t # 0
      BY <1>b DEF Session, RetryTurns
    <3>3. SetTurn(s, t, "running") \in Session
      BY <1>b, <3>2, SetTurnType DEF TurnStatus
    <3>4. SetTurn(s, t, "running").turns = [s.turns EXCEPT ![t].st = "running"]
      BY <1>b DEF SetTurn, Session
    <3>5. again(t) \in Session /\ again(t).turns = [s.turns EXCEPT ![t].st = "running"]
      BY <3>3, <3>4 DEF Session, RepoStatus
    <3>6. /\ left \in Session /\ left.status = "busy" /\ left.running /\ left.active = t
          /\ left.turns = [s.turns EXCEPT ![t].st = "running"]
      <4> HIDE DEF again
      <4> QED
        BY <3>2, <3>5 DEF Driven, Session, SessionStatus
    <3> HIDE DEF left
    <3>7. gr \in Goroutine /\ gr.obj = g[r].obj /\ gr.turn = t
      <4>1. s.turns[t] \in Turn
        BY <3>2
      <4>2. s.turns[t].prompt \in 0 .. MaxPrompts
        BY <4>1, BoundsAssumption DEF Turn, Prompt
      <4> QED
        BY <1>a, <3>2, <4>2 DEF Goroutine
    <3>8. Save(r, left, gr, "announce")
      BY <3>1 DEF left
    <3> HIDE DEF gr
    <3>9. \A i \in DOMAIN left.turns : i = t \/ (i \in DOMAIN s.turns /\ left.turns[i] = s.turns[i])
      BY <3>2, <3>6
    <3>10. ~Busy(heap[gr.obj]) /\ gr.obj \in 1 .. used
      BY <1>b, <3>1, <3>7
    <3>11. \A i \in DOMAIN left.turns :
             IsLive(left.turns[i]) => \/ i = t
                                      \/ /\ i \in DOMAIN heap[gr.obj].turns
                                         /\ IsLive(heap[gr.obj].turns[i])
      BY <1>b, <3>7, <3>9
    <3>12. t \in DOMAIN left.turns /\ IsLive(left.turns[t])
      <4>1. s.turns[t] \in Turn /\ t \in DOMAIN s.turns
        BY <3>2
      <4> QED
        BY <3>2, <3>6, <4>1 DEF IsLive, Turn
    <3> HIDE DEF s, again
    <3> QED
      BY <1>c, <1>e, <3>2, <3>6, <3>7, <3>8, <3>10, <3>11, <3>12, BeginKeeps
  <2> QED
    BY <2>1, <2>2
<1> QED
  BY <1>1, <1>2, <1>3, <1>4, <1>5

-----------------------------------------------------------------------------
(* A driver at work, and the end of its turn *)

LEMMA WorkDrive ==
  ASSUME WorkInv, NEW r \in Proc,
         Announce(r) \/ PrepareRepository(r) \/ CodexEvent(r) \/ CodexExit(r) \/ Conclude(r)
  PROVE  DriverInv' /\ ActiveHasDriver' /\ BusyHasDriver'
<1>a. TypeInv /\ g[r] \in Goroutine
  BY WorkShape DEF WorkInv
<1>b. g[r].obj \in 1 .. used /\ Mine(r) \in Session /\ Mine(r) = heap[g[r].obj]
  BY <1>a, MineType DEF Announce, PrepareRepository, CodexEvent, CodexExit, Conclude, At,
     Holding, Label, Mine
<1>c. UNCHANGED <<used, rootDone>>
  BY DEF Announce, PrepareRepository, CodexEvent, CodexExit, Conclude
<1>d. g[r].pc \in {"announce", "prepare", "exec", "conclude"} /\ g[r].next = "idle"
  <2>1. g[r].pc \in {"announce", "prepare", "exec", "conclude"}
    BY DEF Announce, PrepareRepository, CodexEvent, CodexExit, Conclude, At
  <2> QED
    BY <1>a, <2>1 DEF TypeInv, GoroutinesInv, Saving
<1>e. g[r].pc # "conclude" => Drives(g[r])
  BY <1>d DEF Drives
<1>f. ASSUME NEW label \in {"prepare", "exec", "finish"}, NEW res, Drives(g[r]),
             g' = [g EXCEPT ![r].pc = label, ![r].res = res], UNCHANGED heap
      PROVE  DriverInv' /\ ActiveHasDriver' /\ BusyHasDriver'
  <2> DEFINE gr == [g[r] EXCEPT !.pc = label, !.res = res]
  <2>1. /\ gr.pc = label /\ gr.obj = g[r].obj /\ gr.turn = g[r].turn
        /\ g' = [g EXCEPT ![r] = gr]
    BY <1>a, <1>f, WorkShape DEF Goroutine
  <2>2. \A o \in 1 .. used : Quiet(heap[o], heap'[o])
    BY <1>f, QuietSame
  <2> HIDE DEF gr
  <2>3. Drives(gr)
    BY <1>f, <2>1 DEF Drives
  <2> QED
    BY <1>c, <1>f, <2>1, <2>2, <2>3, QuietStep
<1>g. ASSUME NEW label \in {"prepare", "exec", "finish"}, Drives(g[r]),
             Goto(r, label), UNCHANGED heap
      PROVE  DriverInv' /\ ActiveHasDriver' /\ BusyHasDriver'
  <2>1. g' = [g EXCEPT ![r].pc = label, ![r].res = g[r].res]
    BY <1>a, <1>g, WorkShape DEF Goto, Goroutine
  <2> QED
    BY <1>f, <1>g, <2>1
<1>1. CASE Announce(r)
  BY <1>1, <1>e, <1>g DEF Announce, At
<1>2. CASE PrepareRepository(r)
  <2>1. Drives(g[r])
    BY <1>2, <1>e DEF PrepareRepository, At
  <2>2. CASE Goto(r, "exec") /\ UNCHANGED heap
    BY <1>g, <2>1, <2>2
  <2>3. ASSUME NEW st, NEW gr \in Goroutine, gr.obj = g[r].obj, gr.turn = g[r].turn,
               NEW next \in {"exec", "finish"},
               Save(r, [Mine(r) EXCEPT !.repo = st], gr, next)
        PROVE  DriverInv' /\ ActiveHasDriver' /\ BusyHasDriver'
    <3> DEFINE left == [Mine(r) EXCEPT !.repo = st]
    <3>1. /\ left.status = Mine(r).status /\ left.running = Mine(r).running
          /\ left.active = Mine(r).active /\ left.closed = Mine(r).closed
          /\ left.turns = Mine(r).turns
      BY <1>b DEF Session
    <3>2. Save(r, left, gr, next) /\ next \in Resumption
      BY <2>3 DEF Resumption
    <3> HIDE DEF left
    <3>3. Quiet(heap[gr.obj], left)
      BY <1>b, <2>3, <3>1 DEF Quiet
    <3> QED
      BY <1>b, <1>c, <2>1, <2>3, <3>2, <3>3, QuietSave
  <2>4. [g[r] EXCEPT !.res = "error"] \in Goroutine
        /\ [g[r] EXCEPT !.res = "error"].obj = g[r].obj
        /\ [g[r] EXCEPT !.res = "error"].turn = g[r].turn
    BY <1>a DEF Goroutine
  <2>5. CASE Save(r, [Mine(r) EXCEPT !.repo = "ready"], g[r], "exec")
    BY <1>a, <2>3, <2>5
  <2>6. CASE Save(r, [Mine(r) EXCEPT !.repo = "failed"], [g[r] EXCEPT !.res = "error"], "finish")
    BY <2>3, <2>4, <2>6
  <2> QED
    BY <1>2, <2>2, <2>5, <2>6 DEF PrepareRepository
<1>3. CASE CodexEvent(r)
  <2> DEFINE s == Mine(r)
             left == [s EXCEPT !.turns[g[r].turn].steps = @ + 1]
  <2>1. /\ left.status = s.status /\ left.running = s.running
        /\ left.active = s.active /\ left.closed = s.closed
        /\ left.turns = [s.turns EXCEPT ![g[r].turn].steps = @ + 1]
    BY <1>b DEF Session
  <2>2. /\ DOMAIN left.turns = DOMAIN s.turns
        /\ \A i \in DOMAIN s.turns : IsLive(left.turns[i]) <=> IsLive(s.turns[i])
    <3>1. s.turns \in [1 .. Len(s.turns) -> Turn]
      BY <1>b DEF Session
    <3> SUFFICES ASSUME NEW i \in DOMAIN s.turns
                 PROVE  left.turns[i].st = s.turns[i].st
      BY <2>1, <3>1 DEF IsLive
    <3>2. s.turns[i] \in Turn
      BY <2>1, <3>1
    <3>3. left.turns[i] = IF i = g[r].turn THEN [s.turns[i] EXCEPT !.steps = @ + 1]
                                           ELSE s.turns[i]
      BY <2>1, <3>1, <3>2
    <3> QED
      BY <3>2, <3>3 DEF Turn
  <2>3. Save(r, left, g[r], "exec") /\ "exec" \in Resumption /\ Drives(g[r])
    BY <1>3, <1>e DEF CodexEvent, Resumption, At
  <2> HIDE DEF left
  <2>4. Quiet(heap[g[r].obj], left)
    BY <1>b, <2>1, <2>2 DEF Quiet
  <2> QED
    BY <1>a, <1>b, <1>c, <2>3, <2>4, QuietSave
<1>4. CASE CodexExit(r)
  <2>1. Drives(g[r]) /\ UNCHANGED heap
    BY <1>4, <1>e DEF CodexExit, At
  <2>2. PICK res : g' = [g EXCEPT ![r].pc = "finish", ![r].res = res]
    BY <1>4 DEF CodexExit
  <2> QED
    BY <1>f, <2>1, <2>2
<1>5. CASE Conclude(r)
  <2>1. ~Drives(g[r]) /\ UNCHANGED heap /\ Return(r)
    BY <1>5, <1>d DEF Conclude, At, Drives
  <2> QED
    BY <1>c, <2>1, QuietReturn
<1> QED
  BY <1>1, <1>2, <1>3, <1>4, <1>5

\* The driver of a turn ends it: the session is not busy any more, and before
\* the stop no turn of it runs.
LEMMA EndKeeps ==
  ASSUME WorkInv, NEW r \in Proc, Drives(g[r]), ~Drives(g'[r]),
         \A q \in Proc \ {r} : SameWork(q), NEW z,
         heap' = [heap EXCEPT ![g[r].obj] = z],
         z.status # "busy", ~(z.running /\ z.active # 0),
         ~rootDone => \A i \in DOMAIN z.turns : ~IsLive(z.turns[i]),
         UNCHANGED <<used, rootDone>>
  PROVE  DriverInv' /\ ActiveHasDriver' /\ BusyHasDriver'
<1> DEFINE p == g[r].obj
<1>1. p \in 1 .. used /\ heap'[p] = z /\ \A o \in 1 .. used : o # p => heap'[o] = heap[o]
  BY DriverHolds, WorkShape
<1>2. /\ ~Driving(r)' /\ Driving(r)
      /\ \A q \in Proc \ {r} : (Driving(q)' <=> Driving(q)) /\ g'[q].obj = g[q].obj
                               /\ g'[q].turn = g[q].turn
  BY DEF Driving, Drives, SameWork
<1>3. \A q \in Proc : Driving(q) => g[q].obj \in 1 .. used
  BY DriverHolds DEF Driving, Drives
<1>4. DriverInv'
  <2> SUFFICES ASSUME ~rootDone PROVE DriverInv'
    BY DEF DriverInv
  <2>1. \A q \in Proc \ {r} : Driving(q) => g[q].obj # p
    BY <1>2 DEF WorkInv, DriverInv
  <2>2. \A q \in Proc : Driving(q)' =>
          LET s == heap'[g'[q].obj]
          IN  /\ s.status = "busy" /\ s.active = g'[q].turn /\ (s.running \/ s.closed)
              /\ g'[q].turn \in DOMAIN s.turns /\ IsLive(s.turns[g'[q].turn])
    BY <1>1, <1>2, <1>3, <2>1 DEF WorkInv, DriverInv
  <2>3. \A q, w \in Proc : Driving(q)' /\ Driving(w)' /\ g'[q].obj = g'[w].obj => q = w
    BY <1>2 DEF WorkInv, DriverInv
  <2>4. \A o \in 1 .. used : \A i \in DOMAIN heap'[o].turns :
          IsLive(heap'[o].turns[i]) => heap'[o].active = i /\ heap'[o].status = "busy"
    BY <1>1 DEF WorkInv, DriverInv
  <2> QED
    BY <2>2, <2>3, <2>4 DEF DriverInv, IsLive
<1>5. \A o \in 1 .. used : o # p =>
        \A q \in Drivers(o) : q \in Proc /\ Driving(q)' /\ g'[q].obj = o /\ g'[q].turn = g[q].turn
  BY <1>2 DEF Drivers
<1>6. ActiveHasDriver'
  BY <1>1, <1>5 DEF WorkInv, ActiveHasDriver, Drivers
<1>7. BusyHasDriver'
  <2> SUFFICES ASSUME NEW o \in 1 .. used, heap'[o].status = "busy"
               PROVE  \E q \in Proc : g'[q].obj = o /\ Driving(q)'
    BY DEF BusyHasDriver, Drivers
  <2>1. o # p /\ heap[o].status = "busy"
    BY <1>1
  <2>2. PICK q : q \in Drivers(o)
    BY <2>1 DEF WorkInv, BusyHasDriver
  <2> QED
    BY <1>5, <2>1, <2>2
<1> QED
  BY <1>4, <1>6, <1>7

\* What ConcludeSession leaves.
LEMMA ConcludeShape ==
  ASSUME WorkInv, NEW r \in Proc, NEW s \in Session
  PROVE  LET z == ConcludeSession(r, s)
         IN  /\ z.status # "busy" /\ z.running = s.running /\ z.active = s.active
             /\ \A i \in DOMAIN z.turns : /\ i \in DOMAIN s.turns
                                          /\ i = g[r].turn => ~IsLive(z.turns[i])
                                          /\ i # g[r].turn => z.turns[i] = s.turns[i]
<1> DEFINE t == g[r].turn
           st == IF ~s.closed THEN Outcome(r)
                 ELSE IF IsLive(s.turns[t]) THEN "completed" ELSE s.turns[t].st
           z == ConcludeSession(r, s)
<1>1. st # "running" /\ Outcome(r) \in {"completed", "interrupted", "failed"}
  BY DEF Outcome, IsLive
<1>2. StatusAfter[Outcome(r)] # "busy"
  BY <1>1 DEF StatusAfter
<1>3. SetTurn(s, t, st) = [s EXCEPT !.turns = [s.turns EXCEPT ![t].st = st]]
  BY DEF SetTurn, Session
<1>4. z.status # "busy" /\ z.running = s.running /\ z.active = s.active
      /\ z.turns = [s.turns EXCEPT ![t].st = st]
  <2> HIDE DEF st
  <2>1. CASE s.closed
    <3>1. z = [SetTurn(s, t, st) EXCEPT !.status = "exited"]
      BY <2>1 DEF ConcludeSession, st
    <3> QED
      BY <1>3, <3>1 DEF Session
  <2>2. CASE ~s.closed
    <3>1. z = [SetTurn(s, t, st) EXCEPT !.status = StatusAfter[Outcome(r)]]
      BY <2>2 DEF ConcludeSession, st
    <3> QED
      BY <1>2, <1>3, <3>1 DEF Session
  <2> QED
    BY <2>1, <2>2
<1>5. s.turns \in [1 .. Len(s.turns) -> Turn]
  BY DEF Session
<1> HIDE DEF z, st
<1>6. ASSUME NEW i \in DOMAIN z.turns
      PROVE  /\ i \in DOMAIN s.turns
             /\ i = t => z.turns[i].st = st
             /\ i # t => z.turns[i] = s.turns[i]
  <2>1. i \in DOMAIN s.turns /\ s.turns[i] \in Turn
    BY <1>4, <1>5
  <2>2. z.turns[i] = IF i = t THEN [s.turns[i] EXCEPT !.st = st] ELSE s.turns[i]
    BY <1>4, <1>5, <2>1
  <2> QED
    BY <2>1, <2>2 DEF Turn
<1> QED
  BY <1>1, <1>4, <1>6 DEF z, IsLive

LEMMA WorkFinish ==
  ASSUME WorkInv, NEW r \in Proc, FinishActive(r) \/ FinishSuperseded(r) \/ FinishLate(r)
  PROVE  DriverInv' /\ ActiveHasDriver' /\ BusyHasDriver'
<1> DEFINE s == Mine(r)
           t == g[r].turn
<1>a. TypeInv /\ g[r] \in Goroutine /\ g[r].pc = "finish"
  BY WorkShape DEF WorkInv, FinishActive, FinishSuperseded, FinishLate, At
<1>b. g[r].obj \in 1 .. used /\ s \in Session /\ s = heap[g[r].obj]
  BY <1>a, MineType DEF Holding, Label, Mine
<1>c. UNCHANGED <<used, rootDone>>
  BY DEF FinishActive, FinishSuperseded, FinishLate
<1>d. Drives(g[r]) /\ Driving(r)
  BY <1>a DEF Drives, Driving
\* Before the stop, the turn of a driver is the active one.
<1>e. ~rootDone => s.active = t
  BY <1>b, <1>d DEF WorkInv, DriverInv
<1>f. ASSUME NEW gr \in Goroutine
      PROVE  /\ ~Drives([gr EXCEPT !.pc = "snapshot", !.next = "conclude"])
             /\ [gr EXCEPT !.pc = "snapshot", !.next = "conclude"] \in Goroutine
  BY DEF Goroutine, Drives, Label, Resumption
<1>g. \A z \in Session : /\ Reported(r, z) \in Goroutine
                         /\ Reported(r, z).obj = g[r].obj
  <2>1. Outcome(r) \in Terminal
    BY DEF Outcome, Terminal
  <2> SUFFICES ASSUME NEW z \in Session
               PROVE  Reported(r, z) \in Goroutine /\ Reported(r, z).obj = g[r].obj
    OBVIOUS
  <2>2. (IF z.closed THEN "completed" ELSE Outcome(r)) \in Terminal
    BY <2>1 DEF Terminal
  <2> QED
    BY <1>a, <2>2 DEF Reported, Goroutine
<1>1. CASE FinishActive(r)
  <2> DEFINE free == Freed(s)
             left == ConcludeSession(r, free)
             gr == [Reported(r, s) EXCEPT !.pc = "snapshot", !.next = "conclude"]
  <2>1. /\ free \in Session /\ free.turns = s.turns /\ ~free.running
        /\ s.cancel \in Proc \cup {None}
    BY <1>b DEF Freed, Session
  <2>2. s.active = t
    BY <1>1 DEF FinishActive
  <2>3. /\ heap' = [heap EXCEPT ![g[r].obj] = left]
        /\ g' = [Cancelled(g, s.cancel) EXCEPT ![r] = gr]
    BY <1>1 DEF FinishActive
  <2>4. gr \in Goroutine /\ ~Drives(gr)
    BY <1>b, <1>f, <1>g
  <2> HIDE DEF gr, free
  <2>5. /\ left.status # "busy" /\ ~left.running
        /\ \A i \in DOMAIN left.turns : /\ i \in DOMAIN s.turns
                                        /\ i = t => ~IsLive(left.turns[i])
                                        /\ i # t => left.turns[i] = s.turns[i]
    BY <2>1, ConcludeShape
  <2> HIDE DEF left
  <2>6. ~rootDone => \A i \in DOMAIN left.turns : ~IsLive(left.turns[i])
    <3>1. ~rootDone => \A i \in DOMAIN s.turns : IsLive(s.turns[i]) => s.active = i
      BY <1>b DEF WorkInv, DriverInv
    <3> QED
      BY <2>2, <2>5, <3>1
  <2>7. g'[r] = gr /\ \A q \in Proc \ {r} : SameWork(q)
    <3> HIDE DEF s
    <3> QED
      BY <1>a, <2>1, <2>3, <2>4, CancelledAndReplaced
  <2> QED
    BY <1>c, <1>d, <2>3, <2>4, <2>5, <2>6, <2>7, EndKeeps
<1>2. CASE FinishSuperseded(r)
  <2> DEFINE left == SetTurn(s, t, Outcome(r))
             gr == [g[r] EXCEPT !.res = Outcome(r)]
             end == [gr EXCEPT !.pc = "snapshot", !.next = "conclude"]
  <2>1. s.active # t /\ s.running /\ s.active # 0
    BY <1>2 DEF FinishSuperseded
  <2>2. rootDone
    BY <1>e, <2>1
  <2>3. /\ left.status = s.status /\ left.running = s.running /\ left.active = s.active
    BY <1>b DEF SetTurn, Session
  <2>4. heap' = [heap EXCEPT ![gr.obj] = left] /\ g' = [g EXCEPT ![r] = end]
    BY <1>2 DEF FinishSuperseded, Save
  <2>5. gr \in Goroutine /\ gr.obj = g[r].obj
    <3>1. Outcome(r) \in Terminal
      BY DEF Outcome, Terminal
    <3> QED
      BY <1>a, <3>1 DEF Goroutine
  <2> HIDE DEF left, gr
  <2>6. heap'[g[r].obj] = left /\ \A o \in 1 .. used : o # g[r].obj => heap'[o] = heap[o]
    BY <1>b, <2>4, <2>5, WorkShape
  <2>7. \A q \in Proc \ {r} : g'[q] = g[q]
    BY <2>4, WorkShape
  <2>8. \A o \in 1 .. used : \A q \in Drivers(o) :
          q # r => q \in Proc /\ Driving(q)' /\ g'[q].obj = o /\ g'[q].turn = g[q].turn
    BY <2>7 DEF Drivers, Driving
  \* The turn that took over has a driver of its own.
  <2>9. PICK w \in Drivers(g[r].obj) : g[w].turn = s.active
    BY <1>b, <2>1 DEF WorkInv, ActiveHasDriver
  <2>10. w # r
    BY <2>1, <2>9
  <2>11. DriverInv'
    BY <1>c, <2>2 DEF DriverInv
  <2>12. ActiveHasDriver'
    <3> SUFFICES ASSUME NEW o \in 1 .. used, heap'[o].running, heap'[o].active # 0
                 PROVE  \E q \in Proc : g'[q].obj = o /\ Driving(q)' /\ g'[q].turn = heap'[o].active
      BY <1>c DEF ActiveHasDriver, Drivers
    <3>1. CASE o = g[r].obj
      BY <2>3, <2>6, <2>8, <2>9, <2>10, <3>1
    <3>2. CASE o # g[r].obj
      <4>1. PICK q \in Drivers(o) : g[q].turn = heap[o].active
        BY <2>6, <3>2 DEF WorkInv, ActiveHasDriver
      <4>2. q # r
        BY <3>2, <4>1 DEF Drivers
      <4> QED
        BY <2>6, <2>8, <3>2, <4>1, <4>2
    <3> QED
      BY <3>1, <3>2
  <2>13. BusyHasDriver'
    <3> SUFFICES ASSUME NEW o \in 1 .. used, heap'[o].status = "busy"
                 PROVE  \E q \in Proc : g'[q].obj = o /\ Driving(q)'
      BY <1>c DEF BusyHasDriver, Drivers
    <3>1. CASE o = g[r].obj
      BY <2>8, <2>9, <2>10, <3>1
    <3>2. CASE o # g[r].obj
      <4>1. PICK q : q \in Drivers(o)
        BY <2>6, <3>2 DEF WorkInv, BusyHasDriver
      <4>2. q # r
        BY <3>2, <4>1 DEF Drivers
      <4> QED
        BY <2>8, <4>1, <4>2
    <3> QED
      BY <3>1, <3>2
  <2> QED
    BY <2>11, <2>12, <2>13
<1>3. CASE FinishLate(r)
  <2> DEFINE left == ConcludeSession(r, s)
             gr == [Reported(r, s) EXCEPT !.pc = "snapshot", !.next = "conclude"]
  <2>1. s.active # t /\ ~(s.running /\ s.active # 0) /\ rootDone
    BY <1>3, <1>e DEF FinishLate
  <2>2. heap' = [heap EXCEPT ![g[r].obj] = left] /\ g' = [g EXCEPT ![r] = gr]
    BY <1>3, <1>b, <1>g DEF FinishLate, Save
  <2>3. gr \in Goroutine /\ ~Drives(gr)
    BY <1>b, <1>f, <1>g
  <2>4. left.status # "busy" /\ ~(left.running /\ left.active # 0)
    BY <1>b, <2>1, ConcludeShape
  <2> HIDE DEF left, gr
  <2>5. g'[r] = gr /\ \A q \in Proc \ {r} : SameWork(q)
    BY <1>a, <2>2, <2>3, Replaced
  <2> QED
    BY <1>c, <1>d, <2>1, <2>2, <2>3, <2>4, <2>5, EndKeeps
<1> QED
  BY <1>1, <1>2, <1>3

-----------------------------------------------------------------------------
(* The map, the stop and the restart *)

LEMMA FreshObjects ==
  /\ Fresh(NewSession)
  /\ \A rec \in Record : Fresh(Restored(rec))
<1>1. Fresh(NewSession)
  BY DEF Fresh, NewSession
<1>2. ASSUME NEW rec \in Record PROVE Fresh(Restored(rec))
  <2>1. Restored(rec).status # "busy" /\ ~Restored(rec).running
    BY DEF Restored
  <2>2. \A i \in DOMAIN Restored(rec).turns : ~IsLive(Restored(rec).turns[i])
    <3> SUFFICES ASSUME NEW i \in DOMAIN rec.turns
                 PROVE  [rec.turns[i] EXCEPT !.st = IF @ = "running" THEN "interrupted"
                                                    ELSE @].st # "running"
      BY DEF Restored, IsLive
    <3>1. rec.turns[i] \in Turn
      BY DEF Record
    <3> QED
      BY <3>1 DEF Turn
  <2> QED
    BY <2>1, <2>2 DEF Fresh
<1> QED
  BY <1>1, <1>2

LEMMA WorkMap ==
  ASSUME WorkInv, NEW r \in Proc,
         Open(r) \/ Lookup(r) \/ LoadRecord(r) \/ Adopt(r) \/ Drop(r) \/ Unlink(r)
  PROVE  DriverInv' /\ ActiveHasDriver' /\ BusyHasDriver'
<1>a. TypeInv /\ g[r] \in Goroutine /\ rootDone' = rootDone
  BY WorkShape DEF WorkInv, Open, Lookup, LoadRecord, Adopt, Drop, Unlink
<1>b. g[r].pc \in {"idle", "load", "adopt", "drop", "unlink"} /\ g[r].next = "idle"
  <2>1. g[r].pc \in {"idle", "load", "adopt", "drop", "unlink"}
    BY DEF Open, Lookup, LoadRecord, Adopt, Drop, Unlink, At
  <2> QED
    BY <1>a, <2>1 DEF TypeInv, GoroutinesInv, Saving
<1>c. ~Drives(g[r])
  BY <1>b DEF Drives
\* r goes on to a label where it does not drive.
<1>d. ASSUME NEW label, label \notin {"announce", "prepare", "exec", "finish"},
             NEW gr, gr.pc = label, gr.next = "idle", g' = [g EXCEPT ![r] = gr]
      PROVE  \A q \in Proc : SameDrive(q)
  BY <1>c, <1>d, WorkShape DEF SameDrive, Drives
<1>e. ASSUME NEW s, Fresh(s), Insert(s), \A q \in Proc : SameDrive(q)
      PROVE  DriverInv' /\ ActiveHasDriver' /\ BusyHasDriver'
  <2>1. used' = used + 1 /\ heap' = [heap EXCEPT ![used + 1] = s] /\ used + 1 \in Obj
    BY <1>e, WorkShape, BoundsAssumption DEF Insert, Obj
  <2>2. heap'[used + 1] = s /\ \A o \in 1 .. used : heap'[o] = heap[o]
    BY <2>1, WorkShape
  <2>3. /\ used' \in Nat /\ used <= used'
        /\ \A o \in 1 .. used' : o > used => o = used + 1
    BY <2>1, WorkShape
  <2>4. \A o \in 1 .. used : Quiet(heap[o], heap'[o])
    BY <2>2, QuietSame
  <2>5. \A o \in 1 .. used' : o > used => Fresh(heap'[o])
    BY <1>e, <2>2, <2>3
  <2> QED
    BY <1>a, <1>e, <2>3, <2>4, <2>5, QuietKeeps
<1>f. ASSUME \A q \in Proc : SameDrive(q), used' = used,
             \A o \in 1 .. used : Quiet(heap[o], heap'[o])
      PROVE  DriverInv' /\ ActiveHasDriver' /\ BusyHasDriver'
  <2>1. used' \in Nat /\ used <= used' /\ \A o \in 1 .. used' : ~(o > used)
    BY <1>f, WorkShape
  <2> QED
    BY <1>a, <1>f, <2>1, QuietKeeps
<1>1. CASE Open(r)
  <2> DEFINE gr == [g[r] EXCEPT !.pc = "snapshot", !.op = "open", !.obj = used + 1]
  <2>1. gr.pc = "snapshot" /\ gr.next = "idle" /\ g' = [g EXCEPT ![r] = gr]
    BY <1>1, <1>a, <1>b, WorkShape DEF Open, Goroutine
  <2> HIDE DEF gr
  <2>2. \A q \in Proc : SameDrive(q)
    BY <1>d, <2>1
  <2> QED
    BY <1>1, <1>e, <2>2, FreshObjects DEF Open
<1>2. CASE Lookup(r)
  <2>1. PICK o \in Ops \ {"open", "stop", "fault"} :
          LET inMap == sess # 0 /\ o # "list"
          IN  g' = [g EXCEPT ![r].op = o,
                             ![r].pc = IF inMap THEN Entry(o) ELSE "load",
                             ![r].obj = IF inMap THEN sess ELSE 0,
                             ![r].prompt = IF o \in TurnOps THEN sent + 1 ELSE 0]
    BY <1>2 DEF Lookup
  <2> DEFINE inMap == sess # 0 /\ o # "list"
             pc == IF inMap THEN Entry(o) ELSE "load"
             obj == IF inMap THEN sess ELSE 0
             n == IF o \in TurnOps THEN sent + 1 ELSE 0
             gr == [g[r] EXCEPT !.op = o, !.pc = pc, !.obj = obj, !.prompt = n]
  <2>2. pc \in {"drop", "pin", "reconcile", "load"}
    BY DEF Entry
  <2>3. gr.pc = pc /\ gr.next = "idle" /\ g' = [g EXCEPT ![r] = gr]
    BY <1>a, <1>b, <2>1, WorkShape DEF Goroutine
  <2> HIDE DEF gr, pc
  <2>4. \A q \in Proc : SameDrive(q)
    BY <1>d, <2>2, <2>3
  <2> QED
    BY <1>2, <1>f, <2>4, QuietSame DEF Lookup
<1>3. CASE LoadRecord(r)
  <2>1. CASE disk.st = "full"
    <3> DEFINE gr == [g[r] EXCEPT !.pc = "adopt", !.snap = disk.rec]
    <3>1. gr.pc = "adopt" /\ gr.next = "idle" /\ g' = [g EXCEPT ![r] = gr]
      BY <1>3, <1>a, <1>b, <2>1, WorkShape DEF LoadRecord, Goroutine
    <3> HIDE DEF gr
    <3>2. \A q \in Proc : SameDrive(q)
      BY <1>d, <3>1
    <3> QED
      BY <1>3, <1>f, <3>2, QuietSame DEF LoadRecord
  <2>2. CASE disk.st # "full"
    BY <1>3, <1>c, <2>2, QuietReturn DEF LoadRecord
  <2> QED
    BY <2>1, <2>2
<1>4. CASE Adopt(r)
  <2> DEFINE gr == [g[r] EXCEPT !.pc = Entry(g[r].op), !.obj = sess', !.snap = NoRecord]
  <2>1. /\ gr.pc = Entry(g[r].op) /\ gr.next = "idle" /\ g' = [g EXCEPT ![r] = gr]
        /\ Entry(g[r].op) \in {"drop", "pin", "reconcile"}
    BY <1>4, <1>a, <1>b, WorkShape DEF Adopt, Goroutine, Entry
  <2> HIDE DEF gr
  <2>2. \A q \in Proc : SameDrive(q)
    BY <1>d, <2>1
  <2>3. g[r].snap \in Record
    BY <1>a DEF Goroutine
  <2>4. CASE sess = 0
    BY <1>4, <1>e, <2>2, <2>3, <2>4, FreshObjects DEF Adopt
  <2>5. CASE sess # 0
    BY <1>4, <1>f, <2>2, <2>5, QuietSame DEF Adopt
  <2> QED
    BY <2>4, <2>5
<1>5. CASE Drop(r)
  <2>1. CASE sess = 0
    BY <1>5, <1>a, <1>c, <2>1, QuietReturn DEF Drop
  <2>2. CASE sess # 0
    <3> DEFINE c == heap[sess].cancel
               gr == [Cancelled(g, c)[r] EXCEPT !.pc = "unlink"]
               s == [heap[sess] EXCEPT !.deleted = TRUE, !.closed = TRUE,
                                       !.cancel = None, !.running = FALSE]
    <3>1. sess \in Obj /\ heap[sess] \in Session /\ c \in Proc \cup {None}
      BY <2>2, WorkShape DEF Session
    <3>2. heap' = [heap EXCEPT ![sess] = s] /\ used' = used
      BY <1>5, <2>2, <3>1, WorkShape DEF Drop
    <3>3. Quiet(heap[sess], s)
      <4>1. /\ s.status = heap[sess].status /\ s.active = heap[sess].active
            /\ s.turns = heap[sess].turns /\ ~s.running /\ s.closed
        BY <3>1 DEF Session
      <4> QED
        BY <4>1 DEF Quiet
    <3> HIDE DEF s, c
    <3>4. \A o \in 1 .. used : Quiet(heap[o], heap'[o])
      BY <3>1, <3>2, <3>3, WorkShape, QuietSame
    <3>5. /\ Cancelled(g, c)[r] \in Goroutine
          /\ g' = [Cancelled(g, c) EXCEPT ![r] = gr]
      BY <1>5, <1>a, <2>2, <3>1, CancelledType DEF Drop, c
    <3>6. gr \in Goroutine /\ gr.pc = "unlink" /\ gr.next = "idle"
      <4>1. Cancelled(g, c)[r].next = "idle"
        BY <1>a, <1>b, <3>1, CancelledType
      <4> QED
        BY <3>5, <4>1 DEF Goroutine, Label
    <3> HIDE DEF gr
    <3>7. g'[r] = gr /\ \A q \in Proc \ {r} : SameWork(q)
      BY <1>a, <3>1, <3>5, <3>6, CancelledAndReplaced
    <3>8. \A q \in Proc : SameDrive(q)
      BY <1>c, <3>6, <3>7 DEF SameDrive, SameWork, Drives
    <3> QED
      BY <1>f, <3>2, <3>4, <3>8
  <2> QED
    BY <2>1, <2>2
<1>6. CASE Unlink(r)
  <2>1. ~Drives(Idle) /\ g' = [Moved(g, Unlinked("disk")) EXCEPT ![r] = Idle]
    BY <1>6 DEF Unlink, Idle, Drives
  <2>2. \A q \in Proc : SameDrive(q)
    BY <1>c, <2>1, MovedDrives
  <2> QED
    BY <1>6, <1>f, <2>2, QuietSame DEF Unlink
<1> QED
  BY <1>1, <1>2, <1>3, <1>4, <1>5, <1>6

LEMMA WorkStop ==
  ASSUME WorkInv, CancelRoot \/ Sweep \/ Mark \/ Restart
  PROVE  DriverInv' /\ ActiveHasDriver' /\ BusyHasDriver'
<1>a. Reaper \in Proc /\ g[Reaper] \in Goroutine /\ TypeInv
  BY WorkShape DEF Proc, WorkInv
<1>1. CASE CancelRoot
  \* Whatever the goroutine of shutdown did before, it drove no turn.
  <2> DEFINE gr == [Idle EXCEPT !.pc = "sweep"]
  <2>1. gr.pc = "sweep" /\ gr.next = "idle" /\ g' = [g EXCEPT ![Reaper] = gr]
    BY <1>1 DEF CancelRoot, Idle
  <2> HIDE DEF gr
  <2>2. ~Drives(gr) /\ ~Drives(g[Reaper])
    <3>1. g[Reaper].op \notin TurnOps
      BY DEF WorkInv, TypeInv, GoroutinesInv, TurnOps
    <3>2. {g[Reaper].pc, g[Reaper].next} \cap TurnLabels = {}
      BY <1>a, <3>1 DEF TypeInv, GoroutinesInv
    <3> QED
      BY <2>1, <3>2 DEF Drives, TurnLabels
  <2>3. used' = used /\ rootDone' /\ \A o \in 1 .. used : Quiet(heap[o], heap'[o])
    BY <1>1, QuietSame DEF CancelRoot
  <2> QED
    BY <1>a, <2>1, <2>2, <2>3, QuietStep
<1>2. CASE Sweep
  <2>1. ~Drives(g[Reaper]) /\ g[Reaper].next = "idle"
    BY <1>a, <1>2 DEF Sweep, At, Drives, TypeInv, GoroutinesInv, Saving
  <2>2. UNCHANGED <<used, rootDone, heap>>
    BY <1>2 DEF Sweep
  <2> DEFINE gr == [g[Reaper] EXCEPT !.pc = "mark", !.obj = sess]
  <2>3. gr.pc = "mark" /\ gr.next = "idle"
    BY <1>a, <2>1 DEF Goroutine
  <2>4. Return(Reaper) \/ g' = [g EXCEPT ![Reaper] = gr]
    BY <1>2, <1>a, WorkShape DEF Sweep
  <2> HIDE DEF gr
  <2>5. ~Drives(gr)
    BY <2>3 DEF Drives
  <2>6. \A o \in 1 .. used : Quiet(heap[o], heap'[o])
    BY <2>2, QuietSame
  <2> QED
    BY <1>a, <2>1, <2>2, <2>4, <2>5, <2>6, QuietReturn, QuietStep
<1>3. CASE Mark
  <2> DEFINE s == Mine(Reaper)
             busy == ~s.closed /\ s.status = "busy"
             left == IF busy THEN Interrupt(s, s.active) ELSE s
             end == [left EXCEPT !.cancel = None, !.running = FALSE]
  <2>1. /\ g[Reaper].obj \in 1 .. used /\ s \in Session /\ s = heap[g[Reaper].obj]
        /\ g[Reaper].next = "idle" /\ g[Reaper].pc = "mark" /\ rootDone
    BY <1>3, <1>a, MineType DEF Mark, At, Holding, Label, Mine, TypeInv, GoroutinesInv, Saving
  <2>2. ~end.running /\ (end.status = "busy" => s.status = "busy")
    <3>1. left = [s EXCEPT !.turns = left.turns, !.status = left.status]
      BY <2>1 DEF Interrupt, SetTurn, Session
    <3>2. left.status \in {"interrupted", s.status}
      BY <2>1 DEF Interrupt, SetTurn, Session
    <3>3. end.status = left.status /\ ~end.running
      BY <2>1, <3>1 DEF Session
    <3> QED
      BY <3>2, <3>3
  <2>3. s.cancel \in Proc \cup {None}
    BY <2>1 DEF Session
  <2>4. /\ heap' = [heap EXCEPT ![g[Reaper].obj] = end]
        /\ g' = [Cancelled(g, s.cancel) EXCEPT ![Reaper].pc = "snapshot"]
        /\ UNCHANGED <<used, rootDone>>
    BY <1>3 DEF Mark
  <2>5. Quiet(s, end)
    BY <2>1, <2>2 DEF Quiet
  <2>6. \A o \in 1 .. used : Quiet(heap[o], heap'[o])
    <3> HIDE DEF s, end
    <3>1. heap[g[Reaper].obj] = s
      BY <2>1
    <3>2. heap'[g[Reaper].obj] = end /\ \A o \in 1 .. used : o # g[Reaper].obj => heap'[o] = heap[o]
      BY <2>1, <2>4, WorkShape
    <3> QED
      BY <2>5, <3>1, <3>2, QuietSame
  <2> HIDE DEF s, end
  <2>7. /\ Cancelled(g, s.cancel) \in [Proc -> Goroutine]
        /\ \A q \in Proc : /\ Cancelled(g, s.cancel)[q].pc = g[q].pc
                           /\ Cancelled(g, s.cancel)[q].next = g[q].next
                           /\ Cancelled(g, s.cancel)[q].obj = g[q].obj
                           /\ Cancelled(g, s.cancel)[q].turn = g[q].turn
    BY <1>a, <2>3, CancelledType
  <2>8. /\ \A q \in Proc \ {Reaper} : g'[q] = Cancelled(g, s.cancel)[q]
        /\ g'[Reaper] = [Cancelled(g, s.cancel)[Reaper] EXCEPT !.pc = "snapshot"]
    BY <1>a, <2>4, <2>7
  <2>9. g'[Reaper].pc = "snapshot" /\ g'[Reaper].next = "idle"
    <3>1. Cancelled(g, s.cancel)[Reaper] \in Goroutine
      BY <1>a, <2>7
    <3>2. Cancelled(g, s.cancel)[Reaper].next = "idle"
      BY <1>a, <2>1, <2>7
    <3> QED
      BY <2>8, <3>1, <3>2 DEF Goroutine
  <2>10. \A q \in Proc : SameDrive(q)
    <3>1. SameDrive(Reaper)
      BY <2>1, <2>9 DEF SameDrive, Drives
    <3>2. ASSUME NEW q \in Proc \ {Reaper}  PROVE SameDrive(q)
      <4>1. /\ g'[q].pc = g[q].pc /\ g'[q].next = g[q].next
            /\ g'[q].obj = g[q].obj /\ g'[q].turn = g[q].turn
        BY <3>2, <2>7, <2>8
      <4> QED
        BY <4>1 DEF SameDrive, Drives
    <3> QED
      BY <3>1, <3>2
  <2>11. used' \in Nat /\ used <= used' /\ \A o \in 1 .. used' : ~(o > used)
    BY <2>4, WorkShape
  <2> QED
    BY <2>4, <2>6, <2>10, <2>11, QuietKeeps
<1>4. CASE Restart
  <2>1. /\ g' = [r \in Proc |-> Idle]
        /\ used' \in {0, 1}
        /\ used' = 1 => heap'[1] = Restored(disk.rec)
    <3>1. MaxObj > 0 /\ 1 \in Obj
      BY <1>4, BoundsAssumption DEF Restart, Obj
    <3> QED
      BY <1>4, <3>1 DEF Restart
  <2>2. \A r \in Proc : ~Driving(r)'
    BY <2>1 DEF Driving, Idle
  <2>3. disk.rec \in Record
    BY <1>a DEF TypeInv, TypeOK, File
  <2>4. \A o \in 1 .. used' : Fresh(heap'[o])
    BY <2>1, <2>3, FreshObjects
  <2> QED
    BY <2>2, <2>4 DEF Fresh, DriverInv, ActiveHasDriver, BusyHasDriver, IsLive
<1> QED
  BY <1>1, <1>2, <1>3, <1>4

LEMMA WorkStep == WorkInv /\ [Next]_vars => WorkInv'
<1> SUFFICES ASSUME WorkInv, [Next]_vars PROVE DriverInv' /\ ActiveHasDriver' /\ BusyHasDriver'
  BY TypeStep DEF WorkInv
<1>1. CASE \E r \in Proc : Call(r) \/ Serve(r) \/ Persist(r)
  <2> PICK r \in Proc : Call(r) \/ Serve(r) \/ Persist(r)
    BY <1>1
  <2> QED
    BY WorkMap, WorkRequest, WorkDrive, WorkFinish, WorkPersist DEF Call, Serve
<1>2. CASE CancelRoot \/ Sweep \/ Mark \/ Restart
  BY <1>2, WorkStop
<1>3. CASE UNCHANGED vars
  <2>1. \A q \in Proc : SameDrive(q)
    BY <1>3 DEF vars, SameDrive
  <2>2. used' \in Nat /\ used <= used' /\ \A o \in 1 .. used' : ~(o > used)
    BY <1>3, WorkShape DEF vars
  <2>3. \A o \in 1 .. used : Quiet(heap[o], heap'[o])
    BY <1>3, QuietSame DEF vars
  <2> QED
    BY <1>3, <2>1, <2>2, <2>3, QuietKeeps DEF vars
<1> QED
  BY <1>1, <1>2, <1>3 DEF Next

LEMMA WorkAlways == Spec => []WorkInv
<1>1. Init => WorkInv
  BY TypeInit, WorkInit DEF WorkInv
<1> QED
  BY <1>1, WorkStep, PTL DEF Spec

-----------------------------------------------------------------------------

\* Until the process is told to stop, a session object has at most one driver,
\* and the turn it drives is the active one: two requests never put two codex
\* processes to work in one session, however their steps interleave with
\* deletions, restores and saves.
THEOREM OneTurnAtATimeAlways == Spec => []OneTurnAtATime
<1>1. WorkInv => OneTurnAtATime
  BY DEF WorkInv, DriverInv, OneTurnAtATime, Drivers
<1> QED
  BY <1>1, WorkAlways, PTL

\* Every busy session has a goroutine that will conclude it.
THEOREM BusyHasDriverAlways == Spec => []BusyHasDriver
<1>1. WorkInv => BusyHasDriver
  BY DEF WorkInv
<1> QED
  BY <1>1, WorkAlways, PTL

\* Until the stop, reconciling a session never takes a running turn for an
\* orphan.
THEOREM NeverOrphanedAlways == Spec => []NeverOrphaned
BY NoOrphan, WorkAlways, PTL

\* Both together: what Busy and reconcileOrphanedRuntimeSession decide by is
\* true of the goroutine that drives the turn.
THEOREM BusyIsDrivenAlways == Spec => []BusyIsDriven
BY BusyHasDriverAlways, NeverOrphanedAlways, PTL DEF BusyIsDriven

=============================================================================
