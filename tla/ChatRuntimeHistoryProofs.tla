----------------------- MODULE ChatRuntimeHistoryProofs -----------------------
(***************************************************************************)
(* What the turns of a session say, and that they outlive the process.     *)
(*                                                                         *)
(* Every step between two restarts moves the turns of an object in one of  *)
(* four ways: it keeps them, begins one, runs one again, or settles one.   *)
(* That an outcome stays, that the session implements the turn ledger, and *)
(* that an answered input is on disk all rest on it.                       *)
(***************************************************************************)
EXTENDS ChatRuntimeProofs

(* How a step moves the turns of an object *)

\* In z the turns are those of s, but for the status of turn t.
Marks(s, z, t, st) ==
  /\ DOMAIN z.turns = DOMAIN s.turns
  /\ \A i \in DOMAIN s.turns :
       /\ z.turns[i].prompt = s.turns[i].prompt
       /\ z.turns[i].st = IF i = t THEN st ELSE s.turns[i].st

SameTurns(s, z) ==
  /\ DOMAIN z.turns = DOMAIN s.turns
  /\ \A i \in DOMAIN s.turns : /\ z.turns[i].prompt = s.turns[i].prompt
                               /\ z.turns[i].st = s.turns[i].st

SameFlags(s, z) == z.status = s.status /\ z.active = s.active /\ z.running = s.running

RunsAt(z, t) == z.status = "busy" /\ z.active = t /\ z.running

\* A turn that runs keeps its flags.
Keeps(s, z) ==
  /\ SameTurns(s, z)
  /\ z.deleted \/ (z.closed = s.closed
                     /\ (SameFlags(s, z) \/ s.status # "busy" \/ s.closed))

Begins(s, z) ==
  /\ ~Busy(s) /\ ~z.closed
  /\ \E t \in Turn : t.st = "running" /\ z.turns = Append(s.turns, t)
  /\ RunsAt(z, Len(s.turns) + 1)

RunsAgain(s, z) ==
  /\ ~Busy(s) /\ CanRetry(s) /\ z.closed = s.closed
  /\ \E t \in RetryTurns(s) : Marks(s, z, t, "running") /\ RunsAt(z, t)

\* No other turn ran, or it goes on with the session's flags.
Settles(s, z) ==
  /\ z.closed = s.closed
  /\ \E t : \E st \in Terminal :
       /\ Marks(s, z, t, st)
       /\ SameFlags(s, z) \/ t = s.active \/ ~s.running \/ s.active = 0
       /\ ~rootDone => t \in DOMAIN s.turns /\ IsLive(s.turns[t])

\* Only a deletion marks an object deleted, and it empties the map.
Moves(s, z) ==
  /\ z.deleted = s.deleted \/ (z.deleted /\ sess' = 0)
  /\ Keeps(s, z) \/ Begins(s, z) \/ RunsAgain(s, z) \/ Settles(s, z)

LEMMA MovesSame == \A s : Moves(s, s)
BY DEF Moves, Keeps, SameTurns, SameFlags

\* A step on one object.
LEMMA MovesOne ==
  ASSUME WorkInv, NEW p \in 1 .. used, NEW z, heap' = [heap EXCEPT ![p] = z],
         Moves(heap[p], z)
  PROVE  \A o \in 1 .. used : Moves(heap[o], heap'[o])
<1>1. heap'[p] = z /\ \A o \in 1 .. used : o # p => heap'[o] = heap[o]
  BY WorkShape
<1> QED
  BY <1>1, MovesSame

\* What SetTurn does to the turns.
LEMMA SetTurnMarks ==
  ASSUME NEW s \in Session, NEW t, NEW st
  PROVE  /\ Marks(s, SetTurn(s, t, st), t, st)
         /\ SetTurn(s, t, st) = [s EXCEPT !.turns = SetTurn(s, t, st).turns]
<1> DEFINE new == [s.turns EXCEPT ![t].st = st]
<1>1. s.turns \in [1 .. Len(s.turns) -> Turn]
  BY DEF Session
<1>2. SetTurn(s, t, st) = [s EXCEPT !.turns = new] /\ SetTurn(s, t, st).turns = new
  BY DEF SetTurn, Session
<1>3. DOMAIN new = DOMAIN s.turns
  BY <1>1
<1>4. ASSUME NEW i \in DOMAIN s.turns
      PROVE  /\ new[i].prompt = s.turns[i].prompt
             /\ new[i].st = IF i = t THEN st ELSE s.turns[i].st
  <2>1. new[i] = IF i = t THEN [s.turns[i] EXCEPT !.st = st] ELSE s.turns[i]
    BY <1>1
  <2>2. s.turns[i] \in Turn
    BY <1>1
  <2> QED
    BY <2>1, <2>2 DEF Turn
<1> HIDE DEF new
<1> QED
  BY <1>2, <1>3, <1>4 DEF Marks

\* A session that is not busy has no running turn and no driver, before the stop.
LEMMA RestingSession ==
  ASSUME WorkInv, ~rootDone, NEW o \in 1 .. used, ~Busy(heap[o])
  PROVE  \A i \in DOMAIN heap[o].turns : ~IsLive(heap[o].turns[i])
BY DEF WorkInv, DriverInv, Busy

LEMMA MovesRequest ==
  ASSUME WorkInv, NEW r \in Proc,
         Reconcile(r) \/ CheckRepository(r) \/ Pin(r) \/ Accept(r) \/ Retry(r)
  PROVE  \A o \in 1 .. used : Moves(heap[o], heap'[o])
<1> DEFINE s == Mine(r)
<1>a. TypeInv /\ g[r] \in Goroutine
  BY WorkShape DEF WorkInv
<1>b. g[r].obj \in 1 .. used /\ s \in Session /\ s = heap[g[r].obj]
  BY <1>a, MineType DEF Reconcile, CheckRepository, Pin, Accept, Retry, At, Holding, Label, Mine
<1>c. ASSUME UNCHANGED heap PROVE \A o \in 1 .. used : Moves(heap[o], heap'[o])
  BY <1>c, MovesSame
<1>1. CASE Reconcile(r)
  <2> DEFINE t == OrphanedTurn(s)
             turn == SetTurn(s, t, "interrupted")
             left == [Interrupt(s, t) EXCEPT !.active = 0]
  <2>1. CASE Orphaned(s)
    <3>1. rootDone /\ ~s.running /\ ~s.closed
      BY <1>b, <2>1, NoOrphan DEF NeverOrphaned, Orphaned
    <3> HIDE DEF t
    <3>2. Marks(s, turn, t, "interrupted") /\ turn = [s EXCEPT !.turns = turn.turns]
      BY <1>b, SetTurnMarks
    <3>3. /\ left.turns = turn.turns /\ left.running = s.running /\ left.closed = s.closed
          /\ left.deleted = s.deleted
      <4> HIDE DEF turn
      <4>1. left = [[turn EXCEPT !.status = "interrupted"] EXCEPT !.active = 0]
        BY DEF Interrupt, turn
      <4> QED
        BY <1>b, <3>2, <4>1 DEF Session
    <3>4. Save(r, left, g[r], AfterReconcile(g[r].op))
      BY <1>1, <2>1 DEF Reconcile, t
    <3> HIDE DEF left, turn, s
    <3>5. Marks(s, left, t, "interrupted") /\ "interrupted" \in Terminal
      BY <3>2, <3>3 DEF Marks, Terminal
    <3>6. Moves(s, left)
      BY <3>1, <3>3, <3>5 DEF Moves, Settles
    <3> QED
      BY <1>b, <3>4, <3>6, MovesOne DEF Save
  <2> QED
    BY <1>1, <1>c, <2>1 DEF Reconcile
<1>2. CASE CheckRepository(r)
  BY <1>2, <1>c DEF CheckRepository
<1>3. CASE Pin(r)
  <2>1. PICK b \in BOOLEAN : Save(r, [s EXCEPT !.pinned = b], g[r], "idle")
    BY <1>3 DEF Pin
  <2> DEFINE left == [s EXCEPT !.pinned = b]
  <2>2. /\ left.status = s.status /\ left.running = s.running /\ left.deleted = s.deleted
        /\ left.active = s.active /\ left.closed = s.closed /\ left.turns = s.turns
    BY <1>b DEF Session
  <2>3. Save(r, left, g[r], "idle")
    BY <2>1
  <2> HIDE DEF left, s
  <2>4. Moves(s, left)
    BY <2>2 DEF Moves, Keeps, SameTurns, SameFlags
  <2> QED
    BY <1>b, <2>3, <2>4, MovesOne DEF Save
<1>4. CASE Accept(r)
  <2> DEFINE t == Len(s.turns) + 1
             added == [prompt |-> g[r].prompt, st |-> "running", steps |-> 0]
             begun == [s EXCEPT
               !.repo = IF g[r].bind THEN "preparing" ELSE @,
               !.closed = FALSE,
               !.turns = Append(@, added)]
             gr == [g[r] EXCEPT !.turn = t, !.bind = FALSE]
             left == Driven(begun, t, r)
  <2>1. \/ UNCHANGED heap
        \/ ~Busy(s) /\ Save(r, left, gr, "announce")
    BY <1>4 DEF Accept
  <2>2. CASE ~Busy(s) /\ Save(r, left, gr, "announce")
    <3>1. added \in Turn /\ added.st = "running"
      <4>1. g[r].op \in TurnOps
        BY <1>4, <1>a DEF Accept, At, TypeInv, GoroutinesInv, TurnLabels
      <4>2. g[r].prompt \in Prompt
        BY <1>a, <4>1 DEF TypeInv, GoroutinesInv
      <4> QED
        BY <4>2, BoundsAssumption DEF Turn, TurnStatus
    <3> HIDE DEF added
    <3>2. /\ left.turns = Append(s.turns, added) /\ ~left.closed /\ RunsAt(left, t)
          /\ left.deleted = s.deleted
      BY <1>b DEF Driven, Session, RunsAt
    <3>3. gr.obj = g[r].obj
      BY <1>a DEF Goroutine
    <3> HIDE DEF left, gr, begun
    <3>4. Moves(s, left)
      BY <2>2, <3>1, <3>2 DEF Moves, Begins
    <3> HIDE DEF s
    <3> QED
      BY <1>b, <2>2, <3>3, <3>4, MovesOne DEF Save
  <2> QED
    BY <1>c, <2>1, <2>2
<1>5. CASE Retry(r)
  <2> DEFINE again(t) == [SetTurn(s, t, "running") EXCEPT !.repo = "preparing"]
  <2>1. CASE ~UNCHANGED heap
    <3>1. PICK t \in RetryTurns(s) :
            /\ ~Busy(s) /\ CanRetry(s)
            /\ Save(r, Driven(again(t), t, r),
                    [g[r] EXCEPT !.turn = t, !.prompt = s.turns[t].prompt], "announce")
      BY <1>5, <2>1 DEF Retry
    <3> DEFINE gr == [g[r] EXCEPT !.turn = t, !.prompt = s.turns[t].prompt]
               turn == SetTurn(s, t, "running")
               left == Driven(again(t), t, r)
    <3>2. Marks(s, turn, t, "running") /\ turn = [s EXCEPT !.turns = turn.turns]
      BY <1>b, SetTurnMarks
    <3>3. left = Driven([turn EXCEPT !.repo = "preparing"], t, r)
      OBVIOUS
    <3>4. /\ left.turns = turn.turns /\ left.closed = s.closed /\ RunsAt(left, t)
          /\ left.deleted = s.deleted
      <4> HIDE DEF turn, left, s
      <4>1. [turn EXCEPT !.repo = "preparing"]
              = [s EXCEPT !.turns = turn.turns, !.repo = "preparing"]
        BY <1>b, <3>2 DEF Session
      <4>2. left = Driven([s EXCEPT !.turns = turn.turns, !.repo = "preparing"], t, r)
        BY <3>3, <4>1
      <4> QED
        BY <1>b, <4>2 DEF Session, Driven, RunsAt
    <3>5. gr.obj = g[r].obj /\ Save(r, left, gr, "announce")
      BY <1>a, <3>1 DEF Goroutine
    <3> HIDE DEF left, gr, turn
    <3>6. Moves(s, left)
      BY <3>1, <3>2, <3>4 DEF Moves, RunsAgain, Marks
    <3> HIDE DEF s, again
    <3> QED
      BY <1>b, <3>5, <3>6, MovesOne DEF Save
  <2> QED
    BY <1>c, <2>1
<1> QED
  BY <1>1, <1>2, <1>3, <1>4, <1>5

\* The driver before its turn ends: it saves, and the turns stay.
LEMMA MovesDrive ==
  ASSUME WorkInv, NEW r \in Proc,
         Announce(r) \/ PrepareRepository(r) \/ CodexEvent(r) \/ CodexExit(r) \/ Conclude(r)
  PROVE  \A o \in 1 .. used : Moves(heap[o], heap'[o])
<1> DEFINE s == Mine(r)
<1>a. TypeInv /\ g[r] \in Goroutine
  BY WorkShape DEF WorkInv
<1>b. g[r].obj \in 1 .. used /\ s \in Session /\ s = heap[g[r].obj]
  BY <1>a, MineType DEF Announce, PrepareRepository, CodexEvent, CodexExit, Conclude, At,
     Holding, Label, Mine
<1>c. ASSUME UNCHANGED heap PROVE \A o \in 1 .. used : Moves(heap[o], heap'[o])
  BY <1>c, MovesSame
<1>1. CASE PrepareRepository(r)
  <2>1. ASSUME NEW st, NEW gr, gr.obj = g[r].obj, NEW next,
               Save(r, [s EXCEPT !.repo = st], gr, next)
        PROVE  \A o \in 1 .. used : Moves(heap[o], heap'[o])
    <3> DEFINE left == [s EXCEPT !.repo = st]
    <3>1. /\ left.status = s.status /\ left.running = s.running /\ left.deleted = s.deleted
          /\ left.active = s.active /\ left.closed = s.closed /\ left.turns = s.turns
      BY <1>b DEF Session
    <3>2. Save(r, left, gr, next)
      BY <2>1
    <3> HIDE DEF left, s
    <3>3. Moves(s, left)
      BY <3>1 DEF Moves, Keeps, SameTurns, SameFlags
    <3> QED
      BY <1>b, <2>1, <3>2, <3>3, MovesOne DEF Save
  <2>2. [g[r] EXCEPT !.res = "error"].obj = g[r].obj
    BY <1>a DEF Goroutine
  <2>3. \/ UNCHANGED heap
        \/ Save(r, [s EXCEPT !.repo = "ready"], g[r], "exec")
        \/ Save(r, [s EXCEPT !.repo = "failed"], [g[r] EXCEPT !.res = "error"], "finish")
    BY <1>1 DEF PrepareRepository
  <2> HIDE DEF s
  <2>4. CASE Save(r, [s EXCEPT !.repo = "ready"], g[r], "exec")
    BY <2>1, <2>4
  <2>5. CASE Save(r, [s EXCEPT !.repo = "failed"], [g[r] EXCEPT !.res = "error"], "finish")
    BY <2>1, <2>2, <2>5
  <2> QED
    BY <1>c, <2>3, <2>4, <2>5
<1>2. CASE CodexEvent(r)
  <2> DEFINE left == [s EXCEPT !.turns[g[r].turn].steps = @ + 1]
  <2>1. /\ left.status = s.status /\ left.running = s.running /\ left.deleted = s.deleted
        /\ left.active = s.active /\ left.closed = s.closed
        /\ left.turns = [s.turns EXCEPT ![g[r].turn].steps = @ + 1]
    BY <1>b DEF Session
  <2>2. SameTurns(s, left)
    <3>1. s.turns \in [1 .. Len(s.turns) -> Turn]
      BY <1>b DEF Session
    <3>2. DOMAIN left.turns = DOMAIN s.turns
      BY <2>1, <3>1
    <3>3. ASSUME NEW i \in DOMAIN s.turns
          PROVE  left.turns[i].prompt = s.turns[i].prompt /\ left.turns[i].st = s.turns[i].st
      <4>1. s.turns[i] \in Turn
        BY <2>1, <3>1
      <4>2. left.turns[i] = IF i = g[r].turn THEN [s.turns[i] EXCEPT !.steps = @ + 1]
                                             ELSE s.turns[i]
        BY <2>1, <3>1, <4>1
      <4> QED
        BY <4>1, <4>2 DEF Turn
    <3> HIDE DEF left
    <3> QED
      BY <3>2, <3>3 DEF SameTurns
  <2>3. Save(r, left, g[r], "exec")
    BY <1>2 DEF CodexEvent
  <2> HIDE DEF left, s
  <2>4. Moves(s, left)
    BY <2>1, <2>2 DEF Moves, Keeps, SameFlags
  <2> QED
    BY <1>b, <2>3, <2>4, MovesOne DEF Save
<1>3. CASE Announce(r) \/ CodexExit(r) \/ Conclude(r)
  BY <1>3, <1>c DEF Announce, CodexExit, Conclude
<1> QED
  BY <1>1, <1>2, <1>3

\* The turn that ends is the driver's own; before the stop it was running.
LEMMA ConcludeMarks ==
  ASSUME WorkInv, NEW r \in Proc, NEW s \in Session,
         g[r].turn \in DOMAIN s.turns => s.turns[g[r].turn].st \in TurnStatus
  PROVE  LET z == ConcludeSession(r, s)
         IN  /\ z.closed = s.closed /\ z.deleted = s.deleted
             /\ \E st \in Terminal : Marks(s, z, g[r].turn, st)
<1> DEFINE t == g[r].turn
           own == IF IsLive(s.turns[t]) THEN "completed" ELSE s.turns[t].st
           st == IF s.closed THEN own ELSE Outcome(r)
           turn == SetTurn(s, t, st)
           z == ConcludeSession(r, s)
<1>1. Outcome(r) \in Terminal
  BY DEF Outcome, Terminal
<1>2. Marks(s, turn, t, st) /\ turn = [s EXCEPT !.turns = turn.turns]
  BY SetTurnMarks
<1>3. z.turns = turn.turns /\ z.closed = s.closed /\ z.deleted = s.deleted
  <2>1. z = [turn EXCEPT !.status = IF s.closed THEN "exited" ELSE StatusAfter[Outcome(r)]]
    BY DEF ConcludeSession
  <2> HIDE DEF turn, z
  <2> QED
    BY <1>2, <2>1 DEF Session
<1>4. t \in DOMAIN s.turns => st \in Terminal
  BY <1>1 DEF IsLive, TurnStatus, Terminal
<1> HIDE DEF z, turn, st
<1>5. CASE t \in DOMAIN s.turns
  BY <1>2, <1>3, <1>4, <1>5 DEF Marks, z
<1>6. CASE t \notin DOMAIN s.turns
  <2>1. Marks(s, z, t, "completed") /\ "completed" \in Terminal
    BY <1>2, <1>3, <1>6 DEF Marks, Terminal
  <2> QED
    BY <1>3, <2>1 DEF z
<1> QED
  BY <1>5, <1>6

LEMMA MovesFinish ==
  ASSUME WorkInv, NEW r \in Proc, FinishActive(r) \/ FinishSuperseded(r) \/ FinishLate(r)
  PROVE  \A o \in 1 .. used : Moves(heap[o], heap'[o])
<1> DEFINE s == Mine(r)
           t == g[r].turn
<1>a. TypeInv /\ g[r] \in Goroutine /\ g[r].pc = "finish"
  BY WorkShape DEF WorkInv, FinishActive, FinishSuperseded, FinishLate, At
<1>b. g[r].obj \in 1 .. used /\ s \in Session /\ s = heap[g[r].obj]
  BY <1>a, MineType DEF Holding, Label, Mine
<1>c. Driving(r)
  BY <1>a DEF Driving
<1>d. ~rootDone => s.active = t /\ t \in DOMAIN s.turns /\ IsLive(s.turns[t])
  BY <1>b, <1>c DEF WorkInv, DriverInv
<1>e. t \in DOMAIN s.turns => s.turns[t].st \in TurnStatus
  <2>1. s.turns \in [1 .. Len(s.turns) -> Turn]
    BY <1>b DEF Session
  <2> QED
    BY <2>1 DEF Turn
<1>1. CASE FinishActive(r)
  <2> DEFINE free == Freed(s)
             left == ConcludeSession(r, free)
  <2>1. /\ free \in Session /\ free.turns = s.turns /\ free.closed = s.closed
        /\ free.deleted = s.deleted
    BY <1>b DEF Freed, Session
  <2>2. s.active = t /\ heap' = [heap EXCEPT ![g[r].obj] = left]
    BY <1>1 DEF FinishActive
  <2> HIDE DEF free
  <2>3. /\ left.closed = s.closed /\ left.deleted = s.deleted
        /\ \E st \in Terminal : Marks(free, left, t, st)
    BY <1>e, <2>1, ConcludeMarks
  <2> HIDE DEF left, s
  <2>4. PICK st \in Terminal : Marks(s, left, t, st)
    BY <2>1, <2>3 DEF Marks
  <2>5. Moves(s, left)
    BY <1>d, <2>1, <2>2, <2>3, <2>4 DEF Moves, Settles
  <2> QED
    BY <1>b, <2>2, <2>5, MovesOne
<1>2. CASE FinishSuperseded(r)
  <2> DEFINE left == SetTurn(s, t, Outcome(r))
             gr == [g[r] EXCEPT !.res = Outcome(r)]
  <2>1. s.active # t /\ Save(r, left, gr, "conclude")
    BY <1>2 DEF FinishSuperseded
  <2>2. Outcome(r) \in Terminal
    BY DEF Outcome, Terminal
  <2>3. Marks(s, left, t, Outcome(r)) /\ left = [s EXCEPT !.turns = left.turns]
    BY <1>b, SetTurnMarks
  <2>4. gr.obj = g[r].obj
    BY <1>a DEF Goroutine
  <2> HIDE DEF left, gr
  <2>5. /\ left.status = s.status /\ left.running = s.running /\ left.active = s.active
        /\ left.closed = s.closed /\ left.deleted = s.deleted
    BY <1>b, <2>3 DEF Session
  <2> HIDE DEF s
  <2>6. Moves(s, left)
    BY <1>d, <2>1, <2>2, <2>3, <2>5 DEF Moves, Settles, SameFlags
  <2> QED
    BY <1>b, <2>1, <2>4, <2>6, MovesOne DEF Save
<1>3. CASE FinishLate(r)
  <2> DEFINE left == ConcludeSession(r, s)
             gr == Reported(r, s)
  <2>1. s.active # t /\ ~(s.running /\ s.active # 0) /\ Save(r, left, gr, "conclude")
    BY <1>3 DEF FinishLate
  <2>2. /\ left.closed = s.closed /\ left.deleted = s.deleted
        /\ \E st \in Terminal : Marks(s, left, t, st)
    BY <1>b, <1>e, ConcludeMarks
  <2>3. gr.obj = g[r].obj
    BY <1>a DEF Goroutine, Reported
  <2> HIDE DEF left, gr, s
  <2>4. Moves(s, left)
    BY <1>d, <2>1, <2>2 DEF Moves, Settles
  <2> QED
    BY <1>b, <2>1, <2>3, <2>4, MovesOne DEF Save
<1> QED
  BY <1>1, <1>2, <1>3

\* Where the map leads after a step: where it led, nowhere, or to a new object.
NewObject(z) == z = NewSession \/ \E r \in Proc : z = Restored(g[r].snap)

Placed ==
  \/ sess' \in {sess, 0} /\ used' = used
  \/ /\ sess = 0 /\ sess' = used + 1 /\ used' = used + 1
     /\ NewObject(heap'[used + 1])

LEMMA MovesMap ==
  ASSUME WorkInv, NEW r \in Proc,
         Open(r) \/ Lookup(r) \/ LoadRecord(r) \/ Adopt(r) \/ Drop(r) \/ Unlink(r)
  PROVE  Placed /\ \A o \in 1 .. used : Moves(heap[o], heap'[o])
<1>a. ASSUME NEW s, NewObject(s), Insert(s), sess = 0
      PROVE  Placed /\ \A o \in 1 .. used : Moves(heap[o], heap'[o])
  <2>1. heap' = [heap EXCEPT ![used + 1] = s] /\ used + 1 \in Obj
    BY <1>a, WorkShape, BoundsAssumption DEF Insert, Obj
  <2>2. heap'[used + 1] = s /\ \A o \in 1 .. used : heap'[o] = heap[o]
    BY <2>1, WorkShape
  <2> QED
    BY <1>a, <2>2, MovesSame DEF Insert, Placed
<1>b. ASSUME UNCHANGED <<sess, used, heap>>
      PROVE  Placed /\ \A o \in 1 .. used : Moves(heap[o], heap'[o])
  BY <1>b, MovesSame DEF Placed
<1>1. CASE Open(r)
  BY <1>1, <1>a DEF Open, NewObject
<1>2. CASE Adopt(r)
  BY <1>2, <1>a, <1>b DEF Adopt, NewObject
<1>3. CASE Drop(r)
  <2>1. CASE sess # 0
    <3> DEFINE s == heap[sess]
               left == [s EXCEPT !.deleted = TRUE, !.closed = TRUE,
                                 !.cancel = None, !.running = FALSE]
    <3>1. sess \in 1 .. used /\ sess \in Obj /\ s \in Session
      BY <2>1, WorkShape
    <3>2. heap' = [heap EXCEPT ![sess] = left] /\ sess' = 0 /\ used' = used
      BY <1>3, <2>1, <3>1, WorkShape DEF Drop
    <3>3. left.deleted /\ left.turns = s.turns
      BY <3>1 DEF Session
    <3> HIDE DEF left
    <3>4. Moves(s, left)
      BY <3>2, <3>3 DEF Moves, Keeps, SameTurns
    <3> HIDE DEF s
    <3> QED
      BY <3>1, <3>2, <3>4, MovesOne DEF Placed, s
  <2>2. CASE sess = 0
    BY <1>3, <1>b, <2>2 DEF Drop
  <2> QED
    BY <2>1, <2>2
<1>4. CASE Lookup(r) \/ LoadRecord(r) \/ Unlink(r)
  BY <1>4, <1>b DEF Lookup, LoadRecord, Unlink
<1> QED
  BY <1>1, <1>2, <1>3, <1>4

LEMMA MovesMark ==
  ASSUME WorkInv, Mark
  PROVE  \A o \in 1 .. used : Moves(heap[o], heap'[o])
<1> DEFINE s == Mine(Reaper)
           busy == ~s.closed /\ s.status = "busy"
           turn == SetTurn(s, s.active, "interrupted")
           left == IF busy THEN Interrupt(s, s.active) ELSE s
           end == [left EXCEPT !.cancel = None, !.running = FALSE]
<1>1. TypeInv /\ Reaper \in Proc
  BY DEF WorkInv, Proc
<1>2. /\ g[Reaper].obj \in 1 .. used /\ s \in Session /\ s = heap[g[Reaper].obj]
      /\ rootDone
  BY <1>1, MineType DEF Mark, At, Holding, Label, Mine, TypeInv, GoroutinesInv
<1>3. heap' = [heap EXCEPT ![g[Reaper].obj] = end]
  BY DEF Mark
<1>4. CASE busy
  <2>1. Marks(s, turn, s.active, "interrupted") /\ turn = [s EXCEPT !.turns = turn.turns]
    BY <1>2, SetTurnMarks
  <2>2. /\ end.turns = turn.turns /\ end.closed = s.closed /\ end.deleted = s.deleted
    <3>1. left = [turn EXCEPT !.status = "interrupted"]
      BY <1>4 DEF Interrupt
    <3> HIDE DEF turn, left, s
    <3> QED
      BY <1>2, <2>1, <3>1 DEF Session
  <2> HIDE DEF turn, end, s
  <2>3. Marks(s, end, s.active, "interrupted") /\ "interrupted" \in Terminal
    BY <2>1, <2>2 DEF Marks, Terminal
  <2>4. Moves(s, end)
    BY <1>2, <2>2, <2>3 DEF Moves, Settles
  <2> QED
    BY <1>2, <1>3, <2>4, MovesOne
<1>5. CASE ~busy
  <2>1. /\ end.turns = s.turns /\ end.closed = s.closed /\ end.deleted = s.deleted
    BY <1>2, <1>5 DEF Session
  <2>2. s.closed \/ s.status # "busy"
    BY <1>5
  <2> HIDE DEF end, s
  <2>3. Moves(s, end)
    BY <2>1, <2>2 DEF Moves, Keeps, SameTurns
  <2> QED
    BY <1>2, <1>3, <2>3, MovesOne
<1> QED
  BY <1>4, <1>5

\* Every step but a restart.
LEMMA HeapStep ==
  ASSUME WorkInv, [Next]_vars, ~Restart
  PROVE  /\ Placed /\ \A o \in 1 .. used : Moves(heap[o], heap'[o])
         /\ restarts' = restarts
         /\ rootDone' = rootDone \/ (~rootDone /\ rootDone' /\ UNCHANGED <<sess, heap>>)
<1>1. ASSUME NEW r \in Proc, Call(r) \/ Serve(r) \/ Persist(r)
      PROVE  /\ Placed /\ \A o \in 1 .. used : Moves(heap[o], heap'[o])
             /\ UNCHANGED <<restarts, rootDone>>
  <2>1. CASE Open(r) \/ Lookup(r) \/ LoadRecord(r) \/ Adopt(r) \/ Drop(r) \/ Unlink(r)
    BY <2>1, MovesMap DEF Open, Lookup, LoadRecord, Adopt, Drop, Unlink
  <2>2. CASE Reconcile(r) \/ CheckRepository(r) \/ Pin(r) \/ Accept(r) \/ Retry(r)
    BY <2>2, MovesRequest DEF Placed, Reconcile, CheckRepository, Pin, Accept, Retry
  <2>3. CASE Announce(r) \/ PrepareRepository(r) \/ CodexEvent(r) \/ CodexExit(r) \/ Conclude(r)
    BY <2>3, MovesDrive DEF Placed, Announce, PrepareRepository, CodexEvent, CodexExit, Conclude
  <2>4. CASE FinishActive(r) \/ FinishSuperseded(r) \/ FinishLate(r)
    BY <2>4, MovesFinish DEF Placed, FinishActive, FinishSuperseded, FinishLate
  <2>5. CASE Persist(r)
    <3>1. UNCHANGED <<sess, used, heap, restarts, rootDone>>
      BY <2>5 DEF Persist, SnapshotRecord, OpenTemp, WriteTemp, VerifyNotDeleted, CommitTemp,
         SaveFails
    <3> QED
      BY <3>1, MovesSame DEF Placed
  <2> QED
    BY <1>1, <2>1, <2>2, <2>3, <2>4, <2>5 DEF Call, Serve
<1>2. CASE \E r \in Proc : Call(r) \/ Serve(r) \/ Persist(r)
  BY <1>1, <1>2
<1>3. CASE CancelRoot \/ Sweep \/ UNCHANGED vars
  BY <1>3, MovesSame DEF CancelRoot, Sweep, vars, Placed
<1>4. CASE Mark
  BY <1>4, MovesMark DEF Mark, Placed
<1> QED
  BY <1>2, <1>3, <1>4 DEF Next

-----------------------------------------------------------------------------
(* Outcomes *)

\* A turn that ended keeps its outcome until the repository of the session is
\* retried, whatever saves, deletions and late finishes do meanwhile.
THEOREM OutcomeStaysAlways == Spec => OutcomeStays
<1>1. WorkInv /\ [Next]_vars =>
        (restarts' = restarts /\ ~rootDone' =>
          \A o \in 1 .. used : \A i \in DOMAIN heap[o].turns :
            ~IsLive(heap[o].turns[i]) =>
              \/ heap'[o].turns[i].st = heap[o].turns[i].st
              \/ /\ heap'[o].turns[i].st = "running"
                 /\ heap[o].repo = "failed"
                 /\ \A j \in DOMAIN heap[o].turns : ~IsLive(heap[o].turns[j]))
  <2> SUFFICES ASSUME WorkInv, [Next]_vars, restarts' = restarts, ~rootDone',
                      NEW o \in 1 .. used, NEW i \in DOMAIN heap[o].turns,
                      ~IsLive(heap[o].turns[i])
               PROVE  \/ heap'[o].turns[i].st = heap[o].turns[i].st
                      \/ /\ heap'[o].turns[i].st = "running"
                         /\ heap[o].repo = "failed"
                         /\ \A j \in DOMAIN heap[o].turns : ~IsLive(heap[o].turns[j])
    OBVIOUS
  <2>1. restarts \in Nat
    BY BoundsAssumption DEF WorkInv, TypeInv, TypeOK
  <2>2. ~Restart
    BY <2>1 DEF Restart
  <2>3. ~rootDone /\ Moves(heap[o], heap'[o])
    BY <2>2, HeapStep
  <2>4. heap[o] \in Session
    BY WorkShape
  <2>5. CASE Keeps(heap[o], heap'[o])
    BY <2>5 DEF Keeps, SameTurns
  <2>6. CASE Begins(heap[o], heap'[o])
    <3>1. PICK t \in Turn : heap'[o].turns = Append(heap[o].turns, t)
      BY <2>6 DEF Begins
    <3>2. heap'[o].turns[i] = heap[o].turns[i]
      BY <2>4, <3>1 DEF Session
    <3> QED
      BY <3>2
  <2>7. CASE RunsAgain(heap[o], heap'[o])
    BY <2>3, <2>7, RestingSession DEF RunsAgain, Marks, CanRetry
  <2>8. CASE Settles(heap[o], heap'[o])
    BY <2>3, <2>8 DEF Settles, Marks
  <2> QED
    BY <2>3, <2>5, <2>6, <2>7, <2>8 DEF Moves
<1> QED
  BY <1>1, WorkAlways, PTL DEF Spec, OutcomeStays

-----------------------------------------------------------------------------
(* The ledger *)

\* Nothing but a deletion closes a session, so no record says it is closed.
OpenRecords ==
  /\ ~disk.rec.closed /\ ~tmp.rec.closed
  /\ \A r \in Proc : ~g[r].snap.closed

\* In a session that was not deleted, at most the active turn runs, also after
\* the process was told to stop.
SoundSession(s) ==
  ~s.deleted => /\ ~s.closed
                /\ \A i \in DOMAIN s.turns :
                     IsLive(s.turns[i]) => s.active = i /\ s.running /\ s.status = "busy"

LedgerInv ==
  /\ OpenRecords
  /\ \A o \in 1 .. used : SoundSession(heap[o])
  /\ sess # 0 => ~heap[sess].deleted

LEMMA LedgerInit == Init => LedgerInv
<1> SUFFICES ASSUME Init PROVE LedgerInv
  OBVIOUS
<1>1. used = 0 /\ sess = 0 /\ disk = Missing /\ tmp = Missing /\ \A r \in Proc : g[r] = Idle
  BY DEF Init
<1>2. \A o \in 1 .. used : FALSE
  BY <1>1
<1> QED
  BY <1>1, <1>2 DEF LedgerInv, OpenRecords, Missing, NoRecord, Idle

\* Soundness goes with the moves.
LEMMA SoundMoves ==
  ASSUME NEW s \in Session, NEW z \in Session, Moves(s, z), SoundSession(s)
  PROVE  SoundSession(z)
<1> SUFFICES ASSUME ~z.deleted
             PROVE  /\ ~z.closed
                    /\ \A i \in DOMAIN z.turns :
                         IsLive(z.turns[i]) => z.active = i /\ z.running /\ z.status = "busy"
  BY DEF SoundSession
<1>1. /\ ~s.deleted /\ ~s.closed
      /\ \A i \in DOMAIN s.turns :
           IsLive(s.turns[i]) => s.active = i /\ s.running /\ s.status = "busy"
  BY DEF SoundSession, Moves
<1>2. s.turns \in Seq(Turn) /\ Len(s.turns) \in Nat /\ s.active \in Nat
      /\ DOMAIN s.turns = 1 .. Len(s.turns)
  BY DEF Session
<1>3. CASE Keeps(s, z)
  BY <1>1, <1>3 DEF Keeps, SameTurns, SameFlags, IsLive
<1>4. CASE Begins(s, z)
  <2>1. PICK t \in Turn : z.turns = Append(s.turns, t)
    BY <1>4 DEF Begins
  <2>2. \A i \in DOMAIN z.turns : i = Len(s.turns) + 1 \/ (i \in DOMAIN s.turns /\ z.turns[i] = s.turns[i])
    BY <1>2, <2>1
  <2> QED
    BY <1>1, <1>4, <2>2 DEF Begins, Busy, RunsAt
<1>5. CASE RunsAgain(s, z)
  <2>1. PICK t \in RetryTurns(s) : Marks(s, z, t, "running") /\ RunsAt(z, t)
    BY <1>5 DEF RunsAgain
  <2> QED
    BY <1>1, <1>5, <2>1 DEF RunsAgain, Marks, RunsAt, Busy, IsLive
<1>6. CASE Settles(s, z)
  <2>1. PICK t : \E st \in Terminal :
          /\ Marks(s, z, t, st)
          /\ SameFlags(s, z) \/ t = s.active \/ ~s.running \/ s.active = 0
    BY <1>6 DEF Settles
  <2>2. \A i \in DOMAIN z.turns : IsLive(z.turns[i]) =>
          i # t /\ i \in DOMAIN s.turns /\ IsLive(s.turns[i]) /\ i # 0
    BY <1>2, <2>1 DEF Marks, Terminal, IsLive
  <2> QED
    BY <1>1, <1>6, <2>1, <2>2 DEF Settles, SameFlags
<1> QED
  BY <1>3, <1>4, <1>5, <1>6 DEF Moves

\* A session that was just created or read back.
LEMMA SoundNew ==
  ASSUME WorkInv, OpenRecords
  PROVE  /\ \A z : NewObject(z) => z \in Session /\ Fresh(z) /\ SoundSession(z) /\ ~z.deleted
         /\ \A rec \in Record : ~rec.closed =>
              LET z == Restored(rec)
              IN  z \in Session /\ Fresh(z) /\ SoundSession(z) /\ ~z.deleted
<1>1. \A rec \in Record : ~rec.closed =>
        LET z == Restored(rec)
        IN  z \in Session /\ Fresh(z) /\ SoundSession(z) /\ ~z.deleted
  <2> SUFFICES ASSUME NEW rec \in Record, ~rec.closed
               PROVE  LET z == Restored(rec)
                      IN  z \in Session /\ Fresh(z) /\ SoundSession(z) /\ ~z.deleted
    OBVIOUS
  <2>1. ~Restored(rec).closed /\ ~Restored(rec).deleted
    BY DEF Restored
  <2> QED
    BY <2>1, RestoredType, FreshObjects DEF Fresh, SoundSession
<1>2. NewSession \in Session /\ Fresh(NewSession) /\ SoundSession(NewSession)
      /\ ~NewSession.deleted
  BY InitialTypes, FreshObjects DEF NewSession, Fresh, SoundSession
<1>3. \A r \in Proc : g[r].snap \in Record /\ ~g[r].snap.closed
  BY WorkShape DEF OpenRecords, Goroutine
<1> QED
  BY <1>1, <1>2, <1>3 DEF NewObject

\* A step of one goroutine leaves the others what they do and what they read.
\* Only a rename or an unlink redirects their descriptors.
LEMMA OthersGoOn ==
  ASSUME TypeInv, NEW r \in Proc, Call(r) \/ Serve(r) \/ Persist(r)
  PROVE  \A q \in Proc \ {r} :
           /\ SameWork(q) /\ g'[q].snap = g[q].snap
           /\ g[r].pc \notin Saving \cup {"unlink"} => g'[q].fd = g[q].fd
<1>0. g \in [Proc -> Goroutine] /\ heap \in [Obj -> Session]
  BY DEF TypeInv, TypeOK
<1> SUFFICES ASSUME NEW q \in Proc, q # r
             PROVE  /\ SameWork(q) /\ g'[q].snap = g[q].snap
                    /\ g[r].pc \notin Saving \cup {"unlink"} => g'[q].fd = g[q].fd
  OBVIOUS
<1>a. CASE g'[q] = g[q]
  BY <1>a DEF SameWork
<1>b. ASSUME NEW where, NEW gr, g' = [Moved(g, where) EXCEPT ![r] = gr],
             g[r].pc \in Saving \cup {"unlink"}
      PROVE  SameWork(q) /\ g'[q].snap = g[q].snap
  <2>1. PICK f : f = where[g[q].fd]
    OBVIOUS
  <2>2. g'[q] = [g[q] EXCEPT !.fd = f] /\ g[q] \in Goroutine
    BY <1>0, <1>b, <2>1 DEF Moved
  <2> QED
    BY <2>2 DEF SameWork, Goroutine
<1>c. ASSUME NEW gr, NEW c \in Proc \cup {None}, g' = [Cancelled(g, c) EXCEPT ![r] = gr]
      PROVE  SameWork(q) /\ g'[q].snap = g[q].snap /\ g'[q].fd = g[q].fd
  <2>1. g'[q] = Cancelled(g, c)[q]
    BY <1>0, <1>c DEF Cancelled
  <2>2. Cancelled(g, c)[q] \in {g[q], [g[q] EXCEPT !.cancelled = TRUE]}
    BY <1>0 DEF Cancelled
  <2>3. g[q] \in Goroutine
    BY <1>0
  <2> QED
    BY <2>1, <2>2, <2>3 DEF SameWork, Goroutine
<1>1. CASE Call(r) \/ LoadRecord(r) \/ Adopt(r) \/ Announce(r) \/ CodexExit(r) \/ Conclude(r)
           \/ CheckRepository(r)
  <2>1. g'[q] = g[q]
    BY <1>0, <1>1 DEF Call, Open, Lookup, LoadRecord, Adopt, Announce, CodexExit, Conclude,
       CheckRepository, Goto, Return
  <2> QED
    BY <1>a, <2>1
<1>2. CASE Reconcile(r) \/ Pin(r) \/ Accept(r) \/ Retry(r) \/ PrepareRepository(r)
           \/ CodexEvent(r) \/ FinishSuperseded(r) \/ FinishLate(r)
  <2>1. \A s, gr, next : Save(r, s, gr, next) => g'[q] = g[q]
    BY <1>0 DEF Save
  <2>2. Return(r) => g'[q] = g[q]
    BY <1>0 DEF Return
  <2>3. \A label : Goto(r, label) => g'[q] = g[q]
    BY <1>0 DEF Goto
  <2>4. g'[q] = g[q]
    BY <1>2, <2>1, <2>2, <2>3 DEF Reconcile, Pin, Accept, Retry, PrepareRepository, CodexEvent,
       FinishSuperseded, FinishLate
  <2> QED
    BY <1>a, <2>4
<1>3. CASE Drop(r)
  <2>1. CASE sess = 0
    <3>1. g'[q] = g[q]
      BY <1>0, <1>3, <2>1 DEF Drop, Return
    <3> QED
      BY <1>a, <3>1
  <2>2. CASE sess # 0
    <3>1. heap[sess].cancel \in Proc \cup {None}
      <4>1. sess \in Obj
        BY <2>2, BoundsAssumption DEF TypeInv, TypeOK, Obj
      <4> QED
        BY <1>0, <4>1 DEF Session
    <3>2. /\ Cancelled(g, heap[sess].cancel) \in [Proc -> Goroutine]
          /\ g' = [Cancelled(g, heap[sess].cancel) EXCEPT ![r].pc = "unlink"]
      BY <1>3, <2>2, <3>1, CancelledType DEF Drop
    <3> DEFINE gr == [Cancelled(g, heap[sess].cancel)[r] EXCEPT !.pc = "unlink"]
    <3>3. g' = [Cancelled(g, heap[sess].cancel) EXCEPT ![r] = gr]
      BY <3>2
    <3> QED
      BY <1>c, <3>1, <3>3
  <2> QED
    BY <2>1, <2>2
<1>4. CASE Unlink(r)
  BY <1>4, <1>b DEF Unlink, At
<1>5. CASE FinishActive(r)
  <2>1. Mine(r) \in Session
    BY <1>5, MineType DEF FinishActive, At, Holding, Label
  <2>2. Mine(r).cancel \in Proc \cup {None}
    BY <2>1 DEF Session
  <2> QED
    BY <1>5, <1>c, <2>2 DEF FinishActive
<1>6. CASE Persist(r)
  <2>1. CASE g' = [Moved(g, Unlinked("tmp")) EXCEPT ![r] = Resumed(r)] /\ g[r].pc \in Saving
    BY <1>b, <2>1
  <2>2. CASE g' = [Moved(g, Renamed) EXCEPT ![r] = Resumed(r)] /\ g[r].pc \in Saving
    BY <1>b, <2>2
  <2>3. \/ g'[q] = g[q]
        \/ /\ g[r].pc \in Saving
           /\ \/ g' = [Moved(g, Unlinked("tmp")) EXCEPT ![r] = Resumed(r)]
              \/ g' = [Moved(g, Renamed) EXCEPT ![r] = Resumed(r)]
    BY <1>0, <1>6 DEF Persist, SnapshotRecord, OpenTemp, WriteTemp, VerifyNotDeleted, CommitTemp,
       SaveFails, At, Saving, Goto
  <2> QED
    BY <1>a, <2>1, <2>2, <2>3
<1> QED
  BY <1>1, <1>2, <1>3, <1>4, <1>5, <1>6 DEF Serve

\* What a goroutine reads or is about to write: the state file, or the session
\* it saves.
LEMMA OwnRecord ==
  ASSUME TypeInv, NEW r \in Proc, Call(r) \/ Serve(r) \/ Persist(r)
  PROVE  \/ g'[r].snap \in {g[r].snap, NoRecord, disk.rec}
         \/ /\ g[r].pc = "snapshot" /\ ~Mine(r).deleted
            /\ g'[r].snap = Persisted(Mine(r))
<1>0. g \in [Proc -> Goroutine] /\ g[r] \in Goroutine /\ heap \in [Obj -> Session]
  BY DEF TypeInv, TypeOK
<1>a. Idle.snap = NoRecord
  BY DEF Idle
<1>b. ASSUME NEW s, NEW gr, gr \in Goroutine, gr.snap = g[r].snap, NEW next, Save(r, s, gr, next)
      PROVE  g'[r].snap = g[r].snap
  <2>1. g'[r] = [gr EXCEPT !.pc = "snapshot", !.next = next]
    BY <1>0, <1>b DEF Save
  <2> QED
    BY <1>b, <2>1 DEF Goroutine
<1>c. Return(r) => g'[r].snap = NoRecord
  BY <1>0, <1>a DEF Return
<1>d. \A label : Goto(r, label) => g'[r].snap = g[r].snap
  BY <1>0 DEF Goto, Goroutine
<1>e. \A s \in Session : /\ Reported(r, s) \in Goroutine /\ Reported(r, s).snap = g[r].snap
  <2> SUFFICES ASSUME NEW s \in Session
               PROVE  Reported(r, s) \in Goroutine /\ Reported(r, s).snap = g[r].snap
    OBVIOUS
  <2>1. (IF s.closed THEN "completed" ELSE Outcome(r)) \in Terminal
    BY DEF Outcome, Terminal
  <2> QED
    BY <1>0, <2>1 DEF Reported, Goroutine
<1>1. CASE Call(r) \/ LoadRecord(r) \/ Adopt(r) \/ CodexExit(r) \/ CheckRepository(r)
  <2>1. CASE Open(r)
    BY <1>0, <2>1 DEF Open, Goroutine
  <2>2. CASE Lookup(r)
    <3>1. PICK o \in Ops \ {"open", "stop", "fault"} :
            LET inMap == sess # 0 /\ o # "list"
            IN  g' = [g EXCEPT ![r].op = o,
                               ![r].pc = IF inMap THEN Entry(o) ELSE "load",
                               ![r].obj = IF inMap THEN sess ELSE 0,
                               ![r].prompt = IF o \in TurnOps THEN sent + 1 ELSE 0]
      BY <2>2 DEF Lookup
    <3> QED
      BY <1>0, <3>1 DEF Goroutine
  <2>3. CASE LoadRecord(r)
    BY <1>0, <1>c, <2>3 DEF LoadRecord, Goroutine
  <2>4. CASE Adopt(r)
    BY <1>0, <2>4 DEF Adopt, Goroutine
  <2>5. CASE CodexExit(r)
    BY <1>0, <2>5 DEF CodexExit, Goroutine
  <2>6. CASE CheckRepository(r)
    BY <1>0, <1>c, <2>6 DEF CheckRepository, Goroutine
  <2> QED
    BY <1>1, <2>1, <2>2, <2>3, <2>4, <2>5, <2>6 DEF Call
<1>2. CASE Announce(r) \/ Conclude(r)
  BY <1>2, <1>c, <1>d DEF Announce, Conclude
<1>3. CASE Reconcile(r) \/ Pin(r) \/ CodexEvent(r)
  <2>1. \A s, next : Save(r, s, g[r], next) => g'[r].snap = g[r].snap
    BY <1>0, <1>b
  <2> QED
    BY <1>3, <1>c, <1>d, <2>1 DEF Reconcile, Pin, CodexEvent
<1>4. CASE PrepareRepository(r)
  <2>1. [g[r] EXCEPT !.res = "error"] \in Goroutine
        /\ [g[r] EXCEPT !.res = "error"].snap = g[r].snap
    BY <1>0 DEF Goroutine
  <2> QED
    BY <1>0, <1>4, <1>b, <1>d, <2>1 DEF PrepareRepository
<1>5. CASE Accept(r)
  <2> DEFINE t == Len(Mine(r).turns) + 1
             gr == [g[r] EXCEPT !.turn = t, !.bind = FALSE]
  <2>1. Return(r) \/ \E s : Save(r, s, gr, "announce")
    BY <1>5 DEF Accept
  <2>2. Mine(r) \in Session
    BY <1>5, MineType DEF Accept, At, Holding, Label
  <2>3. t \in Nat
    BY <2>2 DEF Session
  <2>4. gr \in Goroutine /\ gr.snap = g[r].snap
    BY <1>0, <2>3 DEF Goroutine
  <2> HIDE DEF gr
  <2> QED
    BY <1>b, <1>c, <2>1, <2>4
<1>6. CASE Retry(r)
  <2>1. CASE Return(r)
    BY <1>c, <2>1
  <2>2. CASE ~Return(r)
    <3>1. PICK t \in RetryTurns(Mine(r)) : \E s :
            Save(r, s, [g[r] EXCEPT !.turn = t, !.prompt = Mine(r).turns[t].prompt], "announce")
      BY <1>6, <2>2 DEF Retry
    <3> DEFINE gr == [g[r] EXCEPT !.turn = t, !.prompt = Mine(r).turns[t].prompt]
    <3>2. gr \in Goroutine /\ gr.snap = g[r].snap
      <4>1. Mine(r) \in Session
        BY <1>6, MineType DEF Retry, At, Holding, Label
      <4>2. t \in 1 .. Len(Mine(r).turns) /\ Mine(r).turns \in Seq(Turn)
        BY <4>1 DEF Session, RetryTurns
      <4>3. Mine(r).turns[t] \in Turn /\ t \in Nat
        BY <4>2
      <4>4. Mine(r).turns[t].prompt \in 0 .. MaxPrompts
        BY <4>3, BoundsAssumption DEF Turn, Prompt
      <4> QED
        BY <1>0, <4>3, <4>4 DEF Goroutine
    <3> HIDE DEF gr
    <3> QED
      BY <1>b, <3>1, <3>2 DEF gr
  <2> QED
    BY <2>1, <2>2
<1>7. CASE FinishSuperseded(r)
  <2> DEFINE gr == [g[r] EXCEPT !.res = Outcome(r)]
  <2>1. Outcome(r) \in Terminal
    BY DEF Outcome, Terminal
  <2>2. gr \in Goroutine /\ gr.snap = g[r].snap
    BY <1>0, <2>1 DEF Goroutine
  <2>3. \E s : Save(r, s, gr, "conclude")
    BY <1>7 DEF FinishSuperseded
  <2> HIDE DEF gr
  <2> QED
    BY <1>b, <2>2, <2>3
<1>8. CASE FinishLate(r) \/ FinishActive(r)
  <2>1. Mine(r) \in Session
    BY <1>8, MineType DEF FinishActive, FinishLate, At, Holding, Label
  <2>2. Reported(r, Mine(r)) \in Goroutine /\ Reported(r, Mine(r)).snap = g[r].snap
    BY <1>e, <2>1
  <2>3. CASE FinishLate(r)
    BY <1>b, <2>2, <2>3 DEF FinishLate
  <2>4. CASE FinishActive(r)
    <3> DEFINE gr == [Reported(r, Mine(r)) EXCEPT !.pc = "snapshot", !.next = "conclude"]
    <3>1. gr.snap = g[r].snap
      BY <2>2 DEF Goroutine
    <3>2. g' = [Cancelled(g, Mine(r).cancel) EXCEPT ![r] = gr]
      BY <2>4 DEF FinishActive
    <3> HIDE DEF gr
    <3>3. g'[r] = gr
      BY <1>0, <3>2 DEF Cancelled
    <3> QED
      BY <3>1, <3>3
  <2> QED
    BY <1>8, <2>3, <2>4
<1>9. CASE Drop(r)
  <2>1. CASE sess = 0
    BY <1>9, <1>c, <2>1 DEF Drop
  <2>2. CASE sess # 0
    <3> DEFINE c == heap[sess].cancel
    <3>1. Cancelled(g, c)[r] \in {g[r], [g[r] EXCEPT !.cancelled = TRUE]}
          /\ Cancelled(g, c) \in [Proc -> Goroutine]
      <4>1. sess \in Obj
        BY <2>2, BoundsAssumption DEF TypeInv, TypeOK, Obj
      <4>2. c \in Proc \cup {None}
        BY <1>0, <4>1 DEF Session
      <4> QED
        BY <1>0, <4>2, CancelledType DEF Cancelled
    <3>2. g' = [Cancelled(g, c) EXCEPT ![r].pc = "unlink"]
      BY <1>9, <2>2 DEF Drop
    <3> HIDE DEF c
    <3>3. g'[r] = [Cancelled(g, c)[r] EXCEPT !.pc = "unlink"]
      BY <3>1, <3>2
    <3> QED
      BY <1>0, <3>1, <3>3 DEF Goroutine
  <2> QED
    BY <2>1, <2>2
<1>10. CASE Unlink(r)
  BY <1>0, <1>10, <1>a DEF Unlink, Moved
<1>11. CASE Persist(r)
  <2>1. Resumed(r).snap = NoRecord
    BY <1>0, <1>a DEF Resumed, Goroutine
  <2>2. CASE SnapshotRecord(r)
    BY <1>0, <2>1, <2>2 DEF SnapshotRecord, At, Goroutine
  <2>3. CASE OpenTemp(r) \/ WriteTemp(r)
    BY <1>0, <2>3 DEF OpenTemp, WriteTemp, Goroutine
  <2>4. CASE VerifyNotDeleted(r) \/ CommitTemp(r) \/ SaveFails(r)
    BY <1>0, <1>d, <2>1, <2>4 DEF VerifyNotDeleted, CommitTemp, SaveFails, Moved
  <2> QED
    BY <1>11, <2>2, <2>3, <2>4 DEF Persist
<1> QED
  BY <1>1, <1>2, <1>3, <1>4, <1>5, <1>6, <1>7, <1>8, <1>9, <1>10, <1>11 DEF Serve

\* A save writes its own record, moves what was written, or clears it.
LEMMA FilesStep ==
  ASSUME TypeInv, NEW r \in Proc, Call(r) \/ Serve(r) \/ Persist(r)
  PROVE  /\ disk' \in {disk, tmp, Missing, Torn, Full(g[r].snap)}
         /\ tmp' \in {tmp, Missing, Empty, Torn, Full(g[r].snap)}
         /\ g[r].pc \notin Saving \cup {"unlink"} => UNCHANGED <<disk, tmp>>
<1>1. CASE Call(r) \/ Reconcile(r) \/ CheckRepository(r) \/ Accept(r) \/ Retry(r) \/ Pin(r)
  BY <1>1 DEF Call, Open, Lookup, Reconcile, CheckRepository, Accept, Retry, Pin
<1>2. CASE LoadRecord(r) \/ Adopt(r) \/ Drop(r) \/ Unlink(r)
  BY <1>2 DEF LoadRecord, Adopt, Drop, Unlink, At
<1>3. CASE Announce(r) \/ PrepareRepository(r) \/ CodexEvent(r) \/ CodexExit(r) \/ Conclude(r)
           \/ FinishActive(r) \/ FinishSuperseded(r) \/ FinishLate(r)
  BY <1>3 DEF Announce, PrepareRepository, CodexEvent, CodexExit, Conclude, FinishActive,
     FinishSuperseded, FinishLate
<1>4. CASE Persist(r)
  BY <1>4 DEF Persist, SnapshotRecord, OpenTemp, WriteTemp, VerifyNotDeleted, CommitTemp,
     SaveFails, At, Saving, Written
<1> QED
  BY <1>1, <1>2, <1>3, <1>4 DEF Serve

LEMMA RecordsStep ==
  ASSUME WorkInv, LedgerInv, [Next]_vars
  PROVE  OpenRecords'
<1>a. TypeInv /\ g \in [Proc -> Goroutine] /\ Reaper \in Proc
  BY WorkShape DEF WorkInv, Proc
<1>b. ~Missing.rec.closed /\ ~Empty.rec.closed /\ ~Torn.rec.closed /\ ~NoRecord.closed
      /\ ~Idle.snap.closed
  BY DEF Missing, Empty, Torn, NoRecord, Idle
<1>c. /\ ~disk.rec.closed /\ ~tmp.rec.closed /\ \A r \in Proc : ~g[r].snap.closed
  BY DEF LedgerInv, OpenRecords
<1>1. ASSUME NEW r \in Proc, Call(r) \/ Serve(r) \/ Persist(r)
      PROVE  OpenRecords'
  <2>1. Full(g[r].snap).rec = g[r].snap
    BY DEF Full
  <2>2. ~disk'.rec.closed /\ ~tmp'.rec.closed
    BY <1>a, <1>b, <1>c, <1>1, <2>1, FilesStep
  <2>3. \A q \in Proc \ {r} : ~g'[q].snap.closed
    BY <1>a, <1>c, <1>1, OthersGoOn
  <2>4. ASSUME g[r].pc = "snapshot", ~Mine(r).deleted PROVE ~Persisted(Mine(r)).closed
    <3>1. g[r].obj \in 1 .. used /\ Mine(r) = heap[g[r].obj]
      BY <1>a, <2>4, MineType DEF Holding, Label, Mine
    <3>2. ~Mine(r).closed
      BY <2>4, <3>1 DEF LedgerInv, SoundSession
    <3> QED
      BY <3>2 DEF Persisted
  <2>5. ~g'[r].snap.closed
    BY <1>a, <1>b, <1>c, <1>1, <2>4, OwnRecord
  <2> QED
    BY <2>2, <2>3, <2>5 DEF OpenRecords
<1>2. CASE CancelRoot
  <2> DEFINE gr == [Idle EXCEPT !.pc = "sweep"]
  <2>1. g' = [g EXCEPT ![Reaper] = gr] /\ gr.snap = NoRecord /\ UNCHANGED <<disk, tmp>>
    BY <1>2 DEF CancelRoot, Idle
  <2> HIDE DEF gr
  <2> QED
    BY <1>a, <1>b, <1>c, <2>1 DEF OpenRecords
<1>3. CASE Sweep
  <2>1. UNCHANGED <<disk, tmp>> /\ \A q \in Proc : g'[q].snap \in {g[q].snap, Idle.snap}
    BY <1>3, <1>a DEF Sweep, Return, Goroutine
  <2> QED
    BY <1>b, <1>c, <2>1 DEF OpenRecords
<1>4. CASE Mark
  <2> DEFINE c == Mine(Reaper).cancel
  <2>1. c \in Proc \cup {None}
    <3>1. Mine(Reaper) \in Session
      BY <1>4, <1>a, MineType DEF Mark, At, Holding, Label
    <3> QED
      BY <3>1 DEF Session
  <2>2. g' = [Cancelled(g, c) EXCEPT ![Reaper].pc = "snapshot"] /\ UNCHANGED <<disk, tmp>>
    BY <1>4 DEF Mark
  <2> HIDE DEF c
  <2>3. /\ Cancelled(g, c) \in [Proc -> Goroutine]
        /\ \A q \in Proc : Cancelled(g, c)[q] \in {g[q], [g[q] EXCEPT !.cancelled = TRUE]}
    BY <1>a, <2>1, CancelledType DEF Cancelled
  <2>4. \A q \in Proc : Cancelled(g, c)[q].snap = g[q].snap
    BY <1>a, <2>3 DEF Goroutine
  <2>5. \A q \in Proc : g'[q].snap = Cancelled(g, c)[q].snap
    BY <1>a, <2>2, <2>3 DEF Goroutine
  <2> QED
    BY <1>c, <2>2, <2>4, <2>5 DEF OpenRecords
<1>5. CASE Restart
  BY <1>5, <1>b, <1>c DEF Restart, OpenRecords
<1>6. CASE UNCHANGED vars
  BY <1>6, <1>c DEF vars, OpenRecords
<1>7. CASE \E r \in Proc : Call(r) \/ Serve(r) \/ Persist(r)
  BY <1>1, <1>7
<1> QED
  BY <1>2, <1>3, <1>4, <1>5, <1>6, <1>7 DEF Next

LEMMA LedgerStep == WorkInv /\ LedgerInv /\ [Next]_vars => LedgerInv'
<1> SUFFICES ASSUME WorkInv, LedgerInv, [Next]_vars PROVE LedgerInv'
  OBVIOUS
<1>1. OpenRecords' /\ OpenRecords
  BY RecordsStep DEF LedgerInv
<1>2. WorkInv' /\ heap' \in [Obj -> Session] /\ 1 .. used' \subseteq Obj
  BY WorkStep, BoundsAssumption DEF WorkInv, TypeInv, TypeOK, Obj
<1>3. CASE Restart
  <2>1. /\ sess' = used' /\ used' \in {0, 1}
        /\ used' = 1 => heap'[1] = Restored(disk.rec)
    <3>1. MaxObj > 0 /\ 1 \in Obj
      BY <1>3, BoundsAssumption DEF Restart, Obj
    <3> QED
      BY <1>3, <3>1 DEF Restart
  <2>2. disk.rec \in Record /\ ~disk.rec.closed
    BY <1>1 DEF WorkInv, TypeInv, TypeOK, File, OpenRecords
  <2> QED
    BY <1>1, <2>1, <2>2, SoundNew DEF LedgerInv
<1>4. CASE ~Restart
  <2>1. Placed /\ \A o \in 1 .. used : Moves(heap[o], heap'[o])
    BY <1>4, HeapStep
  <2>2. \A o \in 1 .. used : SoundSession(heap'[o])
    <3> SUFFICES ASSUME NEW o \in 1 .. used PROVE SoundSession(heap'[o])
      OBVIOUS
    <3>1. heap[o] \in Session /\ heap'[o] \in Session
      BY <1>2, WorkShape
    <3> QED
      BY <2>1, <3>1, SoundMoves DEF LedgerInv
  <2>3. CASE sess' \in {sess, 0} /\ used' = used
    <3>1. ASSUME sess' # 0 PROVE ~heap'[sess'].deleted
      <4>1. sess' = sess /\ sess \in 1 .. used
        BY <2>3, <3>1, WorkShape
      <4> QED
        BY <2>1, <3>1, <4>1 DEF Moves, LedgerInv
    <3> QED
      BY <1>1, <2>2, <2>3, <3>1 DEF LedgerInv
  <2>4. CASE sess' = used + 1 /\ used' = used + 1 /\ NewObject(heap'[used + 1])
    <3>1. SoundSession(heap'[used + 1]) /\ ~heap'[used + 1].deleted
      BY <1>1, <2>4, SoundNew
    <3>2. \A o \in 1 .. used' : o \in 1 .. used \/ o = used + 1
      BY <2>4, WorkShape
    <3> QED
      BY <1>1, <2>2, <2>4, <3>1, <3>2 DEF LedgerInv
  <2> QED
    BY <2>1, <2>3, <2>4 DEF Placed
<1> QED
  BY <1>3, <1>4

LEMMA LedgerAlways == Spec => [](WorkInv /\ LedgerInv)
<1>1. Init => WorkInv /\ LedgerInv
  BY TypeInit, WorkInit, LedgerInit DEF WorkInv
<1>2. WorkInv /\ LedgerInv /\ [Next]_vars => (WorkInv /\ LedgerInv)'
  BY WorkStep, LedgerStep
<1> QED
  BY <1>1, <1>2, PTL DEF Spec

\* The turns of a session as the ledger shows them.
Shown(s) == [i \in DOMAIN s.turns |-> [prompt |-> s.turns[i].prompt, st |-> s.turns[i].st]]
Book     == IF sess = 0 THEN <<>> ELSE Shown(heap[sess])

LEMMA ShownMarks ==
  ASSUME NEW s \in Session, NEW z \in Session, NEW t \in DOMAIN s.turns, NEW st,
         Marks(s, z, t, st)
  PROVE  Shown(z) = [Shown(s) EXCEPT ![t].st = st]
<1>1. DOMAIN Shown(z) = DOMAIN s.turns /\ DOMAIN Shown(s) = DOMAIN s.turns
  BY DEF Marks, Shown
<1>2. ASSUME NEW i \in DOMAIN s.turns PROVE Shown(z)[i] = [Shown(s) EXCEPT ![t].st = st][i]
  <2>1. Shown(z)[i] = [prompt |-> z.turns[i].prompt, st |-> z.turns[i].st]
    BY DEF Marks, Shown
  <2>2. Shown(s)[i] = [prompt |-> s.turns[i].prompt, st |-> s.turns[i].st]
    BY DEF Shown
  <2>3. CASE i = t
    <3>1. [Shown(s) EXCEPT ![t].st = st][i] = [prompt |-> s.turns[i].prompt, st |-> st]
      BY <1>1, <2>2, <2>3
    <3> QED
      BY <2>1, <2>3, <3>1 DEF Marks
  <2>4. CASE i # t
    <3>1. [Shown(s) EXCEPT ![t].st = st][i] = Shown(s)[i]
      BY <1>1, <2>4
    <3> QED
      BY <2>1, <2>2, <2>4, <3>1 DEF Marks
  <2> QED
    BY <2>3, <2>4
<1> QED
  BY <1>1, <1>2 DEF Shown

LEMMA ShownSame ==
  ASSUME NEW s, NEW z, SameTurns(s, z)
  PROVE  Shown(z) = Shown(s)
BY DEF SameTurns, Shown

LEMMA ShownMore ==
  ASSUME NEW s \in Session, NEW z \in Session, NEW t \in Turn,
         z.turns = Append(s.turns, t)
  PROVE  Shown(z) = Append(Shown(s), [prompt |-> t.prompt, st |-> t.st])
<1> DEFINE n == Len(s.turns)
           new == [prompt |-> t.prompt, st |-> t.st]
           Line == [prompt : Prompt, st : TurnStatus]
<1>1. s.turns \in [1 .. n -> Turn] /\ n \in Nat
  BY DEF Session
<1>2. /\ DOMAIN z.turns = 1 .. n + 1 /\ z.turns[n + 1] = t
      /\ \A i \in 1 .. n : z.turns[i] = s.turns[i]
  BY <1>1
<1>3. Shown(s) \in [1 .. n -> Line]
  BY <1>1 DEF Shown, Turn
<1>4. Shown(s) \in Seq(Line) /\ new \in Line /\ Len(Shown(s)) = n
  <2>1. new \in Line
    BY DEF Turn
  <2> HIDE DEF n, Line, new
  <2>2. Shown(s) \in Seq(Line)
    BY <1>1, <1>3, FunctionIsSeq
  <2> QED
    BY <1>1, <1>3, <2>1, <2>2
<1>5. DOMAIN Append(Shown(s), new) = 1 .. n + 1
  BY <1>1, <1>4
<1>6. Append(Shown(s), new)[n + 1] = new
      /\ \A i \in 1 .. n : Append(Shown(s), new)[i] = Shown(s)[i]
  BY <1>1, <1>4
<1>7. \A i \in 1 .. n + 1 : Shown(z)[i] = Append(Shown(s), new)[i]
  BY <1>1, <1>2, <1>6 DEF Shown
<1>8. Append(Shown(s), new) \in Seq(Line) /\ Len(Append(Shown(s), new)) = n + 1
  <2> HIDE DEF n, Line, new
  <2> QED
    BY <1>1, <1>4
<1>9. Append(Shown(s), new) \in [1 .. n + 1 -> Line]
  <2> DEFINE longer == Append(Shown(s), new)
  <2> HIDE DEF n, Line, longer
  <2>1. longer \in Seq(Line) /\ Len(longer) = n + 1
    BY <1>8 DEF longer
  <2>2. longer \in [1 .. Len(longer) -> Line]
    BY <2>1
  <2> QED
    BY <2>1, <2>2 DEF longer
<1> HIDE DEF new
<1> QED
  BY <1>1, <1>2, <1>7, <1>9 DEF Shown

\* A step that moves the turns of the session is a step of the ledger.
LEMMA BookStep ==
  ASSUME WorkInv, LedgerInv, sess # 0, NEW z \in Session, Moves(heap[sess], z),
         sess' = sess, heap'[sess] = z, restarts' = restarts, rootDone' = rootDone
  PROVE  [Ledger!Next]_Ledger!ledger
<1> DEFINE s == heap[sess]
<1>1. s \in Session /\ ~s.deleted /\ SoundSession(s) /\ sess \in 1 .. used
  BY WorkShape DEF LedgerInv
<1>2. s.turns \in [1 .. Len(s.turns) -> Turn] /\ DOMAIN s.turns \subseteq Nat
  BY <1>1 DEF Session
<1>3. Book = Shown(s) /\ Book' = Shown(z) /\ DOMAIN Shown(s) = DOMAIN s.turns
      /\ \A i \in DOMAIN s.turns : Shown(s)[i].st = s.turns[i].st
  BY DEF Book, Shown
<1>a. ASSUME Book' = Book PROVE UNCHANGED Ledger!ledger
  BY <1>a DEF Ledger!ledger, Book, Shown
<1>b. ASSUME \A i \in DOMAIN Book : Book[i].st # "running", NEW n \in Prompt,
             Book' = Append(Book, [prompt |-> n, st |-> "running"])
      PROVE  Ledger!Begin
  BY <1>b DEF Ledger!Begin, Ledger!NoneRunning, Ledger!Running, Book, Shown
<1>c. ASSUME \A i \in DOMAIN Book : Book[i].st # "running", NEW i \in DOMAIN Book,
             Book[i].st # "completed", \A j \in DOMAIN Book : j > i => Book[j].st = "completed",
             Book' = [Book EXCEPT ![i].st = "running"]
      PROVE  Ledger!Rerun
  BY <1>c DEF Ledger!Rerun, Ledger!NoneRunning, Ledger!Running, Ledger!Becomes, Book, Shown
<1>d. ASSUME NEW i \in DOMAIN Book, NEW st \in Terminal, Book' = [Book EXCEPT ![i].st = st],
             Book[i].st = "running" \/ rootDone
      PROVE  Ledger!Settle \/ Ledger!Revise
  BY <1>d DEF Ledger!Settle, Ledger!Revise, Ledger!Running, Ledger!Becomes, Ledger!Outcome,
     Terminal, Book, Shown
<1>e. ~Busy(s) => \A i \in DOMAIN s.turns : ~IsLive(s.turns[i])
  BY <1>1 DEF SoundSession, Busy
<1>4. CASE Keeps(s, z)
  BY <1>3, <1>4, <1>a, ShownSame DEF Keeps
<1>5. CASE Begins(s, z)
  <2>1. PICK t \in Turn : t.st = "running" /\ z.turns = Append(s.turns, t)
    BY <1>5 DEF Begins
  <2>2. Shown(z) = Append(Shown(s), [prompt |-> t.prompt, st |-> "running"])
    BY <1>1, <2>1, ShownMore
  <2>3. t.prompt \in Prompt
    BY DEF Turn
  <2>4. \A i \in DOMAIN Book : Book[i].st # "running"
    BY <1>3, <1>5, <1>e DEF Begins, IsLive
  <2>5. Ledger!Begin
    BY <1>3, <1>b, <2>2, <2>3, <2>4
  <2> QED
    BY <2>5 DEF Ledger!Next
<1>6. CASE RunsAgain(s, z)
  <2>1. PICK t \in RetryTurns(s) : Marks(s, z, t, "running")
    BY <1>6 DEF RunsAgain
  <2>2. /\ t \in DOMAIN s.turns /\ s.turns[t].st \in {"failed", "interrupted"}
        /\ \A j \in DOMAIN s.turns : s.turns[j].st \in {"failed", "interrupted"} => j <= t
    BY DEF RetryTurns
  <2>3. \A i \in DOMAIN Book : Book[i].st # "running"
    BY <1>3, <1>6, <1>e DEF RunsAgain, IsLive
  <2>4. \A j \in DOMAIN Book : j > t => Book[j].st = "completed"
    <3>1. \A j \in DOMAIN s.turns : s.turns[j].st \in TurnStatus
      BY <1>2 DEF Turn
    <3> QED
      BY <1>2, <1>3, <2>2, <2>3, <3>1 DEF TurnStatus, Terminal
  <2>5. Book' = [Book EXCEPT ![t].st = "running"]
    BY <1>1, <1>3, <2>1, <2>2, ShownMarks
  <2>6. Ledger!Rerun
    BY <1>3, <1>c, <2>2, <2>3, <2>4, <2>5
  <2> QED
    BY <2>6 DEF Ledger!Next
<1>7. CASE Settles(s, z)
  <2>1. PICK t : \E st \in Terminal :
          Marks(s, z, t, st) /\ (~rootDone => t \in DOMAIN s.turns /\ IsLive(s.turns[t]))
    BY <1>7 DEF Settles
  <2>2. PICK st \in Terminal : Marks(s, z, t, st)
    BY <2>1
  <2>3. CASE t \in DOMAIN s.turns
    <3>1. Book' = [Book EXCEPT ![t].st = st]
      BY <1>1, <1>3, <2>2, <2>3, ShownMarks
    <3>2. Book[t].st = "running" \/ rootDone
      BY <1>3, <2>1, <2>3 DEF IsLive
    <3>3. Ledger!Settle \/ Ledger!Revise
      BY <1>3, <1>d, <2>3, <3>1, <3>2
    <3> QED
      BY <3>3 DEF Ledger!Next
  <2>4. CASE t \notin DOMAIN s.turns
    <3>1. SameTurns(s, z)
      BY <2>2, <2>4 DEF Marks, SameTurns
    <3> QED
      BY <1>3, <1>a, <3>1, ShownSame
  <2> QED
    BY <2>3, <2>4
<1> QED
  BY <1>4, <1>5, <1>6, <1>7 DEF Moves

\* What another object or another process shows is not running.
LEMMA BookReloads ==
  ASSUME restarts' # restarts \/ sess' # sess, rootDone' \in {rootDone, FALSE},
         sess' # 0 => heap'[sess'] \in Session /\ Fresh(heap'[sess'])
  PROVE  Ledger!Reload
<1>1. <<restarts, sess>>' # <<restarts, sess>>
  OBVIOUS
<1>2. ASSUME sess' # 0, NEW i \in DOMAIN heap'[sess'].turns
      PROVE  heap'[sess'].turns[i].st \in Terminal
  <2>1. heap'[sess'].turns[i] \in Turn
    BY <1>2 DEF Session
  <2> QED
    BY <1>2, <2>1 DEF Fresh, IsLive, Turn, TurnStatus
<1>3. \A i \in DOMAIN Book' : Book'[i].st \in Terminal
  BY <1>2 DEF Book, Shown
<1> QED
  BY <1>1, <1>3 DEF Ledger!Reload, Ledger!Outcome, Terminal, Book, Shown

\* The turns of the session are those of the ledger: they begin one at a time,
\* a running one settles, a settled one stays until it is run again, and what
\* deletion, restore and restart bring back is not running.
THEOREM LedgerImplemented == Spec => ImplementsLedger
<1>1. Init => Ledger!Init
  BY DEF Init, Ledger!Init
<1>2. WorkInv /\ LedgerInv /\ [Next]_vars => [Ledger!Next]_Ledger!ledger
  <2> SUFFICES ASSUME WorkInv, LedgerInv, [Next]_vars
               PROVE  [Ledger!Next]_Ledger!ledger
    OBVIOUS
  <2>a. WorkInv' /\ heap' \in [Obj -> Session] /\ 1 .. used' \subseteq Obj
    BY WorkStep, BoundsAssumption DEF WorkInv, TypeInv, TypeOK, Obj
  <2>1. CASE Restart
    <3>1. /\ sess' \in {0, 1} /\ restarts' # restarts /\ rootDone' = FALSE
          /\ sess' = 1 => heap'[1] = Restored(disk.rec)
      <4>1. MaxObj > 0 /\ 1 \in Obj /\ restarts \in Nat
        BY <2>1, BoundsAssumption DEF Restart, Obj, WorkInv, TypeInv, TypeOK
      <4> QED
        BY <2>1, <4>1 DEF Restart
    <3>2. disk.rec \in Record
      BY DEF WorkInv, TypeInv, TypeOK, File
    <3>3. Ledger!Reload
      BY <3>1, <3>2, RestoredType, FreshObjects, BookReloads
    <3> QED
      BY <3>3 DEF Ledger!Next
  <2>2. CASE ~Restart
    <3>1. /\ Placed /\ \A o \in 1 .. used : Moves(heap[o], heap'[o])
          /\ restarts' = restarts
          /\ rootDone' = rootDone \/ (~rootDone /\ rootDone' /\ UNCHANGED <<sess, heap>>)
      BY <2>2, HeapStep
    <3>2. CASE UNCHANGED <<sess, heap>>
      <4>1. UNCHANGED Ledger!ledger \/ Ledger!Halt
        BY <3>1, <3>2 DEF Ledger!ledger, Ledger!Halt
      <4> QED
        BY <4>1 DEF Ledger!Next
    <3>3. CASE rootDone' = rootDone /\ sess' = sess
      <4>1. CASE sess = 0
        <5>1. UNCHANGED Ledger!ledger
          BY <3>1, <3>3, <4>1 DEF Ledger!ledger
        <5> QED
          BY <5>1
      <4>2. CASE sess # 0
        <5>1. sess \in 1 .. used /\ sess \in Obj /\ heap'[sess] \in Session
          BY <2>a, <4>2, WorkShape
        <5> QED
          BY <3>1, <3>3, <4>2, <5>1, BookStep
      <4> QED
        BY <4>1, <4>2
    <3>4. CASE rootDone' = rootDone /\ sess' # sess
      <4>1. sess' # 0 => heap'[sess'] \in Session /\ Fresh(heap'[sess'])
        <5>1. sess' # 0 => NewObject(heap'[sess'])
          BY <3>1, <3>4 DEF Placed
        <5> QED
          BY <5>1, SoundNew DEF LedgerInv
      <4>2. Ledger!Reload
        BY <3>4, <4>1, BookReloads
      <4> QED
        BY <4>2 DEF Ledger!Next
    <3> QED
      BY <3>1, <3>2, <3>3, <3>4
  <2> QED
    BY <2>1, <2>2
<1> QED
  BY <1>1, <1>2, LedgerAlways, PTL DEF Spec, ImplementsLedger, Ledger!Spec

-----------------------------------------------------------------------------
(* Durability *)

Asked(turns, n) == \E i \in DOMAIN turns : turns[i].prompt = n

\* The sender of n was told that its input was accepted, or is about to be.
Owed(n) ==
  \/ n \in acked
  \/ \E q \in Proc : g[q].pc = "announce" /\ g[q].obj = sess /\ g[q].prompt = n

Writing == Saving \cup {"unlink"}

\* What a goroutine between its snapshot and its rename holds: all that is owed,
\* and the temporary file for itself.
SaverInv(r) ==
  /\ g[r].obj = sess
  /\ \A n \in Prompt : Owed(n) => Asked(g[r].snap.turns, n)
  /\ g[r].next = "announce" => Asked(g[r].snap.turns, g[r].prompt)
  /\ g[r].pc = "write" => g[r].fd = "tmp" /\ tmp.st = "empty"
  /\ g[r].pc \in {"verify", "commit"} => tmp = Full(g[r].snap)

\* As long as no two file operations overlapped, at most one is in flight, and
\* what is owed is in the session, on disk, and in the record under way.
DurableInv ==
  SavesComplete =>
    /\ \A r, q \in Proc : g[r].pc \in Writing /\ g[q].pc \in Writing => r = q
    /\ \A r \in Proc : g[r].pc = "unlink" => \A n \in Prompt : ~Owed(n)
    /\ acked # {} => sess # 0
    /\ \A n \in Prompt : Owed(n) => OnDisk(n) /\ Asked(heap[sess].turns, n)
    /\ \A q \in Proc : "announce" \in {g[q].pc, g[q].next} /\ g[q].obj = sess
                          => Asked(heap[sess].turns, g[q].prompt)
    /\ \A r \in Proc : g[r].pc \in Saving => SaverInv(r)

HistoryInv == WorkInv /\ RemovalInv /\ LedgerInv /\ DurableInv

LEMMA DurableInit == Init => DurableInv
<1> SUFFICES ASSUME Init PROVE DurableInv
  OBVIOUS
<1>1. acked = {} /\ \A r \in Proc : g[r].pc = "idle" /\ g[r].next = "idle"
  BY DEF Init, Idle
<1> QED
  BY <1>1 DEF DurableInv, Owed, Writing, Saving

\* A goroutine that is to announce its turn, or that works on a file, holds an
\* allocated object, and the map leads to it only when it was not deleted.
LEMMA HistoryShape ==
  ASSUME HistoryInv
  PROVE  /\ heap \in [Obj -> Session] /\ g \in [Proc -> Goroutine] /\ used \in Nat
         /\ sess \in 0 .. used /\ acked \subseteq Prompt /\ overlapped \in BOOLEAN
         /\ 1 .. used \subseteq Obj
         /\ \A q \in Proc :
              /\ "announce" \in {g[q].pc, g[q].next} => g[q].obj \in 1 .. used
              /\ g[q].pc \in Holding => g[q].obj \in 1 .. used
              /\ g[q].pc = "announce" => g[q].prompt \in Prompt
         /\ \A o \in 1 .. used : heap[o].deleted <=> o # sess
<1>1. TypeInv /\ WorkInv /\ overlapped \in BOOLEAN /\ acked \subseteq Prompt
  BY DEF HistoryInv, WorkInv, TypeInv, TypeOK
<1>2. ASSUME NEW q \in Proc
      PROVE  /\ "announce" \in {g[q].pc, g[q].next} => g[q].obj \in 1 .. used
             /\ g[q].pc = "announce" => g[q].prompt \in Prompt
  <2>1. GoodGoroutine(q, g[q], used)
    BY <1>1, GoodGoroutines
  <2> QED
    BY <2>1 DEF GoodGoroutine, Holding, Label, Saving, TurnLabels
<1>3. \A o \in 1 .. used : heap[o].deleted <=> o # sess
  <2> SUFFICES ASSUME NEW o \in 1 .. used PROVE heap[o].deleted <=> o # sess
    OBVIOUS
  <2>1. heap[o].deleted \/ o = sess
    BY DEF HistoryInv, RemovalInv, OneLiveObject
  <2>2. sess # 0 => ~heap[sess].deleted
    BY DEF HistoryInv, LedgerInv
  <2>3. o # 0
    OBVIOUS
  <2> QED
    BY <2>1, <2>2, <2>3
<1> QED
  BY <1>1, <1>2, <1>3, WorkShape

\* What was asked stays in the session.
LEMMA AskedMoves ==
  ASSUME NEW s \in Session, NEW z, Moves(s, z), NEW n, Asked(s.turns, n)
  PROVE  Asked(z.turns, n)
<1>1. PICK i \in DOMAIN s.turns : s.turns[i].prompt = n
  BY DEF Asked
<1>2. i \in DOMAIN z.turns /\ z.turns[i].prompt = n
  <2>1. CASE Begins(s, z)
    <3>1. PICK t \in Turn : z.turns = Append(s.turns, t)
      BY <2>1 DEF Begins
    <3> QED
      BY <1>1, <3>1 DEF Session
  <2>2. CASE ~Begins(s, z)
    BY <1>1, <2>2 DEF Moves, Keeps, SameTurns, RunsAgain, Settles, Marks
  <2> QED
    BY <2>1, <2>2
<1> QED
  BY <1>2 DEF Asked

\* Once two file operations overlapped, this is not forgotten.
LEMMA OverlapStays ==
  ASSUME HistoryInv, [Next]_vars, SavesComplete'
  PROVE  SavesComplete
<1> SUFFICES overlapped => overlapped'
  BY DEF SavesComplete
<1>1. ASSUME NEW r \in Proc, Call(r) \/ Serve(r) \/ Persist(r), overlapped PROVE overlapped'
  <2>1. CASE Call(r) \/ Persist(r) \/ Drop(r) \/ Unlink(r) \/ Adopt(r) \/ LoadRecord(r)
    BY <1>1, <2>1 DEF Call, Open, Lookup, Persist, SnapshotRecord, OpenTemp, WriteTemp,
       VerifyNotDeleted, CommitTemp, SaveFails, Drop, Unlink, Adopt, LoadRecord
  <2>2. CASE Reconcile(r) \/ CheckRepository(r) \/ Accept(r) \/ Retry(r) \/ Pin(r)
             \/ Announce(r) \/ PrepareRepository(r)
    BY <1>1, <2>2 DEF Reconcile, CheckRepository, Accept, Retry, Pin, Announce, PrepareRepository
  <2>3. CASE CodexEvent(r) \/ CodexExit(r) \/ FinishActive(r) \/ FinishSuperseded(r)
             \/ FinishLate(r) \/ Conclude(r)
    BY <1>1, <2>3 DEF CodexEvent, CodexExit, FinishActive, FinishSuperseded, FinishLate, Conclude
  <2> QED
    BY <1>1, <2>1, <2>2, <2>3 DEF Serve
<1>2. CASE CancelRoot \/ Sweep \/ Mark \/ Restart \/ UNCHANGED vars
  BY <1>2 DEF CancelRoot, Sweep, Mark, Restart, vars
<1> QED
  BY <1>1, <1>2 DEF Next

\* The goroutine holds what it held.
SameSaver(q) == SameWork(q) /\ g'[q].snap = g[q].snap /\ g'[q].fd = g[q].fd

\* A step that leaves the files, and those who work on them, alone.
LEMMA DurableKept ==
  ASSUME HistoryInv, SavesComplete,
         \A q \in Proc : g'[q].pc \in Writing => SameSaver(q),
         \A n \in Prompt : Owed(n)' => Owed(n) /\ Asked(heap'[sess'].turns, n),
         \A q \in Proc : "announce" \in {g'[q].pc, g'[q].next} /\ g'[q].obj = sess'
                            => Asked(heap'[sess'].turns, g'[q].prompt),
         UNCHANGED <<disk, tmp>>,
         \A q \in Proc : g[q].pc \in Saving => sess' = sess,
         acked' # {} => sess' # 0
  PROVE  DurableInv'
<1> SUFFICES ASSUME SavesComplete' PROVE DurableInv'
  BY DEF DurableInv
<1>1. DurableInv
  BY DEF HistoryInv
<1>2. \A r, q \in Proc : g'[r].pc \in Writing /\ g'[q].pc \in Writing => r = q
  BY <1>1 DEF DurableInv, SameSaver, SameWork
<1>3. \A r \in Proc : g'[r].pc = "unlink" => \A n \in Prompt : ~Owed(n)'
  BY <1>1 DEF DurableInv, SameSaver, SameWork, Writing
<1>4. \A n \in Prompt : Owed(n)' => OnDisk(n)' /\ Asked(heap'[sess'].turns, n)
  BY <1>1 DEF DurableInv, OnDisk
<1>5. \A r \in Proc : g'[r].pc \in Saving => SaverInv(r)'
  <2> SUFFICES ASSUME NEW r \in Proc, g'[r].pc \in Saving PROVE SaverInv(r)'
    OBVIOUS
  <2>1. SameSaver(r) /\ g[r].pc \in Saving
    BY DEF Writing, SameSaver, SameWork
  <2>2. SaverInv(r)
    BY <1>1, <2>1 DEF DurableInv
  <2>3. \A n \in Prompt : Owed(n)' => Asked(g'[r].snap.turns, n)
    BY <2>1, <2>2 DEF SaverInv, SameSaver
  <2> QED
    BY <2>1, <2>2, <2>3 DEF SaverInv, SameSaver, SameWork, Asked
<1> QED
  BY <1>2, <1>3, <1>4, <1>5 DEF DurableInv, Asked

\* A step that leaves the files alone and starts no file operation.
LEMMA DurableCalm ==
  ASSUME HistoryInv, SavesComplete, Placed, sess' = 0 => sess = 0,
         \A o \in 1 .. used : Moves(heap[o], heap'[o]),
         UNCHANGED <<disk, tmp>>,
         \A q \in Proc : g'[q].pc \in Writing => SameSaver(q),
         \A q \in Proc : g'[q].pc = "announce" /\ g'[q].obj = sess' => SameWork(q),
         \A q \in Proc : g'[q].next = "announce" /\ g'[q].obj = sess' =>
            \/ SameWork(q)
            \/ g'[q].obj \in 1 .. used /\ Asked(heap'[sess'].turns, g'[q].prompt),
         \/ acked' = acked
         \/ \E q \in Proc : /\ g[q].pc = "announce" /\ g[q].obj = sess
                            /\ acked' = acked \cup {g[q].prompt}
  PROVE  DurableInv'
<1>0. DurableInv /\ used \in Nat /\ sess \in 0 .. used /\ heap \in [Obj -> Session]
      /\ 1 .. used \subseteq Obj
  BY HistoryShape DEF HistoryInv
<1>a. \A q \in Proc : "announce" \in {g[q].pc, g[q].next} => g[q].obj \in 1 .. used
  BY HistoryShape
<1>b. \A n \in Prompt : n \in acked' => Owed(n)
  BY DEF Owed
<1>c. \A q \in Proc : g[q].pc \in Saving => sess # 0
  <2> SUFFICES ASSUME NEW q \in Proc, g[q].pc \in Saving PROVE sess # 0
    OBVIOUS
  <2>1. g[q].obj \in 1 .. used
    BY HistoryShape DEF Saving, Holding, Label
  <2>2. g[q].obj = sess
    BY <1>0 DEF DurableInv, SaverInv
  <2> QED
    BY <2>1, <2>2, <1>0
<1>d. acked' \subseteq Prompt
  BY HistoryShape
<1>1. CASE sess # 0
  <2>1. sess' = sess /\ sess \in 1 .. used
    BY <1>0, <1>1 DEF Placed
  <2>2. \A n : Asked(heap[sess].turns, n) => Asked(heap'[sess'].turns, n)
    BY <1>0, <2>1, AskedMoves
  <2>3. \A n \in Prompt : Owed(n)' => Owed(n)
    <3> SUFFICES ASSUME NEW n \in Prompt, Owed(n)' PROVE Owed(n)
      OBVIOUS
    <3>1. CASE n \in acked'
      BY <1>b, <3>1
    <3>2. CASE n \notin acked'
      BY <2>1, <3>2 DEF Owed, SameWork
    <3> QED
      BY <3>1, <3>2
  <2>4. \A q \in Proc : "announce" \in {g'[q].pc, g'[q].next} /\ g'[q].obj = sess'
                           => Asked(heap'[sess'].turns, g'[q].prompt)
    <3> SUFFICES ASSUME NEW q \in Proc, "announce" \in {g'[q].pc, g'[q].next},
                        g'[q].obj = sess'
                 PROVE  Asked(heap'[sess'].turns, g'[q].prompt)
      OBVIOUS
    <3>1. CASE SameWork(q)
      BY <1>0, <2>1, <2>2, <3>1 DEF SameWork, DurableInv
    <3>2. CASE ~SameWork(q)
      BY <3>2
    <3> QED
      BY <3>1, <3>2
  <2>5. \A n \in Prompt : Owed(n)' => Owed(n) /\ Asked(heap'[sess'].turns, n)
    BY <1>0, <2>2, <2>3 DEF DurableInv
  <2> QED
    BY <1>1, <2>1, <2>4, <2>5, DurableKept
<1>2. CASE sess = 0
  <2>1. acked' = {}
    BY <1>0, <1>2, <1>a DEF DurableInv
  <2>2. sess' = 0 \/ sess' = used + 1
    BY <1>2 DEF Placed
  <2>3. ASSUME NEW q \in Proc, "announce" \in {g'[q].pc, g'[q].next}, g'[q].obj = sess'
        PROVE  FALSE
    <3>1. g'[q].obj \in 1 .. used
      BY <1>a, <2>3 DEF SameWork
    <3> QED
      BY <1>0, <2>2, <2>3, <3>1
  <2>4. \A n \in Prompt : ~Owed(n)'
    BY <2>1, <2>3 DEF Owed
  <2>5. \A q \in Proc : g[q].pc \notin Saving
    BY <1>2, <1>c
  <2> HIDE DEF Placed
  <2> QED
    BY <2>1, <2>3, <2>4, <2>5, DurableKept
<1> QED
  BY <1>1, <1>2

\* Where a goroutine is that works on no file and is not about to announce: when
\* it will be after its save, the session holds its turn.
Answers(gr) ==
  /\ gr.pc \notin Writing \cup {"announce"}
  /\ gr.next = "announce" => gr.obj \in 1 .. used /\ Asked(heap'[gr.obj].turns, gr.prompt)

LEMMA AnswersStep ==
  ASSUME WorkInv, NEW r \in Proc, Call(r) \/ Serve(r), ~Drop(r), ~Unlink(r)
  PROVE  g[r].pc \notin Writing /\ Answers(g'[r])
<1>0. TypeInv /\ g \in [Proc -> Goroutine] /\ g[r] \in Goroutine /\ heap \in [Obj -> Session]
      /\ 1 .. used \subseteq Obj
  BY WorkShape DEF WorkInv
<1>a. g[r].pc \notin Writing \cup {"snapshot"} /\ g[r].next = "idle"
  <2>1. g[r].pc \notin Writing \cup {"snapshot"}
    BY DEF Call, Serve, Open, Lookup, LoadRecord, Adopt, Reconcile, CheckRepository, Accept,
       Retry, Pin, Announce, PrepareRepository, CodexEvent, CodexExit, FinishActive,
       FinishSuperseded, FinishLate, Conclude, At, Writing, Saving
  <2> QED
    BY <1>0, <2>1 DEF TypeInv, GoroutinesInv, Writing
<1> SUFFICES Answers(g'[r])
  BY <1>a
<1>b. Return(r) => Answers(g'[r])
  BY <1>0 DEF Return, Idle, Answers, Writing, Saving
<1>c. \A label \in Label \ (Writing \cup {"announce"}) : Goto(r, label) => Answers(g'[r])
  BY <1>0, <1>a DEF Goto, Goroutine, Answers
<1>d. ASSUME NEW s, NEW gr \in Goroutine, NEW next, next # "announce", Save(r, s, gr, next)
      PROVE  Answers(g'[r])
  <2>1. g'[r] = [gr EXCEPT !.pc = "snapshot", !.next = next]
    BY <1>0, <1>d DEF Save
  <2>2. g'[r].pc = "snapshot" /\ g'[r].next = next
    BY <2>1 DEF Goroutine
  <2> QED
    BY <1>d, <2>2 DEF Answers, Writing, Saving
<1>e. ASSUME NEW s, NEW gr \in Goroutine, gr.obj \in 1 .. used, Asked(s.turns, gr.prompt),
             Save(r, s, gr, "announce")
      PROVE  Answers(g'[r])
  <2>1. g'[r] = [gr EXCEPT !.pc = "snapshot", !.next = "announce"]
    BY <1>0, <1>e DEF Save
  <2>2. g'[r].pc = "snapshot" /\ g'[r].obj = gr.obj /\ g'[r].prompt = gr.prompt
    BY <2>1 DEF Goroutine
  <2>3. heap'[gr.obj] = s
    BY <1>0, <1>e DEF Save
  <2> QED
    BY <1>e, <2>2, <2>3 DEF Answers, Writing, Saving
<1>f. \A o : Entry(o) \in Label \ (Writing \cup {"announce"})
  BY DEF Entry, Label, Writing, Saving
<1>g. ASSUME g'[r].pc \notin Writing \cup {"announce"}, g'[r].next = "idle" PROVE Answers(g'[r])
  BY <1>g DEF Answers
<1>h. ASSUME g[r].pc \in Holding
      PROVE  g[r].obj \in 1 .. used /\ Mine(r) \in Session /\ Mine(r) = heap[g[r].obj]
  BY <1>0, <1>h, MineType DEF Mine
<1>1. CASE Open(r)
  <2>1. g'[r].pc = "snapshot" /\ g'[r].next = g[r].next
    BY <1>0, <1>1 DEF Open, Goroutine
  <2> QED
    BY <1>a, <1>g, <2>1 DEF Writing, Saving
<1>2. CASE Lookup(r)
  <2>1. PICK o \in Ops \ {"open", "stop", "fault"} :
          LET inMap == sess # 0 /\ o # "list"
          IN  g' = [g EXCEPT ![r].op = o,
                             ![r].pc = IF inMap THEN Entry(o) ELSE "load",
                             ![r].obj = IF inMap THEN sess ELSE 0,
                             ![r].prompt = IF o \in TurnOps THEN sent + 1 ELSE 0]
    BY <1>2 DEF Lookup
  <2>2. g'[r].pc \in {Entry(o), "load"} /\ g'[r].next = g[r].next
    BY <1>0, <2>1 DEF Goroutine
  <2> QED
    BY <1>a, <1>f, <1>g, <2>2 DEF Writing, Saving
<1>3. CASE LoadRecord(r) \/ CodexExit(r) \/ CheckRepository(r)
  <2>1. \/ Return(r)
        \/ g'[r].pc \in {"adopt", "finish", "accept"} /\ g'[r].next = g[r].next
    BY <1>0, <1>3 DEF LoadRecord, CodexExit, CheckRepository, Goroutine
  <2> QED
    BY <1>a, <1>b, <1>g, <2>1 DEF Writing, Saving
<1>4. CASE Adopt(r)
  <2>1. g'[r].pc = Entry(g[r].op) /\ g'[r].next = g[r].next
    BY <1>0, <1>4 DEF Adopt, Goroutine
  <2> QED
    BY <1>a, <1>f, <1>g, <2>1
<1>5. CASE Announce(r) \/ Conclude(r)
  BY <1>5, <1>b, <1>c DEF Announce, Conclude, Label, Writing, Saving
<1>6. CASE Reconcile(r) \/ Pin(r) \/ CodexEvent(r)
  <2>1. AfterReconcile(g[r].op) \in Label \ (Writing \cup {"announce"})
    BY DEF AfterReconcile, Label, Writing, Saving
  <2>2. \/ Return(r) \/ Goto(r, AfterReconcile(g[r].op))
        \/ \E s, next : next # "announce" /\ Save(r, s, g[r], next)
    BY <1>6, <2>1 DEF Reconcile, Pin, CodexEvent
  <2> QED
    BY <1>0, <1>b, <1>c, <1>d, <2>1, <2>2
<1>7. CASE PrepareRepository(r)
  <2>1. [g[r] EXCEPT !.res = "error"] \in Goroutine
    BY <1>0 DEF Goroutine
  <2>2. \/ Goto(r, "exec")
        \/ \E s : Save(r, s, g[r], "exec") \/ Save(r, s, [g[r] EXCEPT !.res = "error"], "finish")
    BY <1>7 DEF PrepareRepository
  <2> QED
    BY <1>0, <1>c, <1>d, <2>1, <2>2 DEF Label, Writing, Saving
<1>8. CASE FinishSuperseded(r)
  <2> DEFINE gr == [g[r] EXCEPT !.res = Outcome(r)]
  <2>1. Outcome(r) \in Terminal
    BY DEF Outcome, Terminal
  <2>2. gr \in Goroutine
    BY <1>0, <2>1 DEF Goroutine
  <2>3. \E s : Save(r, s, gr, "conclude")
    BY <1>8 DEF FinishSuperseded
  <2> HIDE DEF gr
  <2> QED
    BY <1>d, <2>2, <2>3
<1>9. CASE FinishLate(r) \/ FinishActive(r)
  <2> DEFINE gr == Reported(r, Mine(r))
  <2>1. gr \in Goroutine
    <3>1. (IF Mine(r).closed THEN "completed" ELSE Outcome(r)) \in Terminal
      BY DEF Outcome, Terminal
    <3> QED
      BY <1>0, <3>1 DEF Reported, Goroutine
  <2>2. CASE FinishLate(r)
    <3>1. \E s : Save(r, s, gr, "conclude")
      BY <2>2 DEF FinishLate
    <3> HIDE DEF gr
    <3> QED
      BY <1>d, <2>1, <3>1
  <2>3. CASE FinishActive(r)
    <3> DEFINE new == [gr EXCEPT !.pc = "snapshot", !.next = "conclude"]
    <3>1. g' = [Cancelled(g, Mine(r).cancel) EXCEPT ![r] = new]
      BY <2>3 DEF FinishActive
    <3>2. new.pc = "snapshot" /\ new.next = "conclude"
      <4> HIDE DEF gr
      <4> QED
        BY <2>1 DEF Goroutine
    <3> HIDE DEF new, gr
    <3>3. g'[r] = new
      BY <1>0, <3>1 DEF Cancelled
    <3> QED
      BY <3>2, <3>3 DEF Answers, Writing, Saving
  <2> QED
    BY <1>9, <2>2, <2>3
<1>10. CASE Accept(r)
  <2> DEFINE s == Mine(r)
             t == Len(s.turns) + 1
             added == [prompt |-> g[r].prompt, st |-> "running", steps |-> 0]
             begun == [s EXCEPT
               !.repo = IF g[r].bind THEN "preparing" ELSE @,
               !.closed = FALSE,
               !.turns = Append(@, added)]
             gr == [g[r] EXCEPT !.turn = t, !.bind = FALSE]
             left == Driven(begun, t, r)
  <2>1. Return(r) \/ Save(r, left, gr, "announce")
    BY <1>10 DEF Accept
  <2>2. g[r].obj \in 1 .. used /\ s \in Session
    BY <1>10, <1>h DEF Accept, At, Holding, Label
  <2>3. s.turns \in Seq(Turn) /\ t \in Nat
    BY <2>2 DEF Session
  <2>4. gr \in Goroutine /\ gr.obj = g[r].obj /\ gr.prompt = g[r].prompt
    BY <1>0, <2>3 DEF Goroutine
  <2>5. left.turns = Append(s.turns, added)
    <3> HIDE DEF added, t
    <3> QED
      BY <2>2 DEF Driven, Session
  <2>6. Asked(left.turns, g[r].prompt)
    <3> HIDE DEF left, s
    <3>1. t \in DOMAIN left.turns /\ left.turns[t] = added
      BY <2>3, <2>5
    <3> QED
      BY <3>1 DEF Asked
  <2> HIDE DEF gr, left
  <2> QED
    BY <1>b, <1>e, <2>1, <2>2, <2>4, <2>6
<1>11. CASE Retry(r)
  <2>1. CASE Return(r)
    BY <1>b, <2>1
  <2>2. CASE ~Return(r)
    <3> DEFINE s == Mine(r)
    <3>1. PICK t \in RetryTurns(s) :
            Save(r, Driven([SetTurn(s, t, "running") EXCEPT !.repo = "preparing"], t, r),
                 [g[r] EXCEPT !.turn = t, !.prompt = s.turns[t].prompt], "announce")
      BY <1>11, <2>2 DEF Retry
    <3> DEFINE gr == [g[r] EXCEPT !.turn = t, !.prompt = s.turns[t].prompt]
               turn == SetTurn(s, t, "running")
               left == Driven([turn EXCEPT !.repo = "preparing"], t, r)
    <3>2. g[r].obj \in 1 .. used /\ s \in Session
      BY <1>11, <1>h DEF Retry, At, Holding, Label
    <3>3. t \in DOMAIN s.turns /\ t \in Nat /\ s.turns[t] \in Turn
      BY <3>2 DEF Session, RetryTurns
    <3>4. gr \in Goroutine /\ gr.obj = g[r].obj /\ gr.prompt = s.turns[t].prompt
      <4>1. s.turns[t].prompt \in 0 .. MaxPrompts
        BY <3>3, BoundsAssumption DEF Turn, Prompt
      <4> HIDE DEF s
      <4> QED
        BY <1>0, <3>3, <4>1 DEF Goroutine
    <3>5. Marks(s, turn, t, "running") /\ turn = [s EXCEPT !.turns = turn.turns]
      BY <3>2, SetTurnMarks
    <3>6. left.turns = turn.turns
      <4> HIDE DEF turn, s
      <4> QED
        BY <3>2, <3>5 DEF Session, Driven
    <3>7. Asked(left.turns, gr.prompt)
      <4> HIDE DEF left, gr, turn, s
      <4> QED
        BY <3>3, <3>4, <3>5, <3>6 DEF Asked, Marks
    <3>8. Save(r, left, gr, "announce")
      BY <3>1
    <3> HIDE DEF gr, left
    <3> QED
      BY <1>e, <3>2, <3>4, <3>7, <3>8
  <2> QED
    BY <2>1, <2>2
<1> QED
  BY <1>a, <1>1, <1>2, <1>3, <1>4, <1>5, <1>6, <1>7, <1>8, <1>9, <1>10, <1>11 DEF Call, Serve

\* What a request, or a turn, does to the map and to what was answered.
LEMMA AnsweredStep ==
  ASSUME WorkInv, NEW r \in Proc, Call(r) \/ Serve(r), ~Drop(r)
  PROVE  /\ sess' = 0 => sess = 0
         /\ \/ acked' = acked
            \/ At(r, "announce") /\ ~Mine(r).deleted /\ acked' = acked \cup {g[r].prompt}
<1>0. used \in Nat
  BY WorkShape
<1>1. CASE Call(r) \/ LoadRecord(r) \/ Adopt(r) \/ Unlink(r)
  BY <1>0, <1>1 DEF Call, Open, Lookup, LoadRecord, Adopt, Unlink, Insert
<1>2. CASE Reconcile(r) \/ CheckRepository(r) \/ Accept(r) \/ Retry(r) \/ Pin(r)
  BY <1>2 DEF Reconcile, CheckRepository, Accept, Retry, Pin
<1>3. CASE Announce(r) \/ PrepareRepository(r) \/ CodexEvent(r) \/ CodexExit(r) \/ Conclude(r)
  BY <1>3 DEF Announce, PrepareRepository, CodexEvent, CodexExit, Conclude
<1>4. CASE FinishActive(r) \/ FinishSuperseded(r) \/ FinishLate(r)
  BY <1>4 DEF FinishActive, FinishSuperseded, FinishLate
<1> QED
  BY <1>1, <1>2, <1>3, <1>4 DEF Serve

LEMMA DurableServe ==
  ASSUME HistoryInv, SavesComplete, [Next]_vars, ~Restart,
         NEW r \in Proc, Call(r) \/ Serve(r), ~Drop(r), ~Unlink(r)
  PROVE  DurableInv'
<1>0. WorkInv /\ TypeInv
  BY DEF HistoryInv, WorkInv
<1>1. Placed /\ \A o \in 1 .. used : Moves(heap[o], heap'[o])
  BY <1>0, HeapStep
<1>2. g[r].pc \notin Writing /\ Answers(g'[r])
  BY <1>0, AnswersStep
<1>3. UNCHANGED <<disk, tmp>>
  BY <1>0, <1>2, FilesStep DEF Writing
<1>4. \A q \in Proc \ {r} : SameSaver(q)
  BY <1>0, <1>2, OthersGoOn DEF SameSaver, Writing
<1>5. \A q \in Proc : g'[q].pc \in Writing => SameSaver(q)
  BY <1>2, <1>4 DEF Answers
<1>6. \A q \in Proc : g'[q].pc = "announce" /\ g'[q].obj = sess' => SameWork(q)
  BY <1>2, <1>4 DEF Answers, SameSaver
<1>7. \A q \in Proc : g'[q].next = "announce" /\ g'[q].obj = sess' =>
         \/ SameWork(q)
         \/ g'[q].obj \in 1 .. used /\ Asked(heap'[sess'].turns, g'[q].prompt)
  BY <1>2, <1>4 DEF Answers, SameSaver
<1>8. sess' = 0 => sess = 0
  BY <1>0, AnsweredStep
<1>9. \/ acked' = acked
      \/ \E q \in Proc : /\ g[q].pc = "announce" /\ g[q].obj = sess
                         /\ acked' = acked \cup {g[q].prompt}
  <2>1. CASE ~(acked' = acked)
    <3>1. At(r, "announce") /\ ~Mine(r).deleted /\ acked' = acked \cup {g[r].prompt}
      BY <1>0, <2>1, AnsweredStep
    <3>2. g[r].obj \in 1 .. used
      BY <3>1, HistoryShape DEF At
    <3>3. g[r].obj = sess
      BY <3>1, <3>2, HistoryShape DEF Mine
    <3> QED
      BY <3>1, <3>3 DEF At
  <2> QED
    BY <2>1
<1> QED
  BY <1>1, <1>3, <1>5, <1>6, <1>7, <1>8, <1>9, DurableCalm

\* Delete: what was owed is withdrawn before the file is removed.
LEMMA DurableDrop ==
  ASSUME HistoryInv, SavesComplete, NEW r \in Proc, Drop(r), sess # 0
  PROVE  DurableInv'
<1> SUFFICES ASSUME SavesComplete' PROVE DurableInv'
  BY DEF DurableInv
<1>0. TypeInv /\ g \in [Proc -> Goroutine] /\ g[r].pc = "drop"
  BY DEF HistoryInv, WorkInv, TypeInv, TypeOK, Drop, At
<1>1. sess' = 0 /\ acked' = {} /\ \A q \in Proc : g[q].pc \notin Writing
  BY DEF Drop, SavesComplete, Writing
<1>2. \A q \in Proc \ {r} : SameWork(q)
  BY <1>0, OthersGoOn DEF Serve
<1>3. g'[r].pc = "unlink" /\ g'[r].next = "idle"
  <2> DEFINE c == heap[sess].cancel
  <2>1. c \in Proc \cup {None}
    <3>1. heap[sess] \in Session
      BY HistoryShape
    <3> QED
      BY <3>1 DEF Session
  <2>2. g' = [Cancelled(g, c) EXCEPT ![r].pc = "unlink"]
    BY DEF Drop
  <2>3. g[r].next = "idle"
    BY <1>0 DEF TypeInv, GoroutinesInv, Saving
  <2> HIDE DEF c
  <2>4. Cancelled(g, c) \in [Proc -> Goroutine] /\ Cancelled(g, c)[r].next = g[r].next
    BY <1>0, <2>1, CancelledType
  <2>5. g'[r] = [Cancelled(g, c)[r] EXCEPT !.pc = "unlink"]
    BY <2>2, <2>4
  <2> QED
    BY <2>3, <2>4, <2>5 DEF Goroutine
<1>4. ASSUME NEW q \in Proc, "announce" \in {g'[q].pc, g'[q].next} PROVE g'[q].obj # 0
  <2>1. q # r
    BY <1>3, <1>4
  <2>2. g[q].obj \in 1 .. used
    BY <1>2, <1>4, <2>1, HistoryShape DEF SameWork
  <2> QED
    BY <1>2, <2>1, <2>2 DEF SameWork
<1>5. \A n : ~Owed(n)'
  BY <1>1, <1>4 DEF Owed
<1>6. \A q \in Proc : g'[q].pc \in Writing => q = r
  BY <1>1, <1>2 DEF SameWork
<1>7. \A q \in Proc : g'[q].pc \notin Saving
  BY <1>3, <1>6 DEF Writing, Saving
<1> QED
  BY <1>1, <1>4, <1>5, <1>6, <1>7 DEF DurableInv

LEMMA DurableUnlink ==
  ASSUME HistoryInv, SavesComplete, NEW r \in Proc, Unlink(r)
  PROVE  DurableInv'
<1> SUFFICES ASSUME SavesComplete' PROVE DurableInv'
  BY DEF DurableInv
<1>0. TypeInv /\ g \in [Proc -> Goroutine] /\ g[r].pc = "unlink" /\ DurableInv
  BY DEF HistoryInv, WorkInv, TypeInv, TypeOK, Unlink, At
<1>1. UNCHANGED <<sess, heap, acked>>
  BY DEF Unlink
<1>2. \A q \in Proc \ {r} : SameWork(q)
  BY <1>0, OthersGoOn DEF Serve
<1>3. g'[r].pc = "idle" /\ g'[r].next = "idle"
  BY <1>0 DEF Unlink, Moved, Idle
<1>4. \A q \in Proc : g'[q].pc \notin Writing
  <2>1. \A q \in Proc : g[q].pc \in Writing => q = r
    BY <1>0 DEF DurableInv, Writing
  <2> QED
    BY <1>2, <1>3, <2>1 DEF SameWork, Writing, Saving
<1>5. \A n \in Prompt : ~Owed(n)'
  <2>1. \A n \in Prompt : ~Owed(n)
    BY <1>0 DEF DurableInv
  <2>2. \A n \in Prompt : Owed(n)' => Owed(n)
    BY <1>1, <1>2, <1>3 DEF Owed, SameWork
  <2> QED
    BY <2>1, <2>2
<1>6. \A q \in Proc : "announce" \in {g'[q].pc, g'[q].next} /\ g'[q].obj = sess'
                         => Asked(heap'[sess'].turns, g'[q].prompt)
  BY <1>0, <1>1, <1>2, <1>3 DEF DurableInv, SameWork
<1> QED
  BY <1>0, <1>1, <1>4, <1>5, <1>6 DEF DurableInv, Writing, Saving

\* A goroutine alone with the files goes from one step of its save to the next.
LEMMA DurableSaves ==
  ASSUME HistoryInv, SavesComplete, NEW r \in Proc,
         g[r].pc \in Saving \cup {"snapshot"}, g'[r].pc \in Saving,
         \A q \in Proc \ {r} : SameWork(q) /\ g[q].pc \notin Writing,
         g'[r].obj = g[r].obj, g'[r].next = g[r].next, g'[r].prompt = g[r].prompt,
         UNCHANGED <<sess, heap, acked, disk>>,
         g[r].obj = sess,
         \A n \in Prompt : Owed(n) => Asked(g'[r].snap.turns, n),
         g[r].next = "announce" => Asked(g'[r].snap.turns, g[r].prompt),
         g'[r].pc = "write" => g'[r].fd = "tmp" /\ tmp'.st = "empty",
         g'[r].pc \in {"verify", "commit"} => tmp' = Full(g'[r].snap)
  PROVE  DurableInv'
<1>0. DurableInv
  BY DEF HistoryInv
<1>1. \A q \in Proc \ {r} : g'[q].pc \notin Writing
  BY DEF SameWork
<1>2. g[r].pc # "announce" /\ g'[r].pc \notin {"announce", "unlink"}
  BY DEF Saving
<1>3. \A n \in Prompt : Owed(n)' => Owed(n)
  BY <1>2 DEF Owed, SameWork
<1>4. \A n \in Prompt : Owed(n)' => OnDisk(n)' /\ Asked(heap'[sess'].turns, n)
  BY <1>0, <1>3 DEF DurableInv, OnDisk
<1>5. \A q \in Proc : "announce" \in {g'[q].pc, g'[q].next} /\ g'[q].obj = sess'
                         => Asked(heap'[sess'].turns, g'[q].prompt)
  BY <1>0, <1>2 DEF DurableInv, SameWork
<1>6. SaverInv(r)'
  BY <1>3 DEF SaverInv, Asked
<1>7. \A p, q \in Proc : g'[p].pc \in Writing /\ g'[q].pc \in Writing => p = q
  BY <1>1
<1>8. \A q \in Proc : g'[q].pc \in Saving => SaverInv(q)'
  BY <1>1, <1>6 DEF Writing
<1>9. \A q \in Proc : g'[q].pc # "unlink"
  BY <1>1, <1>2 DEF Writing
<1> QED
  BY <1>0, <1>4, <1>5, <1>7, <1>8, <1>9 DEF DurableInv, Asked

\* A save, from its snapshot to its rename.
LEMMA DurablePersist ==
  ASSUME HistoryInv, SavesComplete, NEW r \in Proc, Persist(r)
  PROVE  DurableInv'
<1> SUFFICES ASSUME SavesComplete' PROVE DurableInv'
  BY DEF DurableInv
<1>0. TypeInv /\ g \in [Proc -> Goroutine] /\ g[r] \in Goroutine /\ DurableInv
  BY DEF HistoryInv, WorkInv, TypeInv, TypeOK
<1>1. UNCHANGED <<sess, heap, used, acked>>
  BY DEF Persist, SnapshotRecord, OpenTemp, WriteTemp, VerifyNotDeleted, CommitTemp, SaveFails
<1>2. \A q \in Proc \ {r} : SameWork(q)
  BY <1>0, OthersGoOn
<1>3. g[r].pc \in Saving \cup {"snapshot"} /\ g[r].obj \in 1 .. used
  <2>1. g[r].pc \in Saving \cup {"snapshot"}
    BY DEF Persist, SnapshotRecord, OpenTemp, WriteTemp, VerifyNotDeleted, CommitTemp, SaveFails,
       At, Saving
  <2> QED
    BY <2>1, HistoryShape DEF Holding, Label, Saving
<1>4. /\ Resumed(r).pc = g[r].next /\ Resumed(r).next = "idle"
      /\ g[r].next # "idle" => Resumed(r).obj = g[r].obj /\ Resumed(r).prompt = g[r].prompt
  BY <1>0 DEF Resumed, Idle, Goroutine, Resumption, Label
<1>5. g[r].next \notin Writing \cup {"snapshot"}
  BY <1>0 DEF Goroutine, Resumption, Writing, Saving
<1>6. g[r].pc \in Saving => SaverInv(r) /\ \A q \in Proc \ {r} : g[q].pc \notin Writing
  BY <1>0 DEF DurableInv, Writing
<1>7. g[r].obj = sess <=> ~Mine(r).deleted
  BY <1>3, HistoryShape DEF Mine
<1>8. CASE SnapshotRecord(r) /\ Mine(r).deleted
  <2>1. g' = [g EXCEPT ![r] = Resumed(r)] /\ UNCHANGED <<disk, tmp>>
    BY <1>8 DEF SnapshotRecord
  <2>2. g'[r] = Resumed(r) /\ \A q \in Proc \ {r} : g'[q] = g[q]
    BY <1>0, <2>1
  <2>3. \A q \in Proc : g'[q].pc \in Writing => SameSaver(q)
    BY <1>4, <1>5, <2>2 DEF SameSaver, SameWork
  <2>4. \A q \in Proc : g'[q].pc = "announce" /\ g'[q].obj = sess' => SameWork(q)
    BY <1>1, <1>4, <1>7, <1>8, <2>2 DEF SameWork
  <2>5. \A q \in Proc : g'[q].next = "announce" => SameWork(q)
    BY <1>4, <2>2 DEF SameWork
  <2>6. Placed /\ \A o \in 1 .. used : Moves(heap[o], heap'[o])
    BY <1>1, MovesSame DEF Placed
  <2> QED
    BY <1>1, <2>1, <2>3, <2>4, <2>5, <2>6, DurableCalm
<1>9. CASE SnapshotRecord(r) /\ ~Mine(r).deleted
  <2> DEFINE gr == [g[r] EXCEPT !.pc = "open", !.snap = Persisted(Mine(r))]
  <2>1. g' = [g EXCEPT ![r] = gr] /\ UNCHANGED <<disk, tmp>>
    BY <1>0, <1>9 DEF SnapshotRecord
  <2>2. \A q \in Proc \ {r} : g[q].pc \notin Writing
    BY <1>9 DEF SnapshotRecord, SavesComplete, Writing
  <2>3. gr.pc = "open" /\ gr.obj = g[r].obj /\ gr.next = g[r].next /\ gr.prompt = g[r].prompt
    BY <1>0 DEF Goroutine
  <2>4. gr.snap.turns = heap[sess].turns
    <3>1. gr.snap = Persisted(Mine(r))
      BY <1>0 DEF Goroutine
    <3> QED
      BY <1>7, <1>9, <3>1 DEF Persisted, Mine
  <2>5. \A n \in Prompt : Owed(n) => Asked(gr.snap.turns, n)
    BY <1>0, <2>4 DEF DurableInv
  <2>6. g[r].next = "announce" => Asked(gr.snap.turns, g[r].prompt)
    BY <1>0, <1>7, <1>9, <2>4 DEF DurableInv
  <2> HIDE DEF gr
  <2>7. g'[r] = gr
    BY <1>0, <2>1
  <2> QED
    BY <1>1, <1>2, <1>3, <1>7, <1>9, <2>1, <2>2, <2>3, <2>5, <2>6, <2>7, DurableSaves DEF Saving
<1>10. CASE OpenTemp(r)
  <2>1. /\ g'[r] = [g[r] EXCEPT !.pc = "write", !.fd = "tmp"] /\ tmp' = Empty /\ UNCHANGED disk
        /\ g[r].pc = "open"
    BY <1>0, <1>10 DEF OpenTemp, At
  <2>2. /\ g'[r].pc = "write" /\ g'[r].fd = "tmp" /\ g'[r].obj = g[r].obj
        /\ g'[r].next = g[r].next /\ g'[r].prompt = g[r].prompt /\ g'[r].snap = g[r].snap
    BY <1>0, <2>1 DEF Goroutine
  <2>3. SaverInv(r) /\ tmp'.st = "empty"
    BY <1>6, <2>1 DEF Saving, Empty
  <2> QED
    BY <1>1, <1>2, <1>3, <1>6, <2>1, <2>2, <2>3, DurableSaves DEF Saving, SaverInv
<1>11. CASE WriteTemp(r)
  <2>1. g'[r] = [g[r] EXCEPT !.pc = "verify", !.fd = "none"] /\ g[r].pc = "write"
    BY <1>0, <1>11 DEF WriteTemp, At
  <2>2. /\ g'[r].pc = "verify" /\ g'[r].obj = g[r].obj
        /\ g'[r].next = g[r].next /\ g'[r].prompt = g[r].prompt /\ g'[r].snap = g[r].snap
    BY <1>0, <2>1 DEF Goroutine
  <2>3. SaverInv(r) /\ g[r].fd = "tmp" /\ tmp.st = "empty"
    BY <1>6, <2>1 DEF Saving, SaverInv
  <2>4. tmp' = Full(g[r].snap) /\ UNCHANGED disk
    BY <1>11, <2>3 DEF WriteTemp, Written
  <2> QED
    BY <1>1, <1>2, <1>3, <1>6, <2>1, <2>2, <2>3, <2>4, DurableSaves DEF Saving, SaverInv
<1>12. CASE VerifyNotDeleted(r)
  <2>1. g[r].pc = "verify" /\ SaverInv(r)
    BY <1>6, <1>12 DEF VerifyNotDeleted, At, Saving
  <2>2. ~Mine(r).deleted
    BY <1>7, <2>1 DEF SaverInv
  <2>3. g'[r] = [g[r] EXCEPT !.pc = "commit"] /\ UNCHANGED <<disk, tmp>>
    BY <1>0, <1>12, <2>2 DEF VerifyNotDeleted, Goto
  <2>4. /\ g'[r].pc = "commit" /\ g'[r].obj = g[r].obj
        /\ g'[r].next = g[r].next /\ g'[r].prompt = g[r].prompt /\ g'[r].snap = g[r].snap
    BY <1>0, <2>3 DEF Goroutine
  <2>5. tmp' = Full(g'[r].snap)
    BY <2>1, <2>3, <2>4 DEF SaverInv
  <2> QED
    BY <1>1, <1>2, <1>3, <1>6, <2>1, <2>3, <2>4, <2>5, DurableSaves DEF Saving, SaverInv
<1>13. CASE CommitTemp(r)
  <2>1. g[r].pc = "commit" /\ SaverInv(r) /\ tmp = Full(g[r].snap)
    BY <1>6, <1>13 DEF CommitTemp, At, Saving, SaverInv
  <2>2. disk' = Full(g[r].snap)
    BY <1>13, <2>1 DEF CommitTemp, Full
  <2>3. g'[r] = Resumed(r)
    BY <1>0, <1>13 DEF CommitTemp, Moved
  <2>4. \A q \in Proc : g'[q].pc \notin Writing
    BY <1>2, <1>4, <1>5, <1>6, <2>1, <2>3 DEF SameWork, Saving
  <2>5. ASSUME NEW n \in Prompt, Owed(n)'
        PROVE  Asked(g[r].snap.turns, n) /\ Asked(heap[sess].turns, n)
    <3>1. CASE Owed(n)
      BY <1>0, <2>1, <3>1 DEF SaverInv, DurableInv
    <3>2. CASE ~Owed(n)
      <4>1. PICK q \in Proc : g'[q].pc = "announce" /\ g'[q].obj = sess' /\ g'[q].prompt = n
        BY <1>1, <2>5, <3>2 DEF Owed
      <4>2. q = r
        BY <1>1, <1>2, <3>2, <4>1 DEF Owed, SameWork
      <4>3. g[r].next = "announce" /\ g[r].prompt = n /\ g[r].obj = sess
        BY <1>1, <1>4, <2>3, <4>1, <4>2
      <4> QED
        BY <1>0, <2>1, <4>3 DEF SaverInv, DurableInv
    <3> QED
      BY <3>1, <3>2
  <2>6. \A n \in Prompt : Owed(n)' => OnDisk(n)' /\ Asked(heap'[sess'].turns, n)
    BY <1>1, <2>2, <2>5 DEF OnDisk, Asked, Full
  <2>7. \A q \in Proc : "announce" \in {g'[q].pc, g'[q].next} /\ g'[q].obj = sess'
                           => Asked(heap'[sess'].turns, g'[q].prompt)
    <3> SUFFICES ASSUME NEW q \in Proc, "announce" \in {g'[q].pc, g'[q].next},
                        g'[q].obj = sess'
                 PROVE  Asked(heap'[sess'].turns, g'[q].prompt)
      OBVIOUS
    <3>1. "announce" \in {g[q].pc, g[q].next} /\ g[q].obj = sess /\ g'[q].prompt = g[q].prompt
      BY <1>1, <1>2, <1>4, <2>3 DEF SameWork
    <3> QED
      BY <1>0, <1>1, <3>1 DEF DurableInv
  <2>8. acked' # {} => sess' # 0
    BY <1>0, <1>1 DEF DurableInv
  <2> QED
    BY <2>4, <2>6, <2>7, <2>8 DEF DurableInv, Asked, Writing
<1>14. CASE SaveFails(r)
  BY <1>14 DEF SaveFails, SavesComplete
<1> QED
  BY <1>8, <1>9, <1>10, <1>11, <1>12, <1>13, <1>14 DEF Persist

LEMMA DurableStop ==
  ASSUME HistoryInv, SavesComplete, [Next]_vars, ~Restart, CancelRoot \/ Sweep \/ Mark
  PROVE  DurableInv'
<1>0. WorkInv /\ TypeInv /\ g \in [Proc -> Goroutine] /\ Reaper \in Proc
  BY HistoryShape DEF HistoryInv, WorkInv, Proc
<1>1. Placed /\ \A o \in 1 .. used : Moves(heap[o], heap'[o])
  BY <1>0, HeapStep
<1>2. UNCHANGED <<sess, disk, tmp, acked>>
  BY DEF CancelRoot, Sweep, Mark
<1>3. /\ g'[Reaper].pc \notin Writing \cup {"announce"} /\ g'[Reaper].next = "idle"
      /\ \A q \in Proc \ {Reaper} : SameSaver(q)
  <2>1. CASE CancelRoot
    <3> DEFINE gr == [Idle EXCEPT !.pc = "sweep"]
    <3>1. g' = [g EXCEPT ![Reaper] = gr]
      BY <2>1 DEF CancelRoot
    <3>2. gr.pc = "sweep" /\ gr.next = "idle"
      BY DEF Idle
    <3> HIDE DEF gr
    <3> QED
      BY <1>0, <3>1, <3>2 DEF SameSaver, SameWork, Writing, Saving
  <2>2. CASE Sweep
    <3>1. g[Reaper].next = "idle"
      BY <1>0, <2>2 DEF Sweep, At, TypeInv, GoroutinesInv, Saving
    <3>2. /\ \A q \in Proc \ {Reaper} : g'[q] = g[q]
          /\ g'[Reaper] \in {Idle, [g[Reaper] EXCEPT !.pc = "mark", !.obj = sess]}
      BY <1>0, <2>2 DEF Sweep, Return
    <3>3. g'[Reaper].pc \in {"idle", "mark"} /\ g'[Reaper].next = "idle"
      <4>1. Idle.pc = "idle" /\ Idle.next = "idle"
        BY DEF Idle
      <4>2. /\ [g[Reaper] EXCEPT !.pc = "mark", !.obj = sess].pc = "mark"
            /\ [g[Reaper] EXCEPT !.pc = "mark", !.obj = sess].next = "idle"
        BY <1>0, <3>1 DEF Goroutine
      <4> QED
        BY <3>2, <4>1, <4>2
    <3> QED
      BY <3>2, <3>3 DEF SameSaver, SameWork, Writing, Saving
  <2>3. CASE Mark
    <3> DEFINE c == Mine(Reaper).cancel
    <3>1. c \in Proc \cup {None} /\ g[Reaper].next = "idle"
      <4>1. Mine(Reaper) \in Session
        BY <1>0, <2>3, MineType DEF Mark, At, Holding, Label
      <4>2. g[Reaper].next = "idle"
        BY <1>0, <2>3 DEF Mark, At, TypeInv, GoroutinesInv, Saving
      <4> QED
        BY <4>1, <4>2 DEF Session
    <3>2. g' = [Cancelled(g, c) EXCEPT ![Reaper].pc = "snapshot"]
      BY <2>3 DEF Mark
    <3> HIDE DEF c
    <3>3. /\ Cancelled(g, c) \in [Proc -> Goroutine]
          /\ \A q \in Proc : Cancelled(g, c)[q] \in {g[q], [g[q] EXCEPT !.cancelled = TRUE]}
      BY <1>0, <3>1, CancelledType DEF Cancelled
    <3>4. g'[Reaper].pc = "snapshot" /\ g'[Reaper].next = "idle"
      <4>1. g'[Reaper] = [Cancelled(g, c)[Reaper] EXCEPT !.pc = "snapshot"]
        BY <1>0, <3>2, <3>3
      <4>2. Cancelled(g, c)[Reaper].next = "idle"
        BY <1>0, <3>1, CancelledType
      <4> QED
        BY <1>0, <3>3, <4>1, <4>2 DEF Goroutine
    <3>5. ASSUME NEW q \in Proc \ {Reaper} PROVE SameSaver(q)
      <4>1. g'[q] \in {g[q], [g[q] EXCEPT !.cancelled = TRUE]} /\ g[q] \in Goroutine
        BY <1>0, <3>2, <3>3
      <4> QED
        BY <4>1 DEF SameSaver, SameWork, Goroutine
    <3> QED
      BY <3>4, <3>5 DEF Writing, Saving
  <2> QED
    BY <2>1, <2>2, <2>3
<1>4. \A q \in Proc : g'[q].pc \in Writing => SameSaver(q)
  BY <1>3
<1>5. \A q \in Proc : "announce" \in {g'[q].pc, g'[q].next} => SameWork(q)
  BY <1>3 DEF SameSaver
<1> QED
  BY <1>1, <1>2, <1>4, <1>5, DurableCalm

\* What a record holds of a turn is there after it was restored, and ended.
LEMMA RestoredAsked ==
  ASSUME NEW rec \in Record, NEW n, Asked(rec.turns, n)
  PROVE  \E i \in DOMAIN Restored(rec).turns : /\ Restored(rec).turns[i].prompt = n
                                              /\ ~IsLive(Restored(rec).turns[i])
<1>1. PICK i \in DOMAIN rec.turns : rec.turns[i].prompt = n
  BY DEF Asked
<1>2. rec.turns[i] \in Turn
  BY DEF Record
<1>3. DOMAIN Restored(rec).turns = DOMAIN rec.turns
      /\ Restored(rec).turns[i]
           = [rec.turns[i] EXCEPT !.st = IF @ = "running" THEN "interrupted" ELSE @]
  BY DEF Restored
<1>4. Restored(rec).turns[i].prompt = n
  BY <1>1, <1>2, <1>3 DEF Turn
<1>5. ~IsLive(Restored(rec).turns[i])
  BY <1>3, FreshObjects DEF Fresh
<1> QED
  BY <1>3, <1>4, <1>5

\* The next process finds on disk what was answered, and loads it.
LEMMA Reloaded ==
  ASSUME HistoryInv, SavesComplete, Restart, NEW n \in acked
  PROVE  /\ sess' = 1 /\ OnDisk(n)
         /\ \E i \in DOMAIN heap'[sess'].turns : /\ heap'[sess'].turns[i].prompt = n
                                                 /\ ~IsLive(heap'[sess'].turns[i])
<1>1. n \in Prompt /\ DurableInv
  BY HistoryShape DEF HistoryInv
<1>2. OnDisk(n)
  BY <1>1 DEF DurableInv, Owed
<1>3. disk.st = "full" /\ Asked(disk.rec.turns, n) /\ disk.rec \in Record
  BY <1>2 DEF OnDisk, Asked, HistoryInv, WorkInv, TypeInv, TypeOK, File
<1>4. 1 \in Obj
  BY BoundsAssumption DEF Restart, Obj
<1>5. sess' = 1 /\ heap'[1] = Restored(disk.rec)
  BY <1>3, <1>4 DEF Restart
<1> QED
  BY <1>2, <1>3, <1>5, RestoredAsked

LEMMA DurableRestart ==
  ASSUME HistoryInv, SavesComplete, Restart
  PROVE  DurableInv'
<1>1. \A q \in Proc : g'[q].pc = "idle" /\ g'[q].next = "idle"
  BY DEF Restart, Idle
<1>2. acked' = acked /\ disk' = disk
  BY DEF Restart
<1>3. \A n \in Prompt : Owed(n)' => n \in acked
  BY <1>1, <1>2 DEF Owed
<1>4. \A n \in acked : sess' = 1 /\ OnDisk(n)' /\ Asked(heap'[sess'].turns, n)
  BY <1>2, Reloaded DEF OnDisk, Asked
<1>5. \A n \in Prompt : Owed(n)' => OnDisk(n)' /\ Asked(heap'[sess'].turns, n)
  BY <1>3, <1>4
<1> QED
  BY <1>1, <1>2, <1>4, <1>5 DEF DurableInv, Writing, Saving, Asked

LEMMA DurableStep == HistoryInv /\ [Next]_vars => DurableInv'
<1> SUFFICES ASSUME HistoryInv, [Next]_vars, SavesComplete' PROVE DurableInv'
  BY DEF DurableInv
<1>1. SavesComplete
  BY OverlapStays
<1>2. CASE Restart
  BY <1>1, <1>2, DurableRestart
<1>3. CASE ~Restart
  <2>1. ASSUME NEW r \in Proc, Call(r) \/ Serve(r) PROVE DurableInv'
    <3>1. CASE Drop(r) /\ sess # 0
      BY <1>1, <3>1, DurableDrop
    <3>2. CASE Drop(r) /\ sess = 0
      <4>1. TypeInv /\ g \in [Proc -> Goroutine]
        BY DEF HistoryInv, WorkInv, TypeInv, TypeOK
      <4>2. Placed /\ \A o \in 1 .. used : Moves(heap[o], heap'[o])
        BY <3>2, MovesSame DEF Drop, Placed
      <4>3. g'[r] = Idle /\ \A q \in Proc \ {r} : g'[q] = g[q]
        BY <3>2, <4>1 DEF Drop, Return
      <4>4. UNCHANGED <<sess, disk, tmp, acked>>
        BY <3>2 DEF Drop
      <4>5. \A q \in Proc : \/ SameSaver(q) /\ SameWork(q)
                            \/ g'[q].pc = "idle" /\ g'[q].next = "idle"
        BY <4>3 DEF SameSaver, SameWork, Idle
      <4>6. \A q \in Proc : g'[q].pc \in Writing => SameSaver(q)
        BY <4>5 DEF Writing, Saving
      <4>7. \A q \in Proc : "announce" \in {g'[q].pc, g'[q].next} => SameWork(q)
        BY <4>5
      <4> QED
        BY <1>1, <4>2, <4>4, <4>6, <4>7, DurableCalm
    <3>3. CASE Unlink(r)
      BY <1>1, <3>3, DurableUnlink
    <3> QED
      BY <1>1, <1>3, <2>1, <3>1, <3>2, <3>3, DurableServe
  <2>2. ASSUME NEW r \in Proc, Persist(r) PROVE DurableInv'
    BY <1>1, <2>2, DurablePersist
  <2>3. CASE CancelRoot \/ Sweep \/ Mark
    BY <1>1, <1>3, <2>3, DurableStop
  <2>4. CASE UNCHANGED vars
    BY <2>4 DEF vars, DurableInv, HistoryInv, SavesComplete, SaverInv, Owed, OnDisk
  <2> QED
    BY <1>3, <2>1, <2>2, <2>3, <2>4 DEF Next
<1> QED
  BY <1>2, <1>3

LEMMA HistoryAlways == Spec => []HistoryInv
<1>1. Init => HistoryInv
  BY TypeInit, WorkInit, RemovalInit, LedgerInit, DurableInit DEF HistoryInv, WorkInv, RemovalInv
<1>2. HistoryInv /\ [Next]_vars => HistoryInv'
  BY WorkStep, RemovalStep, LedgerStep, DurableStep DEF HistoryInv
<1> QED
  BY <1>1, <1>2, PTL DEF Spec

\* As long as the disk works and no two saves or deletions of the session run
\* into each other, an input that was answered is on disk.
THEOREM AckedIsDurableAlways == Spec => []AckedIsDurable
<1>1. HistoryInv => AckedIsDurable
  <2> SUFFICES ASSUME HistoryInv, SavesComplete, NEW n \in acked PROVE OnDisk(n)
    BY DEF AckedIsDurable
  <2>1. n \in Prompt
    BY HistoryShape
  <2> QED
    BY <2>1 DEF HistoryInv, DurableInv, Owed
<1> QED
  BY <1>1, HistoryAlways, PTL

\* ... and a restart shows its turn, ended.
THEOREM RestartKeepsHistoryAlways == Spec => RestartKeepsHistory
<1>1. HistoryInv /\ [Next]_vars =>
        (restarts' # restarts /\ SavesComplete =>
           \A n \in acked : /\ sess' # 0
                            /\ \E i \in DOMAIN heap'[sess'].turns :
                                 /\ heap'[sess'].turns[i].prompt = n
                                 /\ ~IsLive(heap'[sess'].turns[i]))
  <2> SUFFICES ASSUME HistoryInv, [Next]_vars, restarts' # restarts, SavesComplete, NEW n \in acked
               PROVE  /\ sess' # 0
                      /\ \E i \in DOMAIN heap'[sess'].turns :
                           /\ heap'[sess'].turns[i].prompt = n
                           /\ ~IsLive(heap'[sess'].turns[i])
    OBVIOUS
  <2>1. Restart
    BY HeapStep DEF HistoryInv
  <2> QED
    BY <2>1, Reloaded
<1> QED
  BY <1>1, HistoryAlways, PTL DEF Spec, RestartKeepsHistory

=============================================================================
