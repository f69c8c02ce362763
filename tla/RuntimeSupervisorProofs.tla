---------------------- MODULE RuntimeSupervisorProofs ----------------------
(***************************************************************************)
(* The safety properties of RuntimeSupervisor, for every number of         *)
(* handlers, children and updates, follow from Inv, which every step       *)
(* preserves: one update at a time, which leaves s.child alone until it is *)
(* settled; a child that runs and is not s.child belongs to that update.   *)
(***************************************************************************)
EXTENDS RuntimeSupervisor, TLAPS

Inv == SupervisorTypeOK /\ SupervisorInv

\* What a step of h does to upd
Moved(h, label, next) ==
  /\ upd' \in [Handlers -> Update]
  /\ upd'[h].pc = label /\ upd'[h].prev = upd[h].prev
  /\ upd'[h].next = next /\ upd'[h].version = upd[h].version
  /\ \A k \in Handlers \ {h} : upd'[k] = upd[k]
  /\ \A k \in Handlers : upd'[k].pc # "idle" => upd'[k].prev # 0

\* h has the update in progress.
Owner(h) ==
  /\ upd[h].prev \in Child /\ upd[h].prev <= started
  /\ upd[h].next \in 0 .. MaxChildren /\ upd[h].next <= started
  /\ updating /\ upd[h].version = updates /\ updates \in Version
  /\ \A k \in Handlers : Active(k) => k = h
  /\ ~RunAt("boot")

\* What StartChild and StopChild do to the processes
Started(v) ==
  /\ started' = started + 1 /\ started' \in Child
  /\ proc' \in [Child -> Process]
  /\ proc'[started'] = [st |-> "up", ready |-> FALSE, exe |-> v]
  /\ \A c \in Child \ {started'} : proc'[c] = proc[c]

Stopped(c) ==
  /\ proc' \in [Child -> Process]
  /\ proc'[c].st = "gone"
  /\ \A d \in Child : proc'[d].ready = proc[d].ready /\ proc'[d].exe = proc[d].exe
  /\ \A d \in Child \ {c} : proc'[d] = proc[d]

-----------------------------------------------------------------------------
(* What the building blocks of the actions do *)

LEMMA UpdMoves ==
  ASSUME SupervisorTypeOK, NEW h \in Handlers, NEW label \in UpdLabel, UpdTo(h, label),
         upd[h].pc # "idle"
  PROVE  Moved(h, label, upd[h].next)
BY DEF Moved, SupervisorTypeOK, UpdTo, Update

LEMMA StartFacts ==
  ASSUME SupervisorTypeOK, NEW v \in Version, StartChild(v)
  PROVE  Started(v)
BY SupervisorAssumption DEF Started, SupervisorTypeOK, StartChild, Child, Process

LEMMA StopFacts ==
  ASSUME SupervisorTypeOK, NEW c \in Child, StopChild(c)
  PROVE  Stopped(c)
BY DEF Stopped, SupervisorTypeOK, StopChild, Process

\* Every reference is a number within bounds.
LEMMA Bounds ==
  ASSUME Inv
  PROVE  /\ MaxChildren \in Nat /\ started \in Nat /\ started <= MaxChildren
         /\ child \in Nat /\ run.cur \in Nat /\ updates \in Nat
         /\ child # 0 => child \in Child
         /\ run.cur # 0 => run.cur \in Child
         /\ \A h \in Handlers : upd[h].prev \in Nat /\ upd[h].next \in Nat
         /\ \A h \in Handlers : /\ upd[h].prev # 0 => upd[h].prev \in Child
                                /\ upd[h].next # 0 => upd[h].next \in Child
         /\ \A c \in Child : c \in Nat /\ c # 0 /\ proc[c].exe \in Nat
BY SupervisorAssumption DEF Inv, SupervisorTypeOK, Child, Version, Process, Update

\* The process that was started is nobody's yet.
LEMMA StartedIsNew ==
  ASSUME Inv, NEW v, Started(v)
  PROVE  /\ started' \in Nat /\ started' # 0 /\ started <= started'
         /\ started' # child /\ started' # run.cur /\ run.cur <= started' /\ child <= started'
         /\ \A h \in Handlers : /\ upd[h].prev # started' /\ upd[h].next # started'
                                /\ upd[h].prev <= started' /\ upd[h].next <= started'
         /\ \A c \in Child : c <= started' <=> (c <= started \/ c = started')
         /\ \A c \in Child : c <= started => proc'[c] = proc[c]
         /\ \A c \in Child \ {started'} : (Alive(c)' <=> Alive(c)) /\ (Gone(c)' <=> Gone(c))
         /\ proc'[started'].st = "up" /\ proc'[started'].exe = v
<1>1. NumberingInv
  BY DEF Inv, SupervisorInv
<1>2. started' = started + 1 /\ started \in Nat
  BY Bounds DEF Started
<1>3. \A n \in Nat : n <= started => n # started' /\ n <= started'
  BY <1>2
<1>4. \A n \in Nat : n <= started' <=> (n <= started \/ n = started')
  BY <1>2
<1>5. /\ child <= started /\ run.cur <= started /\ child \in Nat /\ run.cur \in Nat
      /\ \A h \in Handlers : upd[h].prev <= started /\ upd[h].next <= started
  BY <1>1, Bounds DEF NumberingInv
<1>6. \A c \in Child \ {started'} : (Alive(c)' <=> Alive(c)) /\ (Gone(c)' <=> Gone(c))
  BY DEF Started, Alive, Gone
<1>7. proc'[started'].st = "up" /\ proc'[started'].exe = v
  BY DEF Started, Alive
<1>8. \A c \in Child : c <= started => proc'[c] = proc[c]
  BY <1>3, Bounds DEF Started
<1>9. \A c \in Child : c <= started' <=> (c <= started \/ c = started')
  BY <1>4, Bounds
<1>10. \A h \in Handlers : /\ upd[h].prev # started' /\ upd[h].next # started'
                           /\ upd[h].prev <= started' /\ upd[h].next <= started'
  BY <1>3, <1>5, Bounds
<1> QED
  BY <1>2, <1>3, <1>5, <1>6, <1>7, <1>8, <1>9, <1>10

LEMMA ActiveFacts ==
  ASSUME Inv, NEW h \in Handlers, Active(h)
  PROVE  Owner(h)
BY DEF Owner, Inv, SupervisorInv, SupervisorTypeOK, NumberingInv, UpdateInv, Active, Update,
       Child

LEMMA InitInv == SupervisorInit => Inv
<1> SUFFICES ASSUME SupervisorInit PROVE Inv
  OBVIOUS
<1>1. /\ \A c \in Child : proc[c] = [st |-> "none", ready |-> FALSE, exe |-> 0]
      /\ \A h \in Handlers : upd[h] = NoUpdate
      /\ started = 0 /\ child = 0 /\ updates = 0 /\ status = "idle" /\ ~updating
      /\ run.pc = "boot" /\ run.cur = 0
  BY DEF SupervisorInit
<1>2. SupervisorTypeOK
  <2>1. proc \in [Child -> Process] /\ updates \in Version
    BY SupervisorAssumption DEF SupervisorInit, Process, Version
  <2>2. upd \in [Handlers -> Update] /\ \A h \in Handlers : upd[h].pc = "idle"
    BY SupervisorAssumption DEF SupervisorInit, NoUpdate, Update, UpdLabel, Version
  <2>3. run \in [pc : RunLabel, cur : 0 .. MaxChildren, res : {"none", "stopped", "error"}]
    BY SupervisorAssumption DEF SupervisorInit, RunLabel
  <2> QED
    BY <2>1, <2>2, <2>3, SupervisorAssumption DEF SupervisorInit, SupervisorTypeOK
<1>3. NumberingInv
  BY <1>1, SupervisorAssumption DEF NumberingInv, NoUpdate, RunAt, Child
<1>4. UpdateInv
  BY <1>1 DEF UpdateInv, NoUpdate, Active, NoCandidateYet, During, After, Alive
<1>5. VersionInv
  BY <1>1, SupervisorAssumption DEF VersionInv, NoUpdate, NoCandidateYet, During, After, Child
<1>6. RunInv /\ StatusIsTrue
  BY <1>1 DEF RunInv, WatchedChildIsGone, StatusIsTrue
<1> QED
  BY <1>2, <1>3, <1>4, <1>5, <1>6 DEF Inv, SupervisorInv

-----------------------------------------------------------------------------
(* The steps of an update *)

LEMMA PrepareFails ==
  ASSUME Inv, NEW h \in Handlers, Prepare(h), status' = "failed",
         UpdTo(h, "release")
  PROVE  Inv'
<1>1. /\ upd[h].pc = "prepare" /\ Active(h) /\ run.pc # "returned"
      /\ SupervisorTypeOK /\ SupervisorInv
  BY DEF Prepare, UpdAt, Running, RunAt, Active, Inv
<1>2. Owner(h)
  BY <1>1, ActiveFacts
<1>3. Moved(h, "release", upd[h].next)
  BY <1>1, UpdMoves DEF UpdLabel
<1>4. status' = "failed"
  OBVIOUS
<1>5. UNCHANGED <<proc, started, child, updating, shuttingDown, changed, signalled, run,
                 updates>>
  BY DEF Prepare
<1> USE DEF SupervisorInv
<1>11. SupervisorTypeOK'
  BY <1>1, <1>2, <1>3, <1>4, <1>5 DEF SupervisorTypeOK, Moved, Owner
<1>12. NumberingInv'
  BY <1>1, <1>2, <1>3, <1>4, <1>5
  DEF SupervisorTypeOK, NumberingInv, RunAt, Active, Moved, Owner
<1>13. UpdateInv'
  BY <1>1, <1>2, <1>3, <1>4, <1>5
  DEF SupervisorTypeOK, UpdateInv, NumberingInv, Active, NoCandidateYet, During, After, Gone,
      Alive, RunAt, Moved, Owner
<1>14. VersionInv'
  BY <1>1, <1>2, <1>3, <1>4, <1>5
  DEF SupervisorTypeOK, VersionInv, UpdateInv, NumberingInv, Active, NoCandidateYet, During,
      After, Gone, Alive, RunAt, Moved, Owner
<1>15. RunInv'
  BY <1>1, <1>2, <1>3, <1>4, <1>5
  DEF SupervisorTypeOK, RunInv, WatchedChildIsGone, NumberingInv, UpdateInv, Active,
      NoCandidateYet, During, After, Gone, Alive, RunAt, Moved, Owner
<1>16. StatusIsTrue'
  BY <1>1, <1>2, <1>3, <1>4, <1>5, Bounds
  DEF SupervisorTypeOK, StatusIsTrue, VersionInv, UpdateInv, NumberingInv, Active, NoCandidateYet,
      During, After, Gone, Alive, RunAt, Moved, Owner, Child
<1> QED
  BY <1>11, <1>12, <1>13, <1>14, <1>15, <1>16 DEF Inv, SupervisorInv

LEMMA PrepareSucceeds ==
  ASSUME Inv, NEW h \in Handlers, Prepare(h), status' = "switching",
         UpdTo(h, "switch")
  PROVE  Inv'
<1>1. /\ upd[h].pc = "prepare" /\ Active(h) /\ run.pc # "returned"
      /\ SupervisorTypeOK /\ SupervisorInv
  BY DEF Prepare, UpdAt, Running, RunAt, Active, Inv
<1>2. Owner(h)
  BY <1>1, ActiveFacts
<1>3. Moved(h, "switch", upd[h].next)
  BY <1>1, UpdMoves DEF UpdLabel
<1>4. status' = "switching"
  OBVIOUS
<1>5. UNCHANGED <<proc, started, child, updating, shuttingDown, changed, signalled, run,
                 updates>>
  BY DEF Prepare
<1> USE DEF SupervisorInv
<1>11. SupervisorTypeOK'
  BY <1>1, <1>2, <1>3, <1>4, <1>5 DEF SupervisorTypeOK, Moved, Owner
<1>12. NumberingInv'
  BY <1>1, <1>2, <1>3, <1>4, <1>5
  DEF SupervisorTypeOK, NumberingInv, RunAt, Active, Moved, Owner
<1>13. UpdateInv'
  BY <1>1, <1>2, <1>3, <1>4, <1>5
  DEF SupervisorTypeOK, UpdateInv, NumberingInv, Active, NoCandidateYet, During, After, Gone,
      Alive, RunAt, Moved, Owner
<1>14. VersionInv'
  BY <1>1, <1>2, <1>3, <1>4, <1>5
  DEF SupervisorTypeOK, VersionInv, UpdateInv, NumberingInv, Active, NoCandidateYet, During,
      After, Gone, Alive, RunAt, Moved, Owner
<1>15. RunInv'
  BY <1>1, <1>2, <1>3, <1>4, <1>5
  DEF SupervisorTypeOK, RunInv, WatchedChildIsGone, NumberingInv, UpdateInv, Active,
      NoCandidateYet, During, After, Gone, Alive, RunAt, Moved, Owner
<1>16. StatusIsTrue'
  BY <1>1, <1>2, <1>3, <1>4, <1>5
  DEF SupervisorTypeOK, StatusIsTrue, VersionInv, UpdateInv, NumberingInv, Active, NoCandidateYet,
      During, After, Gone, Alive, RunAt, Moved, Owner
<1> QED
  BY <1>11, <1>12, <1>13, <1>14, <1>15, <1>16 DEF Inv, SupervisorInv

LEMMA StopPreviousStep ==
  ASSUME Inv, NEW h \in Handlers, StopPrevious(h)
  PROVE  Inv'
<1>1. /\ upd[h].pc = "switch" /\ Active(h) /\ run.pc # "returned"
      /\ SupervisorTypeOK /\ SupervisorInv
  BY DEF StopPrevious, UpdAt, Running, RunAt, Active, Inv
<1>2. Owner(h)
  BY <1>1, ActiveFacts
<1>3. Moved(h, "start", upd[h].next)
  BY <1>1, UpdMoves DEF StopPrevious, UpdLabel
<1>4. Stopped(upd[h].prev)
  BY <1>1, <1>2, StopFacts DEF StopPrevious, Owner
<1>5. UNCHANGED <<started, child, updating, shuttingDown, status, changed, signalled,
                 run, updates>>
  BY DEF StopPrevious
<1> USE DEF SupervisorInv
<1>11. SupervisorTypeOK'
  BY <1>1, <1>2, <1>3, <1>4, <1>5 DEF SupervisorTypeOK, Moved, Owner, Stopped
<1>12. NumberingInv'
  BY <1>1, <1>2, <1>3, <1>4, <1>5
  DEF SupervisorTypeOK, NumberingInv, RunAt, Active, Moved, Owner, Stopped
<1>13. UpdateInv'
  BY <1>1, <1>2, <1>3, <1>4, <1>5
  DEF SupervisorTypeOK, UpdateInv, NumberingInv, Active, NoCandidateYet, During, After, Gone,
      Alive, RunAt, Moved, Owner, Stopped
<1>14. VersionInv'
  BY <1>1, <1>2, <1>3, <1>4, <1>5
  DEF SupervisorTypeOK, VersionInv, UpdateInv, NumberingInv, Active, NoCandidateYet, During,
      After, Gone, Alive, RunAt, Moved, Owner, Stopped
<1>15. RunInv'
  BY <1>1, <1>2, <1>3, <1>4, <1>5, Bounds
  DEF SupervisorTypeOK, RunInv, WatchedChildIsGone, NumberingInv, UpdateInv, Active,
      NoCandidateYet, During, After, Gone, Alive, RunAt, Moved, Owner, Stopped
<1>16. StatusIsTrue'
  BY <1>1, <1>2, <1>3, <1>4, <1>5
  DEF SupervisorTypeOK, StatusIsTrue, VersionInv, UpdateInv, NumberingInv, Active, NoCandidateYet,
      During, After, Gone, Alive, RunAt, Moved, Owner, Stopped
<1> QED
  BY <1>11, <1>12, <1>13, <1>14, <1>15, <1>16 DEF Inv, SupervisorInv

LEMMA CandidateStarts ==
  ASSUME Inv, NEW h \in Handlers, StartCandidate(h),
         StartChild(upd[h].version),
         upd' = [upd EXCEPT ![h].pc = "probe", ![h].next = started']
  PROVE  Inv'
<1>1. /\ upd[h].pc = "start" /\ Active(h) /\ run.pc # "returned"
      /\ SupervisorTypeOK /\ SupervisorInv
  BY DEF StartCandidate, UpdAt, Running, RunAt, Active, Inv
<1>2. Owner(h)
  BY <1>1, ActiveFacts
<1>4. Started(upd[h].version)
  BY <1>1, <1>2, StartFacts DEF Owner
<1>3. Moved(h, "probe", started')
  <2>1. started' \in 0 .. MaxChildren
    BY <1>4, SupervisorAssumption DEF Started, Child
  <2>2. upd' \in [Handlers -> Update]
    BY <1>1, <2>1 DEF SupervisorTypeOK, Update, UpdLabel
  <2> QED
    BY <1>1, <2>1, <2>2 DEF Moved, SupervisorTypeOK
<1>5. UNCHANGED <<child, updating, shuttingDown, status, changed, signalled, run,
                 updates>>
  BY DEF StartCandidate
<1> USE DEF SupervisorInv
<1>6. /\ started' \in Nat /\ started' # 0 /\ started' # child /\ started' # run.cur
      /\ run.cur <= started' /\ child <= started' /\ started' \in Child
      /\ \A k \in Handlers : /\ upd[k].prev # started' /\ upd[k].next # started'
                             /\ upd[k].prev <= started' /\ upd[k].next <= started'
      /\ \A c \in Child : c <= started' <=> (c <= started \/ c = started')
      /\ \A c \in Child : c <= started => proc'[c] = proc[c]
      /\ \A c \in Child \ {started'} : (Alive(c)' <=> Alive(c)) /\ (Gone(c)' <=> Gone(c))
      /\ proc'[started'].st = "up" /\ proc'[started'].exe = upd[h].version
  BY <1>4, StartedIsNew DEF Started
<1>7. \A k \in Handlers \ {h} : upd'[k] = upd[k] /\ upd[k].pc \in {"idle", "wake"}
  BY <1>2, <1>3 DEF Owner, Moved, Active
<1>11. SupervisorTypeOK'
  BY <1>1, <1>3, <1>4, <1>5, Bounds DEF SupervisorTypeOK, Moved, Started, Child
<1>12. NumberingInv'
  <2>1. \A c \in Child : proc'[c].st # "none" <=> c <= started'
    BY <1>1, <1>4, <1>6 DEF NumberingInv, Started, Alive
  <2>2. \A k \in Handlers : upd'[k].prev <= started' /\ upd'[k].next <= started'
    BY <1>3, <1>6 DEF Moved
  <2> QED
    BY <1>1, <1>2, <1>5, <1>6, <2>1, <2>2 DEF NumberingInv, Owner, RunAt
<1>13. UpdateInv'
  <2>1. \A k \in Handlers : Active(k)' => k = h
    BY <1>7 DEF Active
  <2>2. /\ upd'[h].prev = child /\ child # 0 /\ Gone(child)' /\ child \in Child
    <3>1. upd[h].prev = child /\ child # 0 /\ Gone(child)
      BY <1>1 DEF UpdateInv, NoCandidateYet, After
    <3> QED
      BY <1>3, <1>5, <1>6, <3>1, Bounds DEF Moved
  <2>3. \A c \in Child : Alive(c) => c = child
    BY <1>1, <1>7 DEF UpdateInv, During
  <2>4. \A c \in Child : Alive(c)' => c = child \/ c = started'
    BY <1>6, <2>3
  <2> QED
    BY <1>2, <1>3, <1>5, <1>7, <2>1, <2>2, <2>4
    DEF UpdateInv, Moved, Owner, Active, NoCandidateYet, During, After
<1>14. VersionInv'
  <2>1. /\ upd[h].version \in Nat /\ upd[h].version <= updates
        /\ child \in Child /\ child <= started
        /\ upd[h].prev = child /\ proc'[child] = proc[child]
    BY <1>1, <1>2, <1>6, Bounds
    DEF VersionInv, UpdateInv, NumberingInv, Owner, PreviousVersion, NoCandidateYet, During, After,
        Version
  <2>2. \A c \in Child : c <= started' => proc'[c].exe <= updates
    BY <1>1, <1>6, <2>1 DEF VersionInv
  <2>3. proc[child].exe < updates
    BY <1>1, <2>1 DEF VersionInv, NoCandidateYet, During, After
  <2> QED
    BY <1>1, <1>2, <1>3, <1>5, <1>6, <1>7, <2>1, <2>2, <2>3
    DEF VersionInv, Moved, Owner, PreviousVersion, NoCandidateYet, During, After
<1>15. RunInv'
  BY <1>1, <1>5, <1>6, Bounds DEF RunInv, WatchedChildIsGone
<1>16. StatusIsTrue'
  BY <1>1, <1>5, <1>6, Bounds DEF StatusIsTrue, NumberingInv
<1> QED
  BY <1>11, <1>12, <1>13, <1>14, <1>15, <1>16 DEF Inv, SupervisorInv

LEMMA CandidateFails ==
  ASSUME Inv, NEW h \in Handlers, StartCandidate(h), UpdTo(h, "report"),
         UNCHANGED <<proc, started>>
  PROVE  Inv'
<1>1. /\ upd[h].pc = "start" /\ Active(h) /\ run.pc # "returned"
      /\ SupervisorTypeOK /\ SupervisorInv
  BY DEF StartCandidate, UpdAt, Running, RunAt, Active, Inv
<1>2. Owner(h)
  BY <1>1, ActiveFacts
<1>3. Moved(h, "report", upd[h].next)
  BY <1>1, UpdMoves DEF UpdLabel
<1>4. UNCHANGED <<proc, started>>
  OBVIOUS
<1>5. UNCHANGED <<child, updating, shuttingDown, status, changed, signalled, run,
                 updates>>
  BY DEF StartCandidate
<1> USE DEF SupervisorInv
<1>11. SupervisorTypeOK'
  BY <1>1, <1>2, <1>3, <1>4, <1>5 DEF SupervisorTypeOK, Moved, Owner
<1>12. NumberingInv'
  BY <1>1, <1>2, <1>3, <1>4, <1>5
  DEF SupervisorTypeOK, NumberingInv, RunAt, Active, Moved, Owner
<1>13. UpdateInv'
  BY <1>1, <1>2, <1>3, <1>4, <1>5
  DEF SupervisorTypeOK, UpdateInv, NumberingInv, Active, NoCandidateYet, During, After, Gone,
      Alive, RunAt, Moved, Owner
<1>14. VersionInv'
  BY <1>1, <1>2, <1>3, <1>4, <1>5
  DEF SupervisorTypeOK, VersionInv, UpdateInv, NumberingInv, Active, NoCandidateYet, During,
      After, Gone, Alive, RunAt, Moved, Owner
<1>15. RunInv'
  BY <1>1, <1>2, <1>3, <1>4, <1>5
  DEF SupervisorTypeOK, RunInv, WatchedChildIsGone, NumberingInv, UpdateInv, Active,
      NoCandidateYet, During, After, Gone, Alive, RunAt, Moved, Owner
<1>16. StatusIsTrue'
  BY <1>1, <1>2, <1>3, <1>4, <1>5
  DEF SupervisorTypeOK, StatusIsTrue, VersionInv, UpdateInv, NumberingInv, Active, NoCandidateYet,
      During, After, Gone, Alive, RunAt, Moved, Owner
<1> QED
  BY <1>11, <1>12, <1>13, <1>14, <1>15, <1>16 DEF Inv, SupervisorInv

LEMMA ProbeCandidateStep ==
  ASSUME Inv, NEW h \in Handlers, ProbeCandidate(h)
  PROVE  Inv'
<1>1. /\ upd[h].pc = "probe" /\ Active(h) /\ run.pc # "returned"
      /\ SupervisorTypeOK /\ SupervisorInv
  BY DEF ProbeCandidate, UpdAt, Running, RunAt, Active, Inv
<1>2. Owner(h)
  BY <1>1, ActiveFacts
<1>3. Moved(h, "adopt", upd[h].next)
  BY <1>1, UpdMoves DEF ProbeCandidate, UpdLabel
<1>4. proc[upd[h].next].ready
  <2>1. PICK c \in Child : Alive(c) /\ proc[c].ready
    BY DEF ProbeCandidate, Answers
  <2>2. c # child
    BY <1>1, <2>1 DEF SupervisorInv, UpdateInv, During, Alive, Gone
  <2>3. PICK k \in Handlers : upd[k].pc \in During \cup {"settle"} /\ upd[k].next = c
    BY <1>1, <2>1, <2>2 DEF SupervisorInv, UpdateInv
  <2>4. k = h
    BY <1>2, <2>3 DEF Owner, Active, During
  <2> QED
    BY <2>1, <2>3, <2>4
<1>5. UNCHANGED <<proc, started, child, updating, shuttingDown, status, changed,
                 signalled, run, updates>>
  BY DEF ProbeCandidate
<1> USE DEF SupervisorInv
<1>11. SupervisorTypeOK'
  BY <1>1, <1>2, <1>3, <1>4, <1>5 DEF SupervisorTypeOK, Moved, Owner
<1>12. NumberingInv'
  BY <1>1, <1>2, <1>3, <1>4, <1>5
  DEF SupervisorTypeOK, NumberingInv, RunAt, Active, Moved, Owner
<1>13. UpdateInv'
  BY <1>1, <1>2, <1>3, <1>4, <1>5
  DEF SupervisorTypeOK, UpdateInv, NumberingInv, Active, NoCandidateYet, During, After, Gone,
      Alive, RunAt, Moved, Owner
<1>14. VersionInv'
  BY <1>1, <1>2, <1>3, <1>4, <1>5
  DEF SupervisorTypeOK, VersionInv, UpdateInv, NumberingInv, Active, NoCandidateYet, During,
      After, Gone, Alive, RunAt, Moved, Owner
<1>15. RunInv'
  BY <1>1, <1>2, <1>3, <1>4, <1>5
  DEF SupervisorTypeOK, RunInv, WatchedChildIsGone, NumberingInv, UpdateInv, Active,
      NoCandidateYet, During, After, Gone, Alive, RunAt, Moved, Owner
<1>16. StatusIsTrue'
  BY <1>1, <1>2, <1>3, <1>4, <1>5
  DEF SupervisorTypeOK, StatusIsTrue, VersionInv, UpdateInv, NumberingInv, Active, NoCandidateYet,
      During, After, Gone, Alive, RunAt, Moved, Owner
<1> QED
  BY <1>11, <1>12, <1>13, <1>14, <1>15, <1>16 DEF Inv, SupervisorInv

LEMMA RejectCandidateStep ==
  ASSUME Inv, NEW h \in Handlers, RejectCandidate(h)
  PROVE  Inv'
<1>1. /\ upd[h].pc = "probe" /\ Active(h) /\ run.pc # "returned"
      /\ SupervisorTypeOK /\ SupervisorInv
  BY DEF RejectCandidate, UpdAt, Running, RunAt, Active, Inv
<1>2. Owner(h)
  BY <1>1, ActiveFacts
<1>3. Moved(h, "undo", upd[h].next)
  BY <1>1, UpdMoves DEF RejectCandidate, UpdLabel
<1>5. UNCHANGED <<proc, started, child, updating, shuttingDown, status, changed,
                 signalled, run, updates>>
  BY DEF RejectCandidate
<1> USE DEF SupervisorInv
<1>11. SupervisorTypeOK'
  BY <1>1, <1>2, <1>3, <1>5 DEF SupervisorTypeOK, Moved, Owner
<1>12. NumberingInv'
  BY <1>1, <1>2, <1>3, <1>5
  DEF SupervisorTypeOK, NumberingInv, RunAt, Active, Moved, Owner
<1>13. UpdateInv'
  BY <1>1, <1>2, <1>3, <1>5
  DEF SupervisorTypeOK, UpdateInv, NumberingInv, Active, NoCandidateYet, During, After, Gone,
      Alive, RunAt, Moved, Owner
<1>14. VersionInv'
  BY <1>1, <1>2, <1>3, <1>5
  DEF SupervisorTypeOK, VersionInv, UpdateInv, NumberingInv, Active, NoCandidateYet, During,
      After, Gone, Alive, RunAt, Moved, Owner
<1>15. RunInv'
  BY <1>1, <1>2, <1>3, <1>5
  DEF SupervisorTypeOK, RunInv, WatchedChildIsGone, NumberingInv, UpdateInv, Active,
      NoCandidateYet, During, After, Gone, Alive, RunAt, Moved, Owner
<1>16. StatusIsTrue'
  BY <1>1, <1>2, <1>3, <1>5
  DEF SupervisorTypeOK, StatusIsTrue, VersionInv, UpdateInv, NumberingInv, Active, NoCandidateYet,
      During, After, Gone, Alive, RunAt, Moved, Owner
<1> QED
  BY <1>11, <1>12, <1>13, <1>14, <1>15, <1>16 DEF Inv, SupervisorInv

LEMMA StopCandidateStep ==
  ASSUME Inv, NEW h \in Handlers, StopCandidate(h)
  PROVE  Inv'
<1>1. /\ upd[h].pc = "undo" /\ Active(h) /\ run.pc # "returned"
      /\ SupervisorTypeOK /\ SupervisorInv
  BY DEF StopCandidate, UpdAt, Running, RunAt, Active, Inv
<1>2. Owner(h)
  BY <1>1, ActiveFacts
<1>3. Moved(h, "report", upd[h].next)
  BY <1>1, UpdMoves DEF StopCandidate, UpdLabel
<1>4. Stopped(upd[h].next)
  <2>1. upd[h].next \in Child
    BY <1>1, Bounds DEF VersionInv, SupervisorInv, During
  <2> QED
    BY <1>1, <2>1, StopFacts DEF StopCandidate
<1>5. UNCHANGED <<started, child, updating, shuttingDown, status, changed, signalled,
                 run, updates>>
  BY DEF StopCandidate
<1> USE DEF SupervisorInv
<1>11. SupervisorTypeOK'
  BY <1>1, <1>2, <1>3, <1>4, <1>5 DEF SupervisorTypeOK, Moved, Owner, Stopped
<1>12. NumberingInv'
  BY <1>1, <1>2, <1>3, <1>4, <1>5
  DEF SupervisorTypeOK, NumberingInv, RunAt, Active, Moved, Owner, Stopped
<1>13. UpdateInv'
  BY <1>1, <1>2, <1>3, <1>4, <1>5
  DEF SupervisorTypeOK, UpdateInv, NumberingInv, Active, NoCandidateYet, During, After, Gone,
      Alive, RunAt, Moved, Owner, Stopped
<1>14. VersionInv'
  BY <1>1, <1>2, <1>3, <1>4, <1>5
  DEF SupervisorTypeOK, VersionInv, UpdateInv, NumberingInv, Active, NoCandidateYet, During,
      After, Gone, Alive, RunAt, Moved, Owner, Stopped
<1>15. RunInv'
  BY <1>1, <1>2, <1>3, <1>4, <1>5, Bounds
  DEF SupervisorTypeOK, RunInv, WatchedChildIsGone, NumberingInv, UpdateInv, Active,
      NoCandidateYet, During, After, Gone, Alive, RunAt, Moved, Owner, Stopped
<1>16. StatusIsTrue'
  BY <1>1, <1>2, <1>3, <1>4, <1>5
  DEF SupervisorTypeOK, StatusIsTrue, VersionInv, UpdateInv, NumberingInv, Active, NoCandidateYet,
      During, After, Gone, Alive, RunAt, Moved, Owner, Stopped
<1> QED
  BY <1>11, <1>12, <1>13, <1>14, <1>15, <1>16 DEF Inv, SupervisorInv

LEMMA SwitchChildStep ==
  ASSUME Inv, NEW h \in Handlers, SwitchChild(h)
  PROVE  Inv'
<1>1. /\ upd[h].pc = "adopt" /\ Active(h) /\ run.pc # "returned"
      /\ SupervisorTypeOK /\ SupervisorInv
  BY DEF SwitchChild, UpdAt, Running, RunAt, Active, Inv
<1>2. Owner(h)
  BY <1>1, ActiveFacts
<1>3. Moved(h, "complete", upd[h].next)
  BY <1>1, UpdMoves DEF SwitchChild, UpdLabel
<1>4. child' = upd[h].next /\ upd[h].next \in Child
  BY <1>1, Bounds DEF SwitchChild, VersionInv, SupervisorInv, During
<1>5. UNCHANGED <<proc, started, updating, shuttingDown, status, changed, signalled,
                 run, updates>>
  BY DEF SwitchChild
<1> USE DEF SupervisorInv
<1>11. SupervisorTypeOK'
  BY <1>1, <1>2, <1>3, <1>4, <1>5 DEF SupervisorTypeOK, Moved, Owner
<1>12. NumberingInv'
  BY <1>1, <1>2, <1>3, <1>4, <1>5
  DEF SupervisorTypeOK, NumberingInv, RunAt, Active, Moved, Owner
<1>13. UpdateInv'
  BY <1>1, <1>2, <1>3, <1>4, <1>5
  DEF SupervisorTypeOK, UpdateInv, NumberingInv, Active, NoCandidateYet, During, After, Gone,
      Alive, RunAt, Moved, Owner
<1>14. VersionInv'
  BY <1>1, <1>2, <1>3, <1>4, <1>5
  DEF SupervisorTypeOK, VersionInv, UpdateInv, NumberingInv, Active, NoCandidateYet, During,
      After, Gone, Alive, RunAt, Moved, Owner
<1>15. RunInv'
  BY <1>1, <1>2, <1>3, <1>4, <1>5, Bounds
  DEF SupervisorTypeOK, RunInv, WatchedChildIsGone, NumberingInv, UpdateInv, Active,
      NoCandidateYet, During, After, Gone, Alive, RunAt, Moved, Owner
<1>16. StatusIsTrue'
  BY <1>1, <1>2, <1>3, <1>4, <1>5
  DEF SupervisorTypeOK, StatusIsTrue, VersionInv, UpdateInv, NumberingInv, Active, NoCandidateYet,
      During, After, Gone, Alive, RunAt, Moved, Owner
<1> QED
  BY <1>11, <1>12, <1>13, <1>14, <1>15, <1>16 DEF Inv, SupervisorInv

LEMMA CompleteStep ==
  ASSUME Inv, NEW h \in Handlers, Complete(h)
  PROVE  Inv'
<1>1. /\ upd[h].pc = "complete" /\ Active(h) /\ run.pc # "returned"
      /\ SupervisorTypeOK /\ SupervisorInv
  BY DEF Complete, UpdAt, Running, RunAt, Active, Inv
<1>2. Owner(h)
  BY <1>1, ActiveFacts
<1>3. Moved(h, "release", upd[h].next)
  BY <1>1, UpdMoves DEF Complete, UpdLabel
<1>4. changed' = TRUE /\ status' = "completed"
  BY DEF Complete
<1>5. UNCHANGED <<proc, started, child, updating, shuttingDown, signalled, run, updates>>
  BY DEF Complete
<1> USE DEF SupervisorInv
<1>11. SupervisorTypeOK'
  BY <1>1, <1>2, <1>3, <1>4, <1>5 DEF SupervisorTypeOK, Moved, Owner
<1>12. NumberingInv'
  BY <1>1, <1>2, <1>3, <1>4, <1>5
  DEF SupervisorTypeOK, NumberingInv, RunAt, Active, Moved, Owner
<1>13. UpdateInv'
  BY <1>1, <1>2, <1>3, <1>4, <1>5
  DEF SupervisorTypeOK, UpdateInv, NumberingInv, Active, NoCandidateYet, During, After, Gone,
      Alive, RunAt, Moved, Owner
<1>14. VersionInv'
  BY <1>1, <1>2, <1>3, <1>4, <1>5
  DEF SupervisorTypeOK, VersionInv, UpdateInv, NumberingInv, Active, NoCandidateYet, During,
      After, Gone, Alive, RunAt, Moved, Owner
<1>15. RunInv'
  BY <1>1, <1>2, <1>3, <1>4, <1>5
  DEF SupervisorTypeOK, RunInv, WatchedChildIsGone, NumberingInv, UpdateInv, Active,
      NoCandidateYet, During, After, Gone, Alive, RunAt, Moved, Owner
<1>16. StatusIsTrue'
  BY <1>1, <1>2, <1>3, <1>4, <1>5
  DEF SupervisorTypeOK, StatusIsTrue, VersionInv, UpdateInv, NumberingInv, Active, NoCandidateYet,
      During, After, Gone, Alive, RunAt, Moved, Owner
<1> QED
  BY <1>11, <1>12, <1>13, <1>14, <1>15, <1>16 DEF Inv, SupervisorInv

LEMMA ReportFailureStep ==
  ASSUME Inv, NEW h \in Handlers, ReportFailure(h)
  PROVE  Inv'
<1>1. /\ upd[h].pc = "report" /\ Active(h) /\ run.pc # "returned"
      /\ SupervisorTypeOK /\ SupervisorInv
  BY DEF ReportFailure, UpdAt, Running, RunAt, Active, Inv
<1>2. Owner(h)
  BY <1>1, ActiveFacts
<1>3. Moved(h, "restore", upd[h].next)
  BY <1>1, UpdMoves DEF ReportFailure, UpdLabel
<1>4. status' = "failed"
  BY DEF ReportFailure
<1>5. UNCHANGED <<proc, started, child, updating, shuttingDown, changed, signalled, run,
                 updates>>
  BY DEF ReportFailure
<1> USE DEF SupervisorInv
<1>11. SupervisorTypeOK'
  BY <1>1, <1>2, <1>3, <1>4, <1>5 DEF SupervisorTypeOK, Moved, Owner
<1>12. NumberingInv'
  BY <1>1, <1>2, <1>3, <1>4, <1>5
  DEF SupervisorTypeOK, NumberingInv, RunAt, Active, Moved, Owner
<1>13. UpdateInv'
  BY <1>1, <1>2, <1>3, <1>4, <1>5
  DEF SupervisorTypeOK, UpdateInv, NumberingInv, Active, NoCandidateYet, During, After, Gone,
      Alive, RunAt, Moved, Owner
<1>14. VersionInv'
  BY <1>1, <1>2, <1>3, <1>4, <1>5
  DEF SupervisorTypeOK, VersionInv, UpdateInv, NumberingInv, Active, NoCandidateYet, During,
      After, Gone, Alive, RunAt, Moved, Owner
<1>15. RunInv'
  BY <1>1, <1>2, <1>3, <1>4, <1>5
  DEF SupervisorTypeOK, RunInv, WatchedChildIsGone, NumberingInv, UpdateInv, Active,
      NoCandidateYet, During, After, Gone, Alive, RunAt, Moved, Owner
<1>16. StatusIsTrue'
  BY <1>1, <1>2, <1>3, <1>4, <1>5, Bounds
  DEF SupervisorTypeOK, StatusIsTrue, VersionInv, UpdateInv, NumberingInv, Active, NoCandidateYet,
      During, After, Gone, Alive, RunAt, Moved, Owner
<1> QED
  BY <1>11, <1>12, <1>13, <1>14, <1>15, <1>16 DEF Inv, SupervisorInv

LEMMA PreviousStarts ==
  ASSUME Inv, NEW h \in Handlers, RestorePrevious(h),
         StartChild(PreviousVersion(h)), UNCHANGED child,
         upd' = [upd EXCEPT ![h].pc = "settle", ![h].next = started']
  PROVE  Inv'
<1>1. /\ upd[h].pc = "restore" /\ Active(h) /\ run.pc # "returned"
      /\ SupervisorTypeOK /\ SupervisorInv
  BY DEF RestorePrevious, UpdAt, Running, RunAt, Active, Inv
<1>2. Owner(h)
  BY <1>1, ActiveFacts
<1>4. Started(PreviousVersion(h))
  <2>1. PreviousVersion(h) \in Version
    BY <1>1, <1>2 DEF PreviousVersion, Owner, SupervisorTypeOK, Process
  <2> QED
    BY <1>1, <2>1, StartFacts
<1>3. Moved(h, "settle", started')
  <2>1. started' \in 0 .. MaxChildren
    BY <1>4, SupervisorAssumption DEF Started, Child
  <2>2. upd' \in [Handlers -> Update]
    BY <1>1, <2>1 DEF SupervisorTypeOK, Update, UpdLabel
  <2> QED
    BY <1>1, <2>1, <2>2 DEF Moved, SupervisorTypeOK
<1>5. UNCHANGED <<child, updating, shuttingDown, status, changed, signalled, run,
                 updates>>
  BY DEF RestorePrevious
<1> USE DEF SupervisorInv
<1>6. /\ started' \in Nat /\ started' # 0 /\ started' # child /\ started' # run.cur
      /\ run.cur <= started' /\ child <= started' /\ started' \in Child
      /\ \A k \in Handlers : /\ upd[k].prev # started' /\ upd[k].next # started'
                             /\ upd[k].prev <= started' /\ upd[k].next <= started'
      /\ \A c \in Child : c <= started' <=> (c <= started \/ c = started')
      /\ \A c \in Child : c <= started => proc'[c] = proc[c]
      /\ \A c \in Child \ {started'} : (Alive(c)' <=> Alive(c)) /\ (Gone(c)' <=> Gone(c))
      /\ proc'[started'].st = "up" /\ proc'[started'].exe = PreviousVersion(h)
  BY <1>4, StartedIsNew DEF Started
<1>7. \A k \in Handlers \ {h} : upd'[k] = upd[k] /\ upd[k].pc \in {"idle", "wake"}
  BY <1>2, <1>3 DEF Owner, Moved, Active
<1>11. SupervisorTypeOK'
  BY <1>1, <1>3, <1>4, <1>5, Bounds DEF SupervisorTypeOK, Moved, Started, Child
<1>12. NumberingInv'
  <2>1. \A c \in Child : proc'[c].st # "none" <=> c <= started'
    BY <1>1, <1>4, <1>6 DEF NumberingInv, Started, Alive
  <2>2. \A k \in Handlers : upd'[k].prev <= started' /\ upd'[k].next <= started'
    BY <1>3, <1>6 DEF Moved
  <2> QED
    BY <1>1, <1>2, <1>5, <1>6, <2>1, <2>2 DEF NumberingInv, Owner, RunAt
<1>13. UpdateInv'
  <2>1. \A k \in Handlers : Active(k)' => k = h
    BY <1>7 DEF Active
  <2>2. /\ upd'[h].prev = child /\ child # 0 /\ Gone(child)' /\ child \in Child
    <3>1. upd[h].prev = child /\ child # 0 /\ Gone(child)
      BY <1>1 DEF UpdateInv, NoCandidateYet, After
    <3> QED
      BY <1>3, <1>5, <1>6, <3>1, Bounds DEF Moved
  <2>3. \A c \in Child : Alive(c) => c = child
    BY <1>1, <1>7 DEF UpdateInv, During
  <2>4. \A c \in Child : Alive(c)' => c = child \/ c = started'
    BY <1>6, <2>3
  <2> QED
    BY <1>2, <1>3, <1>5, <1>7, <2>1, <2>2, <2>4
    DEF UpdateInv, Moved, Owner, Active, NoCandidateYet, During, After
<1>14. VersionInv'
  <2>1. /\ PreviousVersion(h) \in Nat /\ PreviousVersion(h) <= updates
        /\ child \in Child /\ child <= started
        /\ upd[h].prev = child /\ proc'[child] = proc[child]
    BY <1>1, <1>2, <1>6, Bounds
    DEF VersionInv, UpdateInv, NumberingInv, Owner, PreviousVersion, NoCandidateYet, During, After,
        Version
  <2>2. \A c \in Child : c <= started' => proc'[c].exe <= updates
    BY <1>1, <1>6, <2>1 DEF VersionInv
  <2>3. proc[child].exe < updates
    BY <1>1, <2>1 DEF VersionInv, NoCandidateYet, During, After
  <2> QED
    BY <1>1, <1>2, <1>3, <1>5, <1>6, <1>7, <2>1, <2>2, <2>3
    DEF VersionInv, Moved, Owner, PreviousVersion, NoCandidateYet, During, After
<1>15. RunInv'
  BY <1>1, <1>5, <1>6, Bounds DEF RunInv, WatchedChildIsGone
<1>16. StatusIsTrue'
  BY <1>1, <1>5, <1>6, Bounds DEF StatusIsTrue, NumberingInv
<1> QED
  BY <1>11, <1>12, <1>13, <1>14, <1>15, <1>16 DEF Inv, SupervisorInv

LEMMA PreviousFails ==
  ASSUME Inv, NEW h \in Handlers, RestorePrevious(h), child' = 0,
         UpdTo(h, "notify"), UNCHANGED <<proc, started>>
  PROVE  Inv'
<1>1. /\ upd[h].pc = "restore" /\ Active(h) /\ run.pc # "returned"
      /\ SupervisorTypeOK /\ SupervisorInv
  BY DEF RestorePrevious, UpdAt, Running, RunAt, Active, Inv
<1>2. Owner(h)
  BY <1>1, ActiveFacts
<1>3. Moved(h, "notify", upd[h].next)
  BY <1>1, UpdMoves DEF UpdLabel
<1>4. child' = 0 /\ UNCHANGED <<proc, started>>
  OBVIOUS
<1>5. UNCHANGED <<updating, shuttingDown, status, changed, signalled, run, updates>>
  BY DEF RestorePrevious
<1> USE DEF SupervisorInv
<1>11. SupervisorTypeOK'
  BY <1>1, <1>2, <1>3, <1>4, <1>5, SupervisorAssumption
  DEF SupervisorTypeOK, Moved, Owner
<1>12. NumberingInv'
  BY <1>1, <1>2, <1>3, <1>4, <1>5
  DEF SupervisorTypeOK, NumberingInv, RunAt, Active, Moved, Owner
<1>13. UpdateInv'
  BY <1>1, <1>2, <1>3, <1>4, <1>5
  DEF SupervisorTypeOK, UpdateInv, NumberingInv, Active, NoCandidateYet, During, After, Gone,
      Alive, RunAt, Moved, Owner
<1>14. VersionInv'
  BY <1>1, <1>2, <1>3, <1>4, <1>5
  DEF SupervisorTypeOK, VersionInv, UpdateInv, NumberingInv, Active, NoCandidateYet, During,
      After, Gone, Alive, RunAt, Moved, Owner
<1>15. RunInv'
  BY <1>1, <1>2, <1>3, <1>4, <1>5, Bounds
  DEF SupervisorTypeOK, RunInv, WatchedChildIsGone, NumberingInv, UpdateInv, Active,
      NoCandidateYet, During, After, Gone, Alive, RunAt, Moved, Owner
<1>16. StatusIsTrue'
  BY <1>1, <1>2, <1>3, <1>4, <1>5
  DEF SupervisorTypeOK, StatusIsTrue, VersionInv, UpdateInv, NumberingInv, Active, NoCandidateYet,
      During, After, Gone, Alive, RunAt, Moved, Owner
<1> QED
  BY <1>11, <1>12, <1>13, <1>14, <1>15, <1>16 DEF Inv, SupervisorInv

LEMMA SettleStep ==
  ASSUME Inv, NEW h \in Handlers, Settle(h)
  PROVE  Inv'
<1>1. /\ upd[h].pc = "settle" /\ Active(h) /\ run.pc # "returned"
      /\ SupervisorTypeOK /\ SupervisorInv
  BY DEF Settle, UpdAt, Running, RunAt, Active, Inv
<1>2. Owner(h)
  BY <1>1, ActiveFacts
<1>3. Moved(h, "notify", upd[h].next)
  BY <1>1, UpdMoves DEF Settle, UpdLabel
<1>4. child' = upd[h].next /\ upd[h].next \in Child
  BY <1>1, Bounds DEF Settle, VersionInv, SupervisorInv
<1>5. UNCHANGED <<proc, started, updating, shuttingDown, status, changed, signalled,
                 run, updates>>
  BY DEF Settle
<1> USE DEF SupervisorInv
<1>11. SupervisorTypeOK'
  BY <1>1, <1>2, <1>3, <1>4, <1>5 DEF SupervisorTypeOK, Moved, Owner
<1>12. NumberingInv'
  BY <1>1, <1>2, <1>3, <1>4, <1>5
  DEF SupervisorTypeOK, NumberingInv, RunAt, Active, Moved, Owner
<1>13. UpdateInv'
  BY <1>1, <1>2, <1>3, <1>4, <1>5
  DEF SupervisorTypeOK, UpdateInv, NumberingInv, Active, NoCandidateYet, During, After, Gone,
      Alive, RunAt, Moved, Owner
<1>14. VersionInv'
  BY <1>1, <1>2, <1>3, <1>4, <1>5
  DEF SupervisorTypeOK, VersionInv, UpdateInv, NumberingInv, Active, NoCandidateYet, During,
      After, Gone, Alive, RunAt, Moved, Owner
<1>15. RunInv'
  BY <1>1, <1>2, <1>3, <1>4, <1>5, Bounds
  DEF SupervisorTypeOK, RunInv, WatchedChildIsGone, NumberingInv, UpdateInv, Active,
      NoCandidateYet, During, After, Gone, Alive, RunAt, Moved, Owner
<1>16. StatusIsTrue'
  BY <1>1, <1>2, <1>3, <1>4, <1>5, Bounds
  DEF SupervisorTypeOK, StatusIsTrue, VersionInv, UpdateInv, NumberingInv, Active, NoCandidateYet,
      During, After, Gone, Alive, RunAt, Moved, Owner
<1> QED
  BY <1>11, <1>12, <1>13, <1>14, <1>15, <1>16 DEF Inv, SupervisorInv

LEMMA NotifyStep ==
  ASSUME Inv, NEW h \in Handlers, Notify(h)
  PROVE  Inv'
<1>1. /\ upd[h].pc = "notify" /\ Active(h) /\ run.pc # "returned"
      /\ SupervisorTypeOK /\ SupervisorInv
  BY DEF Notify, UpdAt, Running, RunAt, Active, Inv
<1>2. Owner(h)
  BY <1>1, ActiveFacts
<1>3. Moved(h, "release", upd[h].next)
  BY <1>1, UpdMoves DEF Notify, UpdLabel
<1>4. changed' = TRUE
  BY DEF Notify
<1>5. UNCHANGED <<proc, started, child, updating, shuttingDown, status, signalled, run,
                 updates>>
  BY DEF Notify
<1> USE DEF SupervisorInv
<1>11. SupervisorTypeOK'
  BY <1>1, <1>2, <1>3, <1>4, <1>5 DEF SupervisorTypeOK, Moved, Owner
<1>12. NumberingInv'
  BY <1>1, <1>2, <1>3, <1>4, <1>5
  DEF SupervisorTypeOK, NumberingInv, RunAt, Active, Moved, Owner
<1>13. UpdateInv'
  BY <1>1, <1>2, <1>3, <1>4, <1>5
  DEF SupervisorTypeOK, UpdateInv, NumberingInv, Active, NoCandidateYet, During, After, Gone,
      Alive, RunAt, Moved, Owner
<1>14. VersionInv'
  BY <1>1, <1>2, <1>3, <1>4, <1>5
  DEF SupervisorTypeOK, VersionInv, UpdateInv, NumberingInv, Active, NoCandidateYet, During,
      After, Gone, Alive, RunAt, Moved, Owner
<1>15. RunInv'
  BY <1>1, <1>2, <1>3, <1>4, <1>5
  DEF SupervisorTypeOK, RunInv, WatchedChildIsGone, NumberingInv, UpdateInv, Active,
      NoCandidateYet, During, After, Gone, Alive, RunAt, Moved, Owner
<1>16. StatusIsTrue'
  BY <1>1, <1>2, <1>3, <1>4, <1>5
  DEF SupervisorTypeOK, StatusIsTrue, VersionInv, UpdateInv, NumberingInv, Active, NoCandidateYet,
      During, After, Gone, Alive, RunAt, Moved, Owner
<1> QED
  BY <1>11, <1>12, <1>13, <1>14, <1>15, <1>16 DEF Inv, SupervisorInv

LEMMA ReleaseStep ==
  ASSUME Inv, NEW h \in Handlers, Release(h)
  PROVE  Inv'
<1>1. /\ upd[h].pc = "release" /\ Active(h) /\ run.pc # "returned"
      /\ SupervisorTypeOK /\ SupervisorInv
  BY DEF Release, UpdAt, Running, RunAt, Active, Inv
<1>2. Owner(h)
  BY <1>1, ActiveFacts
<1>3. Moved(h, "wake", upd[h].next)
  BY <1>1, UpdMoves DEF Release, UpdLabel
<1>4. updating' = FALSE
  BY DEF Release
<1>5. UNCHANGED <<proc, started, child, shuttingDown, status, changed, signalled, run,
                 updates>>
  BY DEF Release
<1> USE DEF SupervisorInv
<1>11. SupervisorTypeOK'
  BY <1>1, <1>2, <1>3, <1>4, <1>5 DEF SupervisorTypeOK, Moved, Owner
<1>12. NumberingInv'
  BY <1>1, <1>2, <1>3, <1>4, <1>5
  DEF SupervisorTypeOK, NumberingInv, RunAt, Active, Moved, Owner
<1>13. UpdateInv'
  BY <1>1, <1>2, <1>3, <1>4, <1>5
  DEF SupervisorTypeOK, UpdateInv, NumberingInv, Active, NoCandidateYet, During, After, Gone,
      Alive, RunAt, Moved, Owner
<1>14. VersionInv'
  BY <1>1, <1>2, <1>3, <1>4, <1>5
  DEF SupervisorTypeOK, VersionInv, UpdateInv, NumberingInv, Active, NoCandidateYet, During,
      After, Gone, Alive, RunAt, Moved, Owner
<1>15. RunInv'
  BY <1>1, <1>2, <1>3, <1>4, <1>5
  DEF SupervisorTypeOK, RunInv, WatchedChildIsGone, NumberingInv, UpdateInv, Active,
      NoCandidateYet, During, After, Gone, Alive, RunAt, Moved, Owner
<1>16. StatusIsTrue'
  BY <1>1, <1>2, <1>3, <1>4, <1>5
  DEF SupervisorTypeOK, StatusIsTrue, VersionInv, UpdateInv, NumberingInv, Active, NoCandidateYet,
      During, After, Gone, Alive, RunAt, Moved, Owner
<1> QED
  BY <1>11, <1>12, <1>13, <1>14, <1>15, <1>16 DEF Inv, SupervisorInv

LEMMA WakeStep ==
  ASSUME Inv, NEW h \in Handlers, Wake(h)
  PROVE  Inv'
<1>1. upd[h].pc = "wake" /\ SupervisorTypeOK /\ SupervisorInv /\ ~RunAt("boot")
  BY DEF Wake, UpdAt, Inv, SupervisorInv, NumberingInv
<1>2. /\ upd' \in [Handlers -> Update]
      /\ upd'[h].pc = "idle" /\ upd'[h].prev = 0 /\ upd'[h].next = 0
      /\ \A k \in Handlers \ {h} : upd'[k] = upd[k]
      /\ \A k \in Handlers : Active(k)' => k # h /\ Active(k)
  BY <1>1, SupervisorAssumption
  DEF Wake, NoUpdate, SupervisorTypeOK, Update, UpdLabel, Version, Active
<1>3. /\ changed' = TRUE
      /\ UNCHANGED <<proc, started, child, updating, shuttingDown, status, signalled,
                     run, updates>>
  BY DEF Wake
<1> USE DEF SupervisorInv
<1>11. SupervisorTypeOK'
  BY <1>1, <1>2, <1>3, SupervisorAssumption DEF SupervisorTypeOK
<1>12. NumberingInv'
  BY <1>1, <1>2, <1>3, SupervisorAssumption
  DEF SupervisorTypeOK, NumberingInv, RunAt, Active
<1>13. UpdateInv'
  BY <1>1, <1>2, <1>3, SupervisorAssumption
  DEF SupervisorTypeOK, UpdateInv, NumberingInv, Active, NoCandidateYet, During, After, Gone,
      Alive, RunAt
<1>14. VersionInv'
  BY <1>1, <1>2, <1>3, SupervisorAssumption
  DEF SupervisorTypeOK, VersionInv, UpdateInv, NumberingInv, Active, NoCandidateYet, During,
      After, Gone, Alive, RunAt
<1>15. RunInv'
  BY <1>1, <1>2, <1>3, SupervisorAssumption
  DEF SupervisorTypeOK, RunInv, WatchedChildIsGone, NumberingInv, UpdateInv, Active,
      NoCandidateYet, During, After, Gone, Alive, RunAt
<1>16. StatusIsTrue'
  BY <1>1, <1>2, <1>3, SupervisorAssumption
  DEF SupervisorTypeOK, StatusIsTrue, VersionInv, UpdateInv, NumberingInv, Active, NoCandidateYet,
      During, After, Gone, Alive, RunAt
<1> QED
  BY <1>11, <1>12, <1>13, <1>14, <1>15, <1>16 DEF Inv, SupervisorInv

LEMMA RequestRestartStep ==
  ASSUME Inv, NEW h \in Handlers, RequestRestart(h)
  PROVE  Inv'
<1>1. /\ upd[h].pc = "idle" /\ SupervisorTypeOK /\ SupervisorInv /\ run.pc # "returned"
      /\ ~updating /\ child \in Child /\ child # 0 /\ child <= started /\ ~RunAt("boot")
  BY Bounds
  DEF RequestRestart, UpdAt, MayUpdate, Inv, SupervisorInv, NumberingInv, RunAt, Running
<1>2. \A k \in Handlers : ~Active(k)
  BY <1>1 DEF SupervisorInv, UpdateInv
<1>3. /\ upd' \in [Handlers -> Update]
      /\ upd'[h].pc = "prepare" /\ upd'[h].prev = child /\ upd'[h].next = 0
      /\ upd'[h].version = updates + 1
      /\ \A k \in Handlers \ {h} : upd'[k] = upd[k] /\ ~Active(k)'
  BY <1>1, <1>2, SupervisorAssumption
  DEF RequestRestart, SupervisorTypeOK, Update, UpdLabel, Version, Child, Active
<1>4. /\ updates' = updates + 1 /\ updates' \in Version /\ updates \in Nat
      /\ updating' = TRUE /\ status' = "preparing"
  BY <1>1, SupervisorAssumption DEF RequestRestart, SupervisorTypeOK, Version
<1>5. UNCHANGED <<proc, started, child, shuttingDown, changed, signalled, run>>
  BY DEF RequestRestart
<1> USE DEF SupervisorInv
<1>11. SupervisorTypeOK'
  BY <1>1, <1>2, <1>3, <1>4, <1>5 DEF SupervisorTypeOK
<1>12. NumberingInv'
  BY <1>1, <1>2, <1>3, <1>4, <1>5 DEF SupervisorTypeOK, NumberingInv, RunAt, Active
<1>13. UpdateInv'
  BY <1>1, <1>2, <1>3, <1>4, <1>5
  DEF SupervisorTypeOK, UpdateInv, NumberingInv, Active, NoCandidateYet, During, After, Gone,
      Alive, RunAt
<1>14. VersionInv'
  BY <1>1, <1>2, <1>3, <1>4, <1>5, Bounds
  DEF SupervisorTypeOK, VersionInv, UpdateInv, NumberingInv, Active, NoCandidateYet, During,
      After, Gone, Alive, RunAt
<1>15. RunInv'
  BY <1>1, <1>2, <1>3, <1>4, <1>5
  DEF SupervisorTypeOK, RunInv, WatchedChildIsGone, NumberingInv, UpdateInv, Active,
      NoCandidateYet, During, After, Gone, Alive, RunAt
<1>16. StatusIsTrue'
  BY <1>1, <1>2, <1>3, <1>4, <1>5, Bounds
  DEF SupervisorTypeOK, StatusIsTrue, VersionInv, UpdateInv, NumberingInv, Active, NoCandidateYet,
      During, After, Gone, Alive, RunAt
<1> QED
  BY <1>11, <1>12, <1>13, <1>14, <1>15, <1>16 DEF Inv, SupervisorInv

LEMMA UpdateStepInv ==
  ASSUME Inv, NEW h \in Handlers, UpdateStep(h)
  PROVE  Inv'
<1>1. CASE Prepare(h)
  BY <1>1, PrepareFails, PrepareSucceeds DEF Prepare
<1>2. CASE StartCandidate(h)
  BY <1>2, CandidateStarts, CandidateFails DEF StartCandidate
<1>3. CASE RestorePrevious(h)
  BY <1>3, PreviousStarts, PreviousFails DEF RestorePrevious
<1> QED
  BY <1>1, <1>2, <1>3, StopPreviousStep, ProbeCandidateStep, RejectCandidateStep,
     StopCandidateStep, SwitchChildStep, CompleteStep, ReportFailureStep, SettleStep,
     NotifyStep, ReleaseStep, WakeStep
  DEF UpdateStep

-----------------------------------------------------------------------------
(* The loop *)

\* A step that moves only the loop preserves Inv if it preserves RunInv.
LEMMA LoopMoves ==
  ASSUME Inv, RunInv',
         UNCHANGED <<proc, started, child, updating, status, signalled, upd, updates>>,
         changed' \in BOOLEAN, shuttingDown' \in BOOLEAN,
         run' \in [pc : RunLabel, cur : 0 .. MaxChildren, res : {"none", "stopped", "error"}],
         run'.cur <= started, run'.pc # "boot"
  PROVE  Inv'
<1>1. SupervisorTypeOK /\ NumberingInv /\ UpdateInv /\ VersionInv /\ StatusIsTrue
  BY DEF Inv, SupervisorInv
<1>2. SupervisorTypeOK'
  BY <1>1 DEF SupervisorTypeOK
<1>3. NumberingInv'
  BY <1>1 DEF NumberingInv, RunAt
<1>4. UpdateInv'
  BY <1>1 DEF UpdateInv, Active, Alive, Gone
<1>5. VersionInv'
  BY <1>1 DEF VersionInv
<1>6. StatusIsTrue'
  BY <1>1 DEF StatusIsTrue
<1> QED
  BY <1>2, <1>3, <1>4, <1>5, <1>6 DEF Inv, SupervisorInv

LEMMA WatchStep ==
  ASSUME Inv, Watch
  PROVE  Inv'
<1>1. SupervisorTypeOK /\ NumberingInv /\ RunInv /\ run.cur <= started
  BY DEF Inv, SupervisorInv, NumberingInv
<1>2. /\ UNCHANGED <<proc, started, child, updating, status, signalled, upd, updates>>
      /\ changed' \in BOOLEAN /\ shuttingDown' \in BOOLEAN
  BY <1>1 DEF Watch, SupervisorTypeOK
<1>3. /\ run' \in [pc : RunLabel, cur : 0 .. MaxChildren, res : {"none", "stopped", "error"}]
      /\ run'.cur <= started /\ run'.pc # "boot"
  BY <1>1 DEF Watch, SupervisorTypeOK, NumberingInv, RunAt, RunTo, ReturnWith, RunLabel
<1>4. RunInv'
  BY <1>1, <1>2
  DEF Watch, SupervisorTypeOK, RunInv, WatchedChildIsGone, Gone, RunAt, RunTo, ReturnWith
<1> QED
  BY <1>2, <1>3, <1>4, LoopMoves

LEMMA SelectStep ==
  ASSUME Inv, Select
  PROVE  Inv'
<1>1. SupervisorTypeOK /\ NumberingInv /\ RunInv /\ run.cur <= started
  BY DEF Inv, SupervisorInv, NumberingInv
<1>2. /\ UNCHANGED <<proc, started, child, updating, status, signalled, upd, updates>>
      /\ changed' \in BOOLEAN /\ shuttingDown' \in BOOLEAN
  BY <1>1 DEF Select, SupervisorTypeOK
<1>3. /\ run' \in [pc : RunLabel, cur : 0 .. MaxChildren, res : {"none", "stopped", "error"}]
      /\ run'.cur <= started /\ run'.pc # "boot"
  BY <1>1 DEF Select, SupervisorTypeOK, NumberingInv, RunAt, RunTo, ReturnWith, RunLabel
<1>4. RunInv'
  BY <1>1, <1>2
  DEF Select, SupervisorTypeOK, RunInv, WatchedChildIsGone, Gone, RunAt, RunTo, ReturnWith
<1> QED
  BY <1>2, <1>3, <1>4, LoopMoves

LEMMA CheckStep ==
  ASSUME Inv, Check
  PROVE  Inv'
<1>1. SupervisorTypeOK /\ NumberingInv /\ RunInv /\ run.cur <= started
  BY DEF Inv, SupervisorInv, NumberingInv
<1>2. /\ UNCHANGED <<proc, started, child, updating, status, signalled, upd, updates>>
      /\ changed' \in BOOLEAN /\ shuttingDown' \in BOOLEAN
  BY <1>1 DEF Check, SupervisorTypeOK
<1>3. /\ run' \in [pc : RunLabel, cur : 0 .. MaxChildren, res : {"none", "stopped", "error"}]
      /\ run'.cur <= started /\ run'.pc # "boot"
  BY <1>1 DEF Check, SupervisorTypeOK, NumberingInv, RunAt, RunTo, ReturnWith, RunLabel
<1>4. RunInv'
  BY <1>1, <1>2
  DEF Check, SupervisorTypeOK, RunInv, WatchedChildIsGone, Gone, RunAt, RunTo, ReturnWith
<1> QED
  BY <1>2, <1>3, <1>4, LoopMoves

LEMMA ConfirmStep ==
  ASSUME Inv, Confirm
  PROVE  Inv'
<1>1. SupervisorTypeOK /\ NumberingInv /\ RunInv /\ run.cur <= started
  BY DEF Inv, SupervisorInv, NumberingInv
<1>2. /\ UNCHANGED <<proc, started, child, updating, status, signalled, upd, updates>>
      /\ changed' \in BOOLEAN /\ shuttingDown' \in BOOLEAN
  BY <1>1 DEF Confirm, SupervisorTypeOK
<1>3. /\ run' \in [pc : RunLabel, cur : 0 .. MaxChildren, res : {"none", "stopped", "error"}]
      /\ run'.cur <= started /\ run'.pc # "boot"
  BY <1>1 DEF Confirm, SupervisorTypeOK, NumberingInv, RunAt, RunTo, ReturnWith, RunLabel
<1>4. RunInv'
  BY <1>1, <1>2
  DEF Confirm, SupervisorTypeOK, RunInv, WatchedChildIsGone, Gone, RunAt, RunTo, ReturnWith
<1> QED
  BY <1>2, <1>3, <1>4, LoopMoves

LEMMA CloseStep ==
  ASSUME Inv, Close
  PROVE  Inv'
<1>1. SupervisorTypeOK /\ NumberingInv /\ RunInv /\ run.cur <= started
  BY DEF Inv, SupervisorInv, NumberingInv
<1>2. /\ UNCHANGED <<proc, started, child, updating, status, signalled, upd, updates>>
      /\ changed' \in BOOLEAN /\ shuttingDown' \in BOOLEAN
  BY <1>1 DEF Close, SupervisorTypeOK
<1>3. /\ run' \in [pc : RunLabel, cur : 0 .. MaxChildren, res : {"none", "stopped", "error"}]
      /\ run'.cur <= started /\ run'.pc # "boot"
  BY <1>1 DEF Close, SupervisorTypeOK, NumberingInv, RunAt, RunTo, ReturnWith, RunLabel
<1>4. RunInv'
  BY <1>1, <1>2
  DEF Close, SupervisorTypeOK, RunInv, WatchedChildIsGone, Gone, RunAt, RunTo, ReturnWith
<1> QED
  BY <1>2, <1>3, <1>4, LoopMoves

LEMMA LeaveStep ==
  ASSUME Inv, Leave
  PROVE  Inv'
<1>1. SupervisorTypeOK /\ NumberingInv /\ RunInv /\ run.cur <= started
  BY DEF Inv, SupervisorInv, NumberingInv
<1>2. /\ UNCHANGED <<proc, started, child, updating, status, signalled, upd, updates>>
      /\ changed' \in BOOLEAN /\ shuttingDown' \in BOOLEAN
  BY <1>1 DEF Leave, SupervisorTypeOK
<1>3. /\ run' \in [pc : RunLabel, cur : 0 .. MaxChildren, res : {"none", "stopped", "error"}]
      /\ run'.cur <= started /\ run'.pc # "boot"
  BY <1>1 DEF Leave, SupervisorTypeOK, NumberingInv, RunAt, RunTo, ReturnWith, RunLabel
<1>4. RunInv'
  BY <1>1, <1>2
  DEF Leave, SupervisorTypeOK, RunInv, WatchedChildIsGone, Gone, RunAt, RunTo, ReturnWith
<1> QED
  BY <1>2, <1>3, <1>4, LoopMoves

LEMMA BootStep ==
  ASSUME Inv, Boot
  PROVE  Inv'
<1>1. /\ run.pc = "boot" /\ SupervisorTypeOK /\ SupervisorInv /\ started = 0 /\ child = 0
      /\ run.cur = 0 /\ status = "idle" /\ \A h \in Handlers : upd[h].pc = "idle"
  BY Bounds DEF Boot, RunAt, Inv, SupervisorInv, NumberingInv
<1>2. CASE StartChild(0) /\ child' = started' /\ changed' = TRUE /\ RunTo("watch")
  <2>1. Started(0)
    BY <1>1, <1>2, StartFacts, SupervisorAssumption DEF Version
  <2>2. /\ run' \in [pc : RunLabel, cur : 0 .. MaxChildren, res : {"none", "stopped", "error"}]
        /\ run'.pc = "watch" /\ run'.cur = 0
    BY <1>1, <1>2 DEF RunTo, SupervisorTypeOK, RunLabel
  <2>3. UNCHANGED <<updating, shuttingDown, status, signalled, upd, updates>>
    BY DEF Boot
  <2>4. /\ child' = 1 /\ started' = 1 /\ 1 \in Child
        /\ \A c \in Child : c # 1 => proc'[c] = proc[c] /\ proc[c].st = "none"
    BY <1>1, <1>2, <2>1, Bounds DEF Started, SupervisorInv, NumberingInv, Child
  <2>5. proc'[1].st = "up" /\ proc'[1].exe = 0
    BY <2>1, <2>4 DEF Started
  <2> USE DEF SupervisorInv
  <2>6. SupervisorTypeOK'
    BY <1>1, <1>2, <2>1, <2>2, <2>3, <2>4, Bounds DEF SupervisorTypeOK, Started, Child
  <2>7. NumberingInv'
    <3>1. \A c \in Child : c <= 1 <=> c = 1
      BY <2>4, Bounds DEF Child
    <3>2. \A h \in Handlers : upd[h].prev <= 0 /\ upd[h].next <= 0
      BY <1>1 DEF NumberingInv
    <3>3. \A h \in Handlers : upd[h].prev <= 1 /\ upd[h].next <= 1
      BY <3>2, Bounds
    <3> QED
      BY <2>2, <2>3, <2>4, <2>5, <3>1, <3>3 DEF NumberingInv, RunAt
  <2>8. UpdateInv'
    BY <1>1, <2>2, <2>3, <2>4, <2>5 DEF UpdateInv, Active, Alive, Gone, NoCandidateYet, During, After
  <2>9. VersionInv'
    BY <1>1, <2>2, <2>3, <2>4, <2>5, Bounds DEF VersionInv, NoCandidateYet, During, After, Child
  <2>10. RunInv'
    BY <2>2 DEF RunInv, WatchedChildIsGone
  <2>11. StatusIsTrue'
    BY <1>1, <2>3, <2>4, <2>5, Bounds DEF StatusIsTrue
  <2> QED
    BY <2>6, <2>7, <2>8, <2>9, <2>10, <2>11 DEF Inv
<1>3. CASE ReturnWith("error") /\ UNCHANGED <<proc, started, child, changed>>
  <2>1. UNCHANGED <<proc, started, child, updating, shuttingDown, status, changed, signalled,
                    upd, updates>>
    BY <1>3 DEF Boot
  <2>2. /\ run' \in [pc : RunLabel, cur : 0 .. MaxChildren, res : {"none", "stopped", "error"}]
        /\ run'.pc = "close" /\ run'.cur = 0
    BY <1>1, <1>3 DEF ReturnWith, SupervisorTypeOK, RunLabel
  <2>3. RunInv'
    BY <2>1, <2>2 DEF RunInv, WatchedChildIsGone
  <2> QED
    BY <1>1, <2>1, <2>2, <2>3, LoopMoves DEF SupervisorTypeOK
<1> QED
  BY <1>2, <1>3 DEF Boot

-----------------------------------------------------------------------------
(* The children *)

\* A child that becomes ready or exits
LEMMA ChildChanges ==
  ASSUME Inv, NEW c \in Child, Alive(c), proc' \in [Child -> Process],
         proc'[c].st \in {"up", "gone"}, proc'[c].exe = proc[c].exe,
         proc[c].ready => proc'[c].ready,
         \A d \in Child \ {c} : proc'[d] = proc[d],
         UNCHANGED <<started, child, updating, shuttingDown, status, changed, signalled, run,
                     upd, updates>>
  PROVE  Inv'
<1>1. SupervisorTypeOK /\ NumberingInv /\ UpdateInv /\ VersionInv /\ RunInv /\ StatusIsTrue
  BY DEF Inv, SupervisorInv
<1>2. \A d \in Child : proc'[d].exe = proc[d].exe /\ (proc[d].ready => proc'[d].ready)
  OBVIOUS
<1>3. \A d \in Child : (Alive(d)' => Alive(d)) /\ (Gone(d) => Gone(d)')
  BY DEF Alive, Gone
<1>4. \A h \in Handlers : upd[h].pc # "idle" => upd[h].prev \in Child
  BY <1>1 DEF SupervisorTypeOK, Update, Child
<1>5. SupervisorTypeOK'
  BY <1>1 DEF SupervisorTypeOK
<1>6. NumberingInv'
  BY <1>1 DEF NumberingInv, RunAt, Alive
<1>7. UpdateInv'
  BY <1>1, <1>3, <1>4 DEF UpdateInv, Active, NoCandidateYet, During, After
<1>8. VersionInv'
  BY <1>1, <1>2, <1>4, Bounds DEF VersionInv, NoCandidateYet, During, After
<1>9. RunInv'
  BY <1>1, <1>3, Bounds DEF RunInv, WatchedChildIsGone
<1>10. StatusIsTrue'
  BY <1>1, <1>2, Bounds DEF StatusIsTrue
<1> QED
  BY <1>5, <1>6, <1>7, <1>8, <1>9, <1>10 DEF Inv, SupervisorInv

LEMMA ChildStep ==
  ASSUME Inv, NEW c \in Child, BecomeReady(c) \/ Exit(c)
  PROVE  Inv'
<1>1. SupervisorTypeOK /\ Alive(c)
  BY DEF Inv, BecomeReady, Exit
<1>2. /\ proc' \in [Child -> Process] /\ proc'[c].st \in {"up", "gone"}
      /\ proc'[c].exe = proc[c].exe /\ (proc[c].ready => proc'[c].ready)
      /\ \A d \in Child \ {c} : proc'[d] = proc[d]
  <2>1. CASE BecomeReady(c)
    BY <1>1, <2>1 DEF BecomeReady, SupervisorTypeOK, Process, Alive
  <2>2. CASE Exit(c)
    BY <1>1, <2>2 DEF Exit, SupervisorTypeOK, Process
  <2> QED
    BY <2>1, <2>2
<1>3. UNCHANGED <<started, child, updating, shuttingDown, status, changed, signalled, run,
                  upd, updates>>
  BY DEF BecomeReady, Exit
<1> QED
  BY <1>1, <1>2, <1>3, ChildChanges

LEMMA StopCurrentStep ==
  ASSUME Inv, StopCurrent
  PROVE  Inv'
<1>1. SupervisorTypeOK /\ SupervisorInv /\ run.pc = "stop" /\ run.cur \in Child
  BY Bounds DEF Inv, SupervisorInv, RunInv, StopCurrent, RunAt
<1>2. Stopped(run.cur)
  BY <1>1, StopFacts DEF StopCurrent
<1>3. /\ run' \in [pc : RunLabel, cur : 0 .. MaxChildren, res : {"none", "stopped", "error"}]
      /\ run'.cur = run.cur /\ run'.pc = "close"
  BY <1>1 DEF StopCurrent, ReturnWith, SupervisorTypeOK, RunLabel
<1>4. UNCHANGED <<started, child, updating, shuttingDown, status, changed, signalled, upd,
                  updates>>
  BY DEF StopCurrent
<1>5. \A d \in Child : (Alive(d)' => Alive(d)) /\ (Gone(d) => Gone(d)')
  BY <1>2 DEF Alive, Gone, Stopped
<1>6. \A h \in Handlers : upd[h].pc # "idle" => upd[h].prev \in Child
  BY <1>1 DEF SupervisorTypeOK, Update, Child
<1> USE DEF SupervisorInv
<1>7. SupervisorTypeOK'
  BY <1>1, <1>2, <1>3, <1>4 DEF SupervisorTypeOK, Stopped
<1>8. NumberingInv'
  <2>1. run.cur <= started
    BY <1>1 DEF NumberingInv
  <2> QED
    BY <1>1, <1>2, <1>3, <1>4, <2>1 DEF NumberingInv, RunAt, Stopped
<1>9. UpdateInv'
  BY <1>1, <1>4, <1>5, <1>6 DEF UpdateInv, Active, NoCandidateYet, During, After
<1>10. VersionInv'
  BY <1>1, <1>2, <1>4, <1>6, Bounds DEF VersionInv, Stopped, NoCandidateYet, During, After
<1>11. RunInv'
  BY <1>1, <1>2, <1>3 DEF RunInv, WatchedChildIsGone, Stopped, Gone
<1>12. StatusIsTrue'
  BY <1>1, <1>2, <1>4, Bounds DEF StatusIsTrue, Stopped
<1> QED
  BY <1>7, <1>8, <1>9, <1>10, <1>11, <1>12 DEF Inv

-----------------------------------------------------------------------------
(* Every step, and the theorems *)

LEMMA NextInv ==
  ASSUME Inv, [SupervisorNext]_svars
  PROVE  Inv'
<1>1. CASE RunStep
  BY <1>1, BootStep, WatchStep, SelectStep, CheckStep, ConfirmStep, StopCurrentStep,
     CloseStep, LeaveStep
  DEF RunStep
<1>2. CASE Signal
  <2>1. /\ UNCHANGED <<proc, started, child, updating, shuttingDown, status, changed, run,
                       upd, updates>>
        /\ signalled' \in BOOLEAN
    BY <1>2 DEF Signal
  <2> QED
    BY <2>1 DEF Inv, SupervisorInv, SupervisorTypeOK, NumberingInv, UpdateInv, VersionInv,
       RunInv, StatusIsTrue, WatchedChildIsGone, Active, Alive, Gone, RunAt
<1>3. CASE UNCHANGED svars
  BY <1>3 DEF svars, Inv, SupervisorInv, SupervisorTypeOK, NumberingInv, UpdateInv, VersionInv,
     RunInv, StatusIsTrue, WatchedChildIsGone, Active, Alive, Gone, RunAt
<1> QED
  BY <1>1, <1>2, <1>3, RequestRestartStep, UpdateStepInv, ChildStep DEF SupervisorNext

LEMMA InvAlways == SupervisorSpec => []Inv
<1>1. Inv /\ [SupervisorNext]_svars => Inv'
  BY NextInv
<1> QED
  BY <1>1, InitInv, PTL DEF SupervisorSpec

\* The variables of the supervisor keep their types, and every update that is
\* under way has a previous child to fall back to.
THEOREM SupervisorTypeCorrect == SupervisorSpec => []SupervisorTypeOK
<1>1. Inv => SupervisorTypeOK
  BY DEF Inv
<1> QED
  BY <1>1, InvAlways, PTL

\* However updates, crashes and signals interleave, two children never run at
\* the same time: one that runs is s.child, or belongs to the one update, which
\* starts it only when s.child is gone.
THEOREM AtMostOneChildAlways == SupervisorSpec => []AtMostOneChild
<1>1. Inv => AtMostOneChild
  <2> SUFFICES ASSUME Inv, NEW c \in Child, NEW d \in Child, Alive(c), Alive(d)
               PROVE  c = d
    BY DEF AtMostOneChild
  <2>1. UpdateInv /\ VersionInv
    BY DEF Inv, SupervisorInv
  <2>2. ASSUME NEW b \in Child, Alive(b), b # child
        PROVE  \E h \in Handlers : upd[h].pc \in During \cup {"settle"} /\ upd[h].next = b
    BY <2>1, <2>2 DEF UpdateInv
  <2>3. ASSUME NEW h \in Handlers, upd[h].pc \in During \cup {"settle"}
        PROVE  ~Alive(child) /\ Active(h)
    BY <2>1, <2>3 DEF UpdateInv, During, After, Alive, Gone, Active
  <2>4. ASSUME NEW h \in Handlers, NEW k \in Handlers, Active(h), Active(k)
        PROVE  h = k
    BY <2>1, <2>4 DEF UpdateInv
  <2> QED
    BY <2>2, <2>3, <2>4
<1> QED
  BY <1>1, InvAlways, PTL

\* What GET /restart reports is always true of the child that runs.
THEOREM StatusIsTrueAlways == SupervisorSpec => []StatusIsTrue
<1>1. Inv => StatusIsTrue
  BY DEF Inv, SupervisorInv
<1> QED
  BY <1>1, InvAlways, PTL

\* The loop never returns while the child it looked at last is alive.
THEOREM WatchedChildIsGoneAlways == SupervisorSpec => []WatchedChildIsGone
<1>1. Inv => WatchedChildIsGone
  BY DEF Inv, SupervisorInv, RunInv
<1> QED
  BY <1>1, InvAlways, PTL

\* Another executable takes over only in the update that started it, and only
\* after it answered readyz.
THEOREM SwitchIsReadyAlways == SupervisorSpec => SwitchIsReady
<1> DEFINE Ready == child # 0 /\ child' # 0 /\ proc'[child'].exe # proc[child].exe =>
                      updating /\ proc[child'].ready /\ proc[child'].exe = updates
<1>1. Inv /\ [SupervisorNext]_svars => Ready
  <2> SUFFICES ASSUME Inv, [SupervisorNext]_svars, child # 0, child' # 0,
                      proc'[child'].exe # proc[child].exe
               PROVE  updating /\ proc[child'].ready /\ proc[child'].exe = updates
    OBVIOUS
  <2>1. SupervisorTypeOK /\ NumberingInv /\ UpdateInv /\ VersionInv /\ child \in Child
    BY Bounds DEF Inv, SupervisorInv
  <2>2. ASSUME NEW c \in Child, c <= started
        PROVE  proc'[c].exe = proc[c].exe
    <3>1. ASSUME NEW v, StartChild(v) PROVE proc'[c] = proc[c]
      BY <2>1, <2>2, <3>1, Bounds DEF StartChild, SupervisorTypeOK, Child
    <3>2. ASSUME NEW d, StopChild(d) PROVE proc'[c].exe = proc[c].exe
      BY <2>1, <2>2, <3>2 DEF StopChild, SupervisorTypeOK, Process
    <3>3. CASE RunStep
      BY <3>1, <3>2, <3>3 DEF RunStep, Boot, Watch, Select, Check, Confirm, StopCurrent,
         Close, Leave
    <3>4. ASSUME NEW h \in Handlers, RequestRestart(h) \/ UpdateStep(h)
          PROVE  proc'[c].exe = proc[c].exe
      BY <3>1, <3>2, <3>4 DEF RequestRestart, UpdateStep, Prepare, StopPrevious,
         StartCandidate, ProbeCandidate, RejectCandidate, StopCandidate, SwitchChild,
         Complete, ReportFailure, RestorePrevious, Settle, Notify, Release, Wake
    <3>5. ASSUME NEW d \in Child, BecomeReady(d) \/ Exit(d)
          PROVE  proc'[c].exe = proc[c].exe
      BY <2>1, <3>5 DEF BecomeReady, Exit, SupervisorTypeOK, Process
    <3> QED
      BY <3>3, <3>4, <3>5 DEF SupervisorNext, Signal, svars
  <2>3. child' # child
    BY <2>1, <2>2 DEF NumberingInv
  <2>4. PICK h \in Handlers : SwitchChild(h) \/ Settle(h)
    <3>1. ~Boot
      BY <2>1, Bounds DEF Boot, NumberingInv, RunAt
    <3> QED
      BY <2>3, <3>1 DEF SupervisorNext, svars, Signal, RunStep, Watch, Select, Check, Confirm,
         StopCurrent, Close, Leave, RequestRestart, UpdateStep, Prepare, StopPrevious,
         StartCandidate, ProbeCandidate, RejectCandidate, StopCandidate, Complete,
         ReportFailure, RestorePrevious, Notify, Release, Wake, BecomeReady, Exit
  <2>5. child' = upd[h].next /\ UNCHANGED proc /\ Active(h)
    BY <2>4 DEF SwitchChild, Settle, UpdAt, Active
  <2>6. CASE Settle(h)
    BY <2>1, <2>5, <2>6 DEF Settle, UpdAt, VersionInv, UpdateInv, After
  <2>7. CASE SwitchChild(h)
    BY <2>1, <2>5, <2>7 DEF SwitchChild, UpdAt, VersionInv, UpdateInv, During
  <2> QED
    BY <2>4, <2>6, <2>7
<1> QED
  BY <1>1, InvAlways, PTL DEF SupervisorSpec, SwitchIsReady

=============================================================================
