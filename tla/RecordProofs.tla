---------------------------- MODULE RecordProofs ----------------------------
(***************************************************************************)
(* The records of the codex accounts (CodexAccounts): which requests may   *)
(* lose a credential that the provider accepts, and that no other does.    *)
(* And those of the session history (SessionHistory): it is sound, and its *)
(* cleanup spares the active.  And what the store keeps of a scheduler's   *)
(* job (Schedule).                                                         *)
(*                                                                         *)
(* For the accounts the invariant is AccountsInv.  Its heart is ReadsHold: *)
(* what a request that nobody overtook has read is still so at each of its *)
(* steps, hence what it is about to overwrite is saved or superseded.      *)
(* Leftovers says whose a credential in the temporary file is.             *)
(*                                                                         *)
(* For the history it is HistoryInv.  GoodSlice says what the records in   *)
(* memory and their indexes are, GoodFiles what is on disk, whatever a     *)
(* save that failed or a crash left there, and Known ties each record to   *)
(* the message it was made of.  Before it come the bisection (SearchFinds),*)
(* the lists by rank that stand for the sorts (RankedLists), and what      *)
(* inserting, removing, saving and loading do to a slice.                  *)
(***************************************************************************)
EXTENDS CodexAccounts, SessionHistory, Schedule, WellFoundedInduction, FiniteSetTheorems,
        FunctionTheorems, SequenceTheorems, TLAPS

-----------------------------------------------------------------------------
(* The invariant *)

AskStep ==
  {"idle", "list", "current", "records", "save", "runtime", "quota", "truncate", "fill",
   "load", "compare", "draft", "move", "put", "tidy", "switched", "answer",
   "name", "add", "starting", "running", "failed", "killed"}
Saved == Cred \cup {NoCred}
AskRec ==
  [at : AskStep, kind : CodexKind \cup {"none"}, name : Names, cred : AuthContent,
   overwrite : BOOLEAN, copies : [AccountName -> Saved], todo : SUBSET AccountName,
   managed : Names, seen : AuthContent, file : {"none", "live", "aside", "gone"},
   cancelled : BOOLEAN, alone : BOOLEAN]

\* Nothing is newer than what the provider accepts.
InTime(c) == c \in Cred => c.gen <= newestAuth[c.who]

FilesTyped ==
  /\ newestAuth \in [Ident -> 0 .. MaxGen]
  /\ accountRecords \in [AccountName -> Saved]
  /\ live \in AuthContent /\ aside \in AuthContent /\ draft \in AuthContent
  /\ backups \subseteq Cred
FilesInTime ==
  /\ InTime(live) /\ InTime(aside) /\ InTime(draft)
  /\ \A n \in AccountName : InTime(accountRecords[n])

\* The steps of a request that has a credential at hand.
Carries(at) ==
  at \in {"save", "truncate", "fill", "compare", "draft", "move", "put", "tidy", "switched", "answer",
          "name", "add"}
GoodAsk(a) ==
  /\ a \in AskRec /\ InTime(a.cred) /\ \A n \in AccountName : InTime(a.copies[n])
  /\ Carries(a.at) => a.cred \in Cred
  /\ a.at = "save" => a.todo # {}

\* With c saved, nothing is lost that was accepted by dropping d.
Replaces(c, d) == c = d \/ (c.who = d.who /\ c.gen = newestAuth[c.who])
IsBackedUp(c) == c \in Cred => c \in backups
RecordIs(a, c) == a.name \in AccountName /\ accountRecords[a.name] = c
\* What it saw is not newer than what it makes active.
SeenIsOld(a) == a.seen.who = a.cred.who => ~NewerThan(a.seen, a.cred)

ReadsHold(a) ==
  /\ a.at \in {"current", "records", "save"} =>
       \A n \in a.todo : a.copies[n] = accountRecords[n] /\ a.copies[n] \in Cred
  /\ a.at = "save" => Replaces(a.cred, accountRecords[Least(a.todo)])
  /\ a.at = "truncate" => Replaces(a.cred, live)
  /\ a.at = "fill" => a.file = "live" /\ live = Empty
  /\ a.at \in {"compare", "draft", "move", "put", "tidy"} => RecordIs(a, a.cred)
  /\ a.at \in {"draft", "move"} => live = a.seen /\ IsBackedUp(live)
  /\ a.at \in {"draft", "move", "put", "tidy", "switched", "answer"} => SeenIsOld(a)
  /\ a.at \in {"move", "put"} => draft = a.cred
  /\ a.at = "put" => live = NoCred
  /\ a.at \in {"put", "tidy"} => IsBackedUp(aside)
  /\ a.at \in {"tidy", "switched", "answer"} => live = a.cred
  /\ a.at = "switched" => a.name \in AccountName /\ (RecordIs(a, a.cred) \/ Adopts(a.cred, accountRecords[a.name]))
  /\ a.at = "answer" => RecordIs(a, a.cred)

\* A credential in the temporary file is that of a switch, which may have been
\* overtaken; only a request that writes has a file open.
Leftovers ==
  /\ \A q \in CodexRequest : ask[q].file # "none" => ask[q].at = "fill"
  /\ draft \in Cred => \E q \in CodexRequest : ask[q].at \in {"move", "put"}

AsksGood ==
  /\ ask \in [CodexRequest -> AskRec]
  /\ \A r \in CodexRequest : GoodAsk(ask[r]) /\ (ask[r].alone => ReadsHold(ask[r]))

AccountsInv == FilesTyped /\ FilesInTime /\ AsksGood /\ Leftovers

-----------------------------------------------------------------------------
(* Facts *)

LEMMA LeastIn ==
  ASSUME NEW S \in SUBSET AccountName, S # {}
  PROVE  Least(S) \in S
<1> DEFINE R == OpToRel(<, Nat)
<1>1. R = {ss \in Nat \X Nat : ss[1] < ss[2]}
  BY Zenon DEF OpToRel
<1>2. IsWellFoundedOn(R, Nat) /\ S \subseteq Nat
  BY NatLessThanWellFounded, CodexAssumption, Zenon
<1> HIDE DEF R
<1>3. \E k \in S : \A m \in S : ~(<<m, k>> \in R)
  BY <1>2, WFMin, Zenon
<1>4. PICK k \in S : \A m \in S : ~(<<m, k>> \in R)
  BY <1>3
<1>5. ASSUME NEW m \in S PROVE k <= m
  <2>1. m \in Nat /\ k \in Nat
    BY <1>2
  <2>2. ~(m < k)
    BY <1>1, <1>4, <2>1
  <2> QED
    BY <2>1, <2>2
<1> QED
  BY <1>5, Zenon DEF Least

LEMMA Contents ==
  /\ NoCred \notin Cred /\ Empty \notin Cred /\ NoCred # Empty
  /\ NoCred \in Saved /\ Saved \subseteq AuthContent /\ Empty \in AuthContent
  /\ AuthContent = Cred \cup {NoCred, Empty} /\ Unnamed \in Names /\ Unnamed \notin AccountName
  /\ AccountName \subseteq Names
  /\ \A c \in AuthContent : Usable(c) <=> c \in Cred
BY CodexAssumption DEF NoCred, Empty, Cred, Saved, AuthContent, Unnamed, Names, Usable

LEMMA NothingGood == Nothing \in AskRec /\ GoodAsk(Nothing) /\ ReadsHold(Nothing) /\ Nothing.at = "idle"
<1>1. Nothing \in AskRec
  BY Contents DEF Nothing, AskRec, AskStep
<1>2. GoodAsk(Nothing)
  BY <1>1, Contents DEF Nothing, GoodAsk, InTime, Carries
<1>3. ReadsHold(Nothing) /\ Nothing.at = "idle"
  BY DEF Nothing, ReadsHold
<1> QED
  BY <1>1, <1>2, <1>3

-----------------------------------------------------------------------------
(* The others *)

\* What a step of another request leaves of q.
Stays(q) ==
  /\ ask'[q] \in AskRec
  /\ ask'[q].at = ask[q].at /\ ask'[q].name = ask[q].name /\ ask'[q].cred = ask[q].cred
  /\ ask'[q].overwrite = ask[q].overwrite /\ ask'[q].seen = ask[q].seen
  /\ ask'[q].copies = ask[q].copies /\ ask'[q].todo = ask[q].todo
  /\ ask[q].file = "none" => ask'[q].file = "none"
  /\ ask'[q].alone => ask[q].alone /\ ask'[q].file = ask[q].file /\ (Unseen \/ ask[q].at = "idle")

LEMMA BesideStays ==
  ASSUME NEW a \in AskRec
  PROVE  /\ Beside(a) \in AskRec
         /\ Beside(a).at = a.at /\ Beside(a).name = a.name /\ Beside(a).cred = a.cred
         /\ Beside(a).overwrite = a.overwrite /\ Beside(a).seen = a.seen
         /\ Beside(a).copies = a.copies /\ Beside(a).todo = a.todo /\ Beside(a).file = a.file
         /\ Beside(a).alone => a.alone /\ (Unseen \/ a.at = "idle")
<1> DEFINE u == Unseen \/ a.at = "idle"
<1>1. Beside(a) = [a EXCEPT !.alone = @ /\ u]
  BY DEF Beside
<1> HIDE DEF u
<1>2. PICK b \in BOOLEAN : b = (a.alone /\ u)
  OBVIOUS
<1>3. Beside(a) = [a EXCEPT !.alone = b]
  BY <1>1, <1>2
<1>4. /\ Beside(a) \in AskRec
      /\ Beside(a).at = a.at /\ Beside(a).name = a.name /\ Beside(a).cred = a.cred
      /\ Beside(a).overwrite = a.overwrite /\ Beside(a).seen = a.seen
      /\ Beside(a).copies = a.copies /\ Beside(a).todo = a.todo /\ Beside(a).file = a.file
      /\ Beside(a).alone = b
  BY <1>3 DEF AskRec
<1> QED
  BY <1>2, <1>4 DEF u

LEMMA OthersStay ==
  ASSUME ask \in [CodexRequest -> AskRec], NEW r \in CodexRequest, NEW a \in AskRec, RequestGoes(r, a)
  PROVE  /\ ask' \in [CodexRequest -> AskRec] /\ ask'[r] = a
         /\ \A q \in CodexRequest \ {r} : Stays(q) /\ ask'[q].file = ask[q].file
<1>1. ask'[r] = a /\ \A q \in CodexRequest \ {r} : ask'[q] = Beside(ask[q])
  BY DEF RequestGoes
<1>2. \A q \in CodexRequest \ {r} : Stays(q) /\ ask'[q].file = ask[q].file
  BY <1>1, BesideStays DEF Stays
<1>3. ask' \in [CodexRequest -> AskRec]
  <2>1. ask' = [q \in CodexRequest |-> IF q = r THEN a ELSE Beside(ask[q])]
    BY DEF RequestGoes
  <2> QED
    BY <2>1, BesideStays
<1> QED
  BY <1>1, <1>2, <1>3

Renames == [{"none", "live", "aside", "gone"} -> {"none", "live", "aside", "gone"}]
LEMMA OthersStayRenamed ==
  ASSUME ask \in [CodexRequest -> AskRec], NEW r \in CodexRequest, NEW at \in AskStep,
         NEW to \in Renames, to["none"] = "none", Renamed(r, at, to)
  PROVE  /\ ask' \in [CodexRequest -> AskRec] /\ ask'[r] = [ask[r] EXCEPT !.at = at]
         /\ \A q \in CodexRequest \ {r} : Stays(q) /\ ask'[q].file = to[ask[q].file]
<1> DEFINE other(q) == [Beside(ask[q]) EXCEPT !.file = to[@], !.alone = @ /\ to[ask[q].file] = ask[q].file]
<1>1. ask' = [q \in CodexRequest |-> IF q = r THEN [ask[q] EXCEPT !.at = at] ELSE other(q)]
  BY DEF Renamed
<1>2. ASSUME NEW q \in CodexRequest
      PROVE  LET o == other(q) IN
             /\ o \in AskRec
             /\ o.at = ask[q].at /\ o.name = ask[q].name /\ o.cred = ask[q].cred
             /\ o.overwrite = ask[q].overwrite /\ o.seen = ask[q].seen
             /\ o.copies = ask[q].copies /\ o.todo = ask[q].todo /\ o.file = to[ask[q].file]
             /\ o.alone => ask[q].alone /\ o.file = ask[q].file /\ (Unseen \/ ask[q].at = "idle")
  <2>1. PICK b : b = Beside(ask[q])
    OBVIOUS
  <2>2. /\ b \in AskRec
        /\ b.at = ask[q].at /\ b.name = ask[q].name /\ b.cred = ask[q].cred
        /\ b.overwrite = ask[q].overwrite /\ b.seen = ask[q].seen
        /\ b.copies = ask[q].copies /\ b.todo = ask[q].todo /\ b.file = ask[q].file
        /\ b.alone => ask[q].alone /\ (Unseen \/ ask[q].at = "idle")
    BY <2>1, BesideStays
  <2>3. PICK l \in BOOLEAN : l = (b.alone /\ to[ask[q].file] = ask[q].file)
    OBVIOUS
  <2>4. other(q) = [b EXCEPT !.file = to[ask[q].file], !.alone = l]
    BY <2>1, <2>2, <2>3 DEF AskRec
  <2>5. to[ask[q].file] \in {"none", "live", "aside", "gone"}
    BY DEF Renames, AskRec
  <2> HIDE DEF other
  <2>6. /\ other(q) \in AskRec
        /\ other(q).at = b.at /\ other(q).name = b.name /\ other(q).cred = b.cred
        /\ other(q).overwrite = b.overwrite /\ other(q).seen = b.seen
        /\ other(q).copies = b.copies /\ other(q).todo = b.todo /\ other(q).file = to[ask[q].file]
        /\ other(q).alone = l
    BY <2>2, <2>4, <2>5 DEF AskRec
  <2> QED
    BY <2>2, <2>3, <2>6
<1>3. [ask[r] EXCEPT !.at = at] \in AskRec
  BY DEF AskRec
<1> HIDE DEF other
<1>4. \A q \in CodexRequest \ {r} : ask'[q] = other(q)
  BY <1>1
<1>5. \A q \in CodexRequest \ {r} : Stays(q) /\ ask'[q].file = to[ask[q].file]
  BY <1>2, <1>4 DEF Stays
<1> QED
  BY <1>1, <1>2, <1>3, <1>5
\* What every step does to the files: their types hold, the provider accepts
\* newer credentials, backups stay.
Later ==
  /\ FilesTyped'
  /\ \A i \in Ident : newestAuth[i] <= newestAuth'[i]
  /\ backups \subseteq backups'

LEMMA InTimeLater ==
  ASSUME FilesTyped, Later, NEW c, InTime(c)
  PROVE  InTime(c)'
<1>1. ASSUME c \in Cred PROVE c.gen <= newestAuth'[c.who]
  <2>1. c.who \in Ident /\ c.gen \in Nat
    BY <1>1 DEF Cred
  <2>2. newestAuth[c.who] \in Nat /\ newestAuth'[c.who] \in Nat
    BY <2>1, CodexAssumption DEF Later, FilesTyped
  <2>3. c.gen <= newestAuth[c.who] /\ newestAuth[c.who] <= newestAuth'[c.who]
    BY <1>1, <2>1 DEF InTime, Later
  <2> QED
    BY <2>1, <2>2, <2>3
<1> QED
  BY <1>1 DEF InTime

LEMMA OtherGood ==
  ASSUME AccountsInv, Later, NEW q \in CodexRequest, Stays(q)
  PROVE  GoodAsk(ask[q])' /\ (ask[q].alone => ReadsHold(ask[q]))'
<1> DEFINE a == ask[q]
           o == ask'[q]
<1>1. /\ o \in AskRec /\ o.at = a.at /\ o.name = a.name /\ o.cred = a.cred
      /\ o.overwrite = a.overwrite /\ o.seen = a.seen /\ o.copies = a.copies /\ o.todo = a.todo
      /\ o.alone => a.alone /\ o.file = a.file /\ (Unseen \/ a.at = "idle")
  BY DEF Stays
<1>2. GoodAsk(a) /\ (a.alone => ReadsHold(a)) /\ FilesTyped
  BY DEF AccountsInv, AsksGood
<1> HIDE DEF a, o
<1>4. \A c : InTime(c) => InTime(c)'
  BY <1>2, InTimeLater
<1> SUFFICES ASSUME NEW o1, o1 = o
             PROVE  GoodAsk(o1)' /\ (o1.alone => ReadsHold(o1)')
  BY DEF o
<1>5. GoodAsk(o1)'
  BY <1>1, <1>2, <1>4 DEF GoodAsk
<1>6. ASSUME o1.alone PROVE ReadsHold(o1)'
  <2>1. CASE a.at = "idle"
    BY <1>1, <2>1 DEF ReadsHold
  <2>2. CASE Unseen
    <3>1. ReadsHold(a)
      BY <1>1, <1>2, <1>6
    <3>2. /\ accountRecords' = accountRecords /\ live' = live /\ draft' = draft
          /\ newestAuth' = newestAuth /\ aside' \in {aside, NoCred}
      BY <2>2 DEF Unseen
    <3>3. /\ o1.at = a.at /\ o1.name = a.name /\ o1.cred = a.cred /\ o1.seen = a.seen
          /\ o1.copies = a.copies /\ o1.todo = a.todo /\ o1.file = a.file
      BY <1>1, <1>6
    <3>4. IsBackedUp(live) => IsBackedUp(live)'
      BY <3>2 DEF IsBackedUp, Later
    <3>5. IsBackedUp(aside) => IsBackedUp(aside)'
      BY <3>2, Contents DEF IsBackedUp, Later
    <3> QED
      BY <3>1, <3>2, <3>3, <3>4, <3>5 DEF ReadsHold, Replaces, RecordIs, SeenIsOld
  <2> QED
    BY <1>1, <1>6, <2>1, <2>2
<1> QED
  BY <1>5, <1>6
LEMMA AccountsStep ==
  ASSUME AccountsInv, Later, FilesInTime', NEW r \in CodexRequest, NEW a,
         ask' \in [CodexRequest -> AskRec], ask'[r] = a, \A q \in CodexRequest \ {r} : Stays(q),
         GoodAsk(a)', a.alone => ReadsHold(a)', Leftovers'
  PROVE  AccountsInv'
<1>1. ASSUME NEW q \in CodexRequest
      PROVE  GoodAsk(ask[q])' /\ (ask[q].alone => ReadsHold(ask[q]))'
  <2>1. CASE q = r
    BY <2>1
  <2>2. CASE q # r
    BY <2>2, OtherGood
  <2> QED
    BY <2>1, <2>2
<1>2. AsksGood'
  BY <1>1 DEF AsksGood
<1> QED
  BY <1>2 DEF AccountsInv, Later

-----------------------------------------------------------------------------
(* Where a credential is held *)

InMemory == {"save", "truncate", "fill"}
AsideCounts == \E q \in CodexRequest : ask[q].at \in {"put", "tidy"}
Holds(c) ==
  \/ \E n \in AccountName : accountRecords[n] = c
  \/ c \in {live, draft} \/ c \in backups
  \/ c = aside /\ AsideCounts
  \/ \E q \in CodexRequest : ask[q].at \in InMemory /\ ask[q].cred = c

\* The ways in which a step may lose a credential of account i.
Excused(i) ==
  \/ \E q \in CodexRequest : ask'[q].at # ask[q].at /\ (~ask[q].alone \/ ask[q].overwrite \/ NotSaved(q, i))
  \/ \E q \in CodexRequest : Overtaken(q)
HeldStep == \A i \in Ident : Held(i) /\ ~Held(i)' => newestAuth'[i] # newestAuth[i] \/ Excused(i)

\* Only what the provider accepts is worth keeping.
LEMMA HeldStepFrom ==
  ASSUME FilesTyped,
         \A c \in Cred : c.gen = newestAuth[c.who] /\ newestAuth'[c.who] = newestAuth[c.who] /\ Holds(c)
                           => Holds(c)' \/ Excused(c.who)
  PROVE  HeldStep
<1> SUFFICES ASSUME NEW i \in Ident, Held(i), ~Held(i)', newestAuth'[i] = newestAuth[i] PROVE Excused(i)
  BY DEF HeldStep
<1> DEFINE c == [who |-> i, gen |-> newestAuth[i]]
<1>1. PICK d : d = c
  OBVIOUS
<1>2. d \in Cred /\ d.who = i /\ d.gen = newestAuth[i]
  BY <1>1 DEF FilesTyped, Cred
<1>3. Holds(d)
  BY <1>1 DEF Held, Holds, InMemory, AsideCounts
<1>4. Holds(d)' => Held(i)'
  BY <1>1 DEF Held, Holds, InMemory, AsideCounts
<1> QED
  BY <1>2, <1>3, <1>4

\* The steps that leave the files alone.
LEMMA Quiet ==
  ASSUME AccountsInv, NEW r \in CodexRequest, NEW a, RequestGoes(r, a),
         UNCHANGED <<accountRecords, authFile>>, Later,
         GoodAsk(a)', a.alone => ReadsHold(a)',
         ask[r].at \notin {"move", "put", "tidy"} \cup InMemory, a.file \in {ask[r].file, "none"}
  PROVE  AccountsInv' /\ HeldStep
<1>0. ask \in [CodexRequest -> AskRec] /\ a \in AskRec /\ FilesTyped /\ FilesInTime
  BY DEF AccountsInv, AsksGood, GoodAsk
<1>1. /\ ask' \in [CodexRequest -> AskRec] /\ ask'[r] = a
      /\ \A q \in CodexRequest \ {r} : Stays(q) /\ ask'[q].file = ask[q].file
  BY <1>0, OthersStay
<1>2. /\ accountRecords' = accountRecords /\ live' = live /\ aside' = aside /\ draft' = draft
  BY DEF authFile
<1>3. FilesInTime'
  BY <1>0, <1>2, InTimeLater DEF FilesInTime
<1>4. Leftovers'
  BY <1>1, <1>2 DEF AccountsInv, Leftovers, Stays, InMemory
<1>5. AccountsInv'
  BY <1>0, <1>1, <1>3, <1>4, AccountsStep
<1>6. ASSUME NEW c \in Cred, Holds(c) PROVE Holds(c)'
  <2>1. AsideCounts => AsideCounts'
    BY <1>1 DEF AsideCounts, Stays
  <2>2. ASSUME NEW q \in CodexRequest, ask[q].at \in InMemory, ask[q].cred = c PROVE Holds(c)'
    BY <1>1, <2>2 DEF Holds, Stays
  <2> QED
    BY <1>2, <1>6, <2>1, <2>2 DEF Holds, Later
<1>7. HeldStep
  BY <1>0, <1>6, HeldStepFrom
<1> QED
  BY <1>5, <1>7

LEMMA StillStep ==
  ASSUME AccountsInv, NEW r \in CodexRequest, NEW a, RequestGoes(r, a),
         UNCHANGED <<accountRecords, authFile, backups, newestAuth>>,
         GoodAsk(a), a.alone => ReadsHold(a),
         ask[r].at \notin {"move", "put", "tidy"} \cup InMemory, a.file \in {ask[r].file, "none"}
  PROVE  AccountsInv' /\ HeldStep
<1>1. FilesTyped /\ newestAuth' = newestAuth /\ accountRecords' = accountRecords
      /\ live' = live /\ aside' = aside /\ draft' = draft /\ backups' = backups
  BY DEF AccountsInv, authFile
<1>2. Later
  BY <1>1, CodexAssumption DEF Later, FilesTyped
<1>3. GoodAsk(a)'
  BY <1>1 DEF GoodAsk, InTime
<1>4. a.alone => ReadsHold(a)'
  BY <1>1, Zenon DEF ReadsHold, Replaces, RecordIs, IsBackedUp
<1> QED
  BY <1>2, <1>3, <1>4, Quiet

LEMMA LeavesStep ==
  ASSUME AccountsInv, NEW r \in CodexRequest, Leaves(r),
         UNCHANGED <<accountRecords, authFile, backups, newestAuth>>,
         ask[r].at \notin {"move", "put", "tidy"} \cup InMemory
  PROVE  AccountsInv' /\ HeldStep
<1>1. Nothing.file = "none"
  BY DEF Nothing
<1> QED
  BY <1>1, NothingGood, StillStep DEF Leaves

-----------------------------------------------------------------------------
(* The steps that read *)

LEMMA AskGood ==
  ASSUME AccountsInv, NEW r \in CodexRequest
  PROVE  /\ FilesTyped /\ FilesInTime /\ ask[r] \in AskRec
         /\ GoodAsk(ask[r]) /\ (ask[r].alone => ReadsHold(ask[r]))
BY DEF AccountsInv, AsksGood

LEMMA AskTyped ==
  ASSUME AccountsInv, NEW r \in CodexRequest PROVE ask[r] \in AskRec
BY AskGood

LEMMA ListRecordsStep ==
  ASSUME AccountsInv, NEW r \in CodexRequest, ListRecords(r)
  PROVE  AccountsInv' /\ HeldStep
<1>1. PICK a : a = [ask[r] EXCEPT !.at = "current", !.copies = accountRecords, !.todo = Stored]
  OBVIOUS
<1>2. Stored \in SUBSET AccountName /\ \A n \in Stored : accountRecords[n] \in Cred
  BY AskGood DEF Stored, FilesTyped, Saved
<1>3. /\ a \in AskRec /\ a.at = "current" /\ a.copies = accountRecords /\ a.todo = Stored
      /\ a.cred = ask[r].cred /\ a.file = ask[r].file
  <2>1. ask[r] \in AskRec /\ accountRecords \in [AccountName -> Saved] /\ "current" \in AskStep
    BY AskGood DEF FilesTyped, AskStep
  <2>2. a \in AskRec
    BY <1>1, <1>2, <2>1 DEF AskRec
  <2>3. /\ a.at = "current" /\ a.copies = accountRecords /\ a.todo = Stored
        /\ a.cred = ask[r].cred /\ a.file = ask[r].file
    BY <1>1, <2>1 DEF AskRec
  <2> QED
    BY <2>2, <2>3
<1>4. GoodAsk(a)
  BY <1>3, AskGood DEF GoodAsk, Carries, FilesInTime
<1>5. ReadsHold(a)
  BY <1>2, <1>3 DEF ReadsHold
<1> QED
  BY <1>1, <1>3, <1>4, <1>5, StillStep DEF ListRecords, InMemory

LEMMA ManagedName ==
  ASSUME NEW c PROVE ManagedBy(c) \in Names
<1>1. \A S \in SUBSET AccountName : S # {} => Least(S) \in Names
  BY LeastIn, Contents
<1> DEFINE same == {n \in Stored : accountRecords[n] = c}
           kin == {n \in Stored : accountRecords[n].who = c.who}
<1>2. same \in SUBSET AccountName /\ kin \in SUBSET AccountName
  BY DEF Stored
<1>3. ManagedBy(c) = IF same # {} THEN Least(same) ELSE IF kin # {} THEN Least(kin) ELSE Unnamed
  BY DEF ManagedBy
<1> HIDE DEF same, kin
<1> QED
  BY <1>1, <1>2, <1>3, Contents

LEMMA ReadCurrentStep ==
  ASSUME AccountsInv, NEW r \in CodexRequest, ReadCurrent(r)
  PROVE  AccountsInv' /\ HeldStep
<1>1. CASE live = Empty
  BY <1>1, LeavesStep DEF ReadCurrent, InMemory
<1>2. CASE live # Empty
  <2> DEFINE next == IF ask[r].at = "current" THEN "records" ELSE "quota"
             name == IF live = NoCred THEN Unnamed ELSE ManagedBy(live)
  <2>1. PICK a : a = [ask[r] EXCEPT !.at = next, !.seen = live, !.managed = name]
    OBVIOUS
  <2>2. name \in Names
    BY ManagedName, Contents
  <2>3. RequestGoes(r, a)
    <3>1. [ask[r] EXCEPT !.at = IF @ = "current" THEN "records" ELSE "quota", !.seen = live,
             !.managed = IF live = NoCred THEN Unnamed ELSE ManagedBy(live)] = a
      BY <2>1
    <3> QED
      BY <1>2, <3>1 DEF ReadCurrent
  <2> HIDE DEF name
  <2>7. next \in AskStep
    BY DEF AskStep
  <2> HIDE DEF next
  <2>4. /\ a \in AskRec /\ a.at = next /\ a.copies = ask[r].copies /\ a.todo = ask[r].todo
        /\ a.cred = ask[r].cred /\ a.file = ask[r].file /\ a.alone = ask[r].alone
    <3>1. live \in AuthContent /\ ask[r] \in AskRec
      BY AskGood DEF FilesTyped
    <3> QED
      BY <2>1, <2>2, <2>7, <3>1 DEF AskRec
  <2>5. GoodAsk(a)
    BY <2>4, AskGood DEF GoodAsk, Carries, next
  <2>6. ASSUME a.alone PROVE ReadsHold(a)
    <3>1. /\ ask[r].at = "current" => a.at = "records"
          /\ ask[r].at # "current" => a.at = "quota"
      BY <2>4 DEF next
    <3>2. CASE a.at = "quota"
      BY <3>2 DEF ReadsHold
    <3>3. CASE a.at = "records"
      <4>1. ask[r].at = "current" /\ ReadsHold(ask[r])
        BY <2>4, <2>6, <3>1, <3>3, AskGood
      <4> QED
        BY <2>4, <3>3, <4>1 DEF ReadsHold
    <3> QED
      BY <3>1, <3>2, <3>3
  <2> QED
    BY <2>3, <2>4, <2>5, <2>6, StillStep DEF ReadCurrent, InMemory
<1> QED
  BY <1>1, <1>2

LEMMA AfterRecordsStep ==
  ASSUME AccountsInv, NEW r \in CodexRequest, AfterRecords(r)
  PROVE  AccountsInv' /\ HeldStep
<1>1. ASSUME NEW at \in {"quota", "runtime"}, NEW kind \in CodexKind,
             RequestGoes(r, [ask[r] EXCEPT !.at = at, !.kind = kind])
      PROVE  AccountsInv' /\ HeldStep
  <2>1. PICK a : a = [ask[r] EXCEPT !.at = at, !.kind = kind]
    OBVIOUS
  <2>2. /\ a \in AskRec /\ a.at = at /\ a.copies = ask[r].copies
        /\ a.cred = ask[r].cred /\ a.file = ask[r].file /\ a.alone = ask[r].alone
    <3>1. at \in AskStep
      BY DEF AskStep
    <3> QED
      BY <2>1, <3>1, AskTyped DEF AskRec
  <2>3. GoodAsk(a) /\ ReadsHold(a)
    BY <2>2, AskGood DEF GoodAsk, Carries, ReadsHold
  <2> QED
    BY <1>1, <2>1, <2>2, <2>3, StillStep DEF AfterRecords, InMemory
<1>2. CASE ask[r].managed = Unnamed
  <2>1. PICK a : a = [ask[r] EXCEPT !.at = "quota"]
    OBVIOUS
  <2>2. /\ a \in AskRec /\ a.at = "quota" /\ a.copies = ask[r].copies
        /\ a.cred = ask[r].cred /\ a.file = ask[r].file /\ a.alone = ask[r].alone
    <3>1. "quota" \in AskStep
      BY DEF AskStep
    <3> QED
      BY <2>1, <3>1, AskTyped DEF AskRec
  <2>3. GoodAsk(a) /\ ReadsHold(a)
    BY <2>2, AskGood DEF GoodAsk, Carries, ReadsHold
  <2> QED
    BY <1>2, <2>1, <2>2, <2>3, StillStep DEF AfterRecords, Goto, InMemory
<1>3. CASE ask[r].managed # Unnamed
  BY <1>1, <1>3, LeavesStep DEF AfterRecords, InMemory, CodexKind
<1> QED
  BY <1>2, <1>3
-----------------------------------------------------------------------------
(* The steps that ask the provider *)

\* A request that has read nothing.
LEMMA FreshAsk ==
  ASSUME NEW a \in AskRec, a.at \in {"idle", "list", "runtime", "load", "starting"}, a.cred = NoCred,
         \A n \in AccountName : a.copies[n] = NoCred
  PROVE  GoodAsk(a) /\ GoodAsk(a)' /\ ReadsHold(a) /\ ReadsHold(a)'
<1>1. GoodAsk(a) /\ GoodAsk(a)'
  BY Contents DEF GoodAsk, InTime, Carries
<1>2. ReadsHold(a) /\ ReadsHold(a)'
  BY DEF ReadsHold
<1> QED
  BY <1>1, <1>2

LEMMA ThenGood ==
  ASSUME NEW a \in AskRec, NEW b, b = Then(a)
  PROVE  /\ b \in AskRec /\ b.at \in {"idle", "runtime"} /\ b.file = "none"
         /\ GoodAsk(b) /\ ReadsHold(b) /\ GoodAsk(b)' /\ ReadsHold(b)'
<1>1. /\ b \in AskRec /\ b.at \in {"idle", "runtime"} /\ b.file = "none" /\ b.cred = NoCred
      /\ \A n \in AccountName : b.copies[n] = NoCred
  <2>1. a.alone \in BOOLEAN
    BY DEF AskRec
  <2>2. CASE b = Nothing
    BY <2>2, NothingGood DEF Nothing
  <2>3. CASE b = [Nothing EXCEPT !.at = "runtime", !.kind = "status", !.alone = a.alone]
    <3>1. PICK l \in BOOLEAN : l = a.alone
      BY <2>1
    <3>2. PICK z : z = Nothing
      OBVIOUS
    <3>3. /\ z \in AskRec /\ z.file = "none" /\ z.cred = NoCred
          /\ \A n \in AccountName : z.copies[n] = NoCred
      BY <3>2, NothingGood DEF Nothing
    <3>4. b = [z EXCEPT !.at = "runtime", !.kind = "status", !.alone = l]
      BY <2>3, <3>1, <3>2, Zenon
    <3>5. "runtime" \in AskStep /\ "status" \in CodexKind \cup {"none"}
      BY DEF AskStep, CodexKind
    <3>6. b \in AskRec
      BY <3>3, <3>4, <3>5 DEF AskRec
    <3>7. b.at = "runtime" /\ b.file = z.file /\ b.cred = z.cred /\ b.copies = z.copies
      BY <3>3, <3>4 DEF AskRec
    <3> QED
      BY <3>3, <3>6, <3>7
  <2> QED
    BY <2>2, <2>3 DEF Then
<1> QED
  BY <1>1, FreshAsk

\* A query saves what replaces the credential it asked with, or nothing.
LEMMA QueriedGood ==
  ASSUME FilesTyped, NEW d \in AuthContent, InTime(d), NEW c, Queried(d, c),
         UNCHANGED <<accountRecords, authFile, backups>>
  PROVE  /\ Later /\ (newestAuth' = newestAuth => c \in {d, NoCred})
         /\ c # NoCred => c \in AuthContent /\ InTime(c)' /\ Replaces(c, d)' /\ (d \in Cred => c \in Cred)
         /\ newestAuth' # newestAuth => d \in Cred /\ (c # NoCred => c \in Cred)
<1>1. /\ accountRecords' = accountRecords /\ live' = live /\ aside' = aside /\ draft' = draft
      /\ backups' = backups
  BY DEF authFile
<1>2. CASE c \in {d, NoCred} /\ newestAuth' = newestAuth
  <2>1. Later
    BY <1>1, <1>2, CodexAssumption DEF Later, FilesTyped
  <2> QED
    BY <1>2, <2>1 DEF InTime, Replaces
<1>3. CASE /\ Usable(d) /\ d.gen = newestAuth[d.who] /\ d.gen < MaxGen
           /\ newestAuth' = [newestAuth EXCEPT ![d.who] = @ + 1]
           /\ c \in {[d EXCEPT !.gen = @ + 1], NoCred}
  <2>1. d \in Cred /\ d.who \in Ident /\ d.gen \in 0 .. MaxGen
    BY <1>3, Contents DEF Cred
  <2>2. /\ newestAuth' \in [Ident -> 0 .. MaxGen] /\ \A i \in Ident : newestAuth[i] <= newestAuth'[i]
        /\ newestAuth'[d.who] = d.gen + 1
    BY <1>3, <2>1, CodexAssumption DEF FilesTyped
  <2>3. Later
    BY <1>1, <2>2 DEF Later, FilesTyped
  <2>4. ASSUME c # NoCred
        PROVE  c \in Cred /\ c.who = d.who /\ c.gen = newestAuth'[d.who]
    BY <1>3, <2>1, <2>2, <2>4, CodexAssumption DEF Cred
  <2>5. newestAuth' # newestAuth
    BY <1>3, <2>1, <2>2, CodexAssumption DEF FilesTyped
  <2>6. c # NoCred => InTime(c)' /\ Replaces(c, d)'
    BY <2>1, <2>2, <2>4, CodexAssumption DEF InTime, Replaces
  <2> QED
    BY <2>1, <2>3, <2>4, <2>5, <2>6, Contents
<1> QED
  BY <1>2, <1>3 DEF Queried

LEMMA QueryRecordStep ==
  ASSUME AccountsInv, NEW r \in CodexRequest, QueryRecord(r)
  PROVE  AccountsInv' /\ HeldStep
<1> DEFINE n == Least(ask[r].todo)
<1>1. PICK c \in AuthContent :
        /\ Queried(ask[r].copies[n], c)
        /\ IF c = NoCred
           THEN RequestGoes(r, [ask[r] EXCEPT !.todo = @ \ {n}])
           ELSE RequestGoes(r, [ask[r] EXCEPT !.at = "save", !.cred = c])
  BY DEF QueryRecord
<1>2. /\ ask[r].at = "records" /\ ask[r].todo # {}
      /\ UNCHANGED <<accountRecords, authFile, backups>>
  BY DEF QueryRecord
<1>3. /\ ask[r].todo \in SUBSET AccountName /\ ask[r].copies \in [AccountName -> Saved]
  BY AskTyped DEF AskRec
<1>4. n \in ask[r].todo /\ n \in AccountName
  BY <1>2, <1>3, LeastIn
<1>5. PICK d : d = ask[r].copies[n]
  OBVIOUS
<1>6. d \in Saved /\ d \in AuthContent /\ InTime(d)
  BY <1>3, <1>4, <1>5, AskGood, Contents DEF GoodAsk
<1> HIDE DEF n
<1>7. /\ Later /\ (newestAuth' = newestAuth => c \in {d, NoCred})
      /\ c # NoCred => c \in AuthContent /\ InTime(c)' /\ Replaces(c, d)' /\ (d \in Cred => c \in Cred)
      /\ newestAuth' # newestAuth => d \in Cred /\ (c # NoCred => c \in Cred)
  BY <1>1, <1>2, <1>5, <1>6, AskGood, QueriedGood
<1>8. accountRecords' = accountRecords /\ live' = live /\ aside' = aside /\ draft' = draft
  BY <1>2 DEF authFile
<1>9. CASE c = NoCred
  <2>1. PICK a : a = [ask[r] EXCEPT !.todo = @ \ {n}]
    OBVIOUS
  <2>2. RequestGoes(r, a)
    BY <1>1, <1>9, <2>1
  <2>3. a \in AskRec
    BY <2>1, AskTyped DEF AskRec
  <2>4. /\ a.at = "records" /\ a.copies = ask[r].copies /\ a.cred = ask[r].cred
        /\ a.file = ask[r].file /\ a.alone = ask[r].alone /\ a.todo = ask[r].todo \ {n}
    BY <1>2, <2>1, AskTyped DEF AskRec
  <2>5. GoodAsk(a)'
    BY <1>7, <2>3, <2>4, AskGood, InTimeLater DEF GoodAsk, Carries
  <2>6. ASSUME a.alone PROVE ReadsHold(a)'
    <3>1. ReadsHold(ask[r])
      BY <2>4, <2>6, AskGood
    <3>2. \A m \in a.todo : a.copies[m] = accountRecords[m] /\ a.copies[m] \in Cred
      BY <1>2, <2>4, <3>1 DEF ReadsHold
    <3> QED
      BY <1>8, <2>4, <3>2 DEF ReadsHold
  <2> QED
    BY <1>2, <1>7, <2>2, <2>4, <2>5, <2>6, Quiet DEF InMemory
<1>10. CASE c # NoCred
  <2>1. PICK a : a = [ask[r] EXCEPT !.at = "save", !.cred = c]
    OBVIOUS
  <2>2. RequestGoes(r, a)
    BY <1>1, <1>10, <2>1
  <2>3. a \in AskRec
    <3>1. ask[r] \in AskRec /\ "save" \in AskStep
      BY AskGood DEF AskStep
    <3> QED
      BY <2>1, <3>1 DEF AskRec
  <2>4. /\ a.at = "save" /\ a.copies = ask[r].copies /\ a.cred = c
        /\ a.file = ask[r].file /\ a.alone = ask[r].alone /\ a.todo = ask[r].todo
    BY <1>2, <2>1, AskTyped DEF AskRec
  <2>5. c \in Cred
    BY <1>6, <1>7, <1>10 DEF Saved
  <2>6. GoodAsk(a)'
    <3>1. \A m \in AccountName : InTime(a.copies[m])'
      BY <1>7, <2>4, AskGood, InTimeLater DEF GoodAsk
    <3> QED
      BY <1>2, <1>7, <1>10, <2>3, <2>4, <2>5, <3>1 DEF GoodAsk
  <2>7. a.alone => ReadsHold(a)'
    <3>1. ASSUME a.alone
          PROVE  \A m \in a.todo : a.copies[m] = accountRecords[m] /\ a.copies[m] \in Cred
      <4>1. ReadsHold(ask[r])
        BY <2>4, <3>1, AskGood
      <4> QED
        BY <1>2, <2>4, <4>1 DEF ReadsHold
    <3>2. a.alone => Replaces(a.cred, accountRecords[Least(a.todo)])'
      <4>1. a.alone => d = accountRecords'[Least(a.todo)]
        BY <1>4, <1>5, <1>8, <2>4, <3>1 DEF n
      <4>2. Replaces(c, d)'
        BY <1>7, <1>10
      <4> QED
        BY <2>4, <4>1, <4>2 DEF Replaces
    <3> QED
      BY <1>8, <2>4, <3>1, <3>2 DEF ReadsHold
  <2> QED
    BY <1>2, <1>7, <2>2, <2>4, <2>6, <2>7, Quiet DEF InMemory
<1> QED
  BY <1>9, <1>10

LEMMA QueryLiveStep ==
  ASSUME AccountsInv, NEW r \in CodexRequest, QueryLive(r)
  PROVE  AccountsInv' /\ HeldStep
<1>1. ask[r].at = "quota" /\ UNCHANGED <<accountRecords, authFile, backups>>
  BY DEF QueryLive
<1>2. PICK b : b = Then(ask[r])
  OBVIOUS
<1>3. /\ b \in AskRec /\ b.at \in {"idle", "runtime"} /\ b.file = "none"
      /\ GoodAsk(b) /\ ReadsHold(b) /\ GoodAsk(b)' /\ ReadsHold(b)'
  BY <1>2, AskGood, ThenGood
<1>4. CASE ask[r].seen = NoCred \/ ~Usable(live)
  <2>1. RequestGoes(r, b) /\ UNCHANGED newestAuth
    BY <1>2, <1>4 DEF QueryLive
  <2> QED
    BY <1>1, <1>3, <2>1, StillStep DEF InMemory
<1>5. CASE ~(ask[r].seen = NoCred \/ ~Usable(live))
  <2>1. PICK c \in AuthContent :
          /\ Queried(live, c)
          /\ IF newestAuth' = newestAuth \/ c = NoCred
             THEN RequestGoes(r, Then(ask[r]))
             ELSE RequestGoes(r, [ask[r] EXCEPT !.at = "truncate", !.cred = c])
    BY <1>5 DEF QueryLive
  <2>2. PICK d : d = live
    OBVIOUS
  <2>3. d \in AuthContent /\ InTime(d) /\ FilesTyped
    BY <2>2, AskGood DEF FilesTyped, FilesInTime
  <2>4. /\ Later /\ (newestAuth' = newestAuth => c \in {d, NoCred})
        /\ c # NoCred => c \in AuthContent /\ InTime(c)' /\ Replaces(c, d)' /\ (d \in Cred => c \in Cred)
        /\ newestAuth' # newestAuth => d \in Cred /\ (c # NoCred => c \in Cred)
    BY <1>1, <2>1, <2>2, <2>3, QueriedGood
  <2>5. CASE newestAuth' = newestAuth \/ c = NoCred
    BY <1>1, <1>2, <1>3, <2>1, <2>4, <2>5, Quiet DEF InMemory
  <2>6. CASE ~(newestAuth' = newestAuth \/ c = NoCred)
    <3>1. PICK a : a = [ask[r] EXCEPT !.at = "truncate", !.cred = c]
      OBVIOUS
    <3>2. RequestGoes(r, a)
      BY <2>1, <2>6, <3>1
    <3>3. a \in AskRec
      <4>1. ask[r] \in AskRec /\ "truncate" \in AskStep
        BY AskGood DEF AskStep
      <4> QED
        BY <3>1, <4>1 DEF AskRec
    <3>4. /\ a.at = "truncate" /\ a.copies = ask[r].copies /\ a.cred = c
          /\ a.file = ask[r].file /\ a.alone = ask[r].alone
      BY <3>1, AskTyped DEF AskRec
    <3>5. GoodAsk(a)'
      <4>1. \A m \in AccountName : InTime(a.copies[m])'
        BY <2>3, <2>4, <3>4, AskGood, InTimeLater DEF GoodAsk
      <4> QED
        BY <2>4, <2>6, <3>3, <3>4, <4>1 DEF GoodAsk
    <3>6. ReadsHold(a)'
      <4>1. live' = d
        BY <1>1, <2>2 DEF authFile
      <4>2. Replaces(a.cred, live)'
        BY <2>4, <2>6, <3>4, <4>1 DEF Replaces
      <4> QED
        BY <3>4, <4>2 DEF ReadsHold
    <3> QED
      BY <1>1, <2>4, <3>2, <3>4, <3>5, <3>6, Quiet DEF InMemory
  <2> QED
    BY <2>5, <2>6
<1> QED
  BY <1>4, <1>5

-----------------------------------------------------------------------------
(* Steps that end a request, or have nothing at hand *)

EarlyStep == {"idle", "list", "runtime", "load", "name", "starting", "running", "failed", "killed", "add"}
LEMMA EarlyReads ==
  ASSUME NEW a, a.at \in EarlyStep PROVE ReadsHold(a)
BY DEF EarlyStep, ReadsHold

LEMMA GotoStep ==
  ASSUME AccountsInv, NEW r \in CodexRequest, NEW at \in {"running", "failed", "killed"}, Goto(r, at),
         UNCHANGED <<accountRecords, authFile, backups, newestAuth>>, ask[r].at \in {"starting", "running", "compare"}
  PROVE  AccountsInv' /\ HeldStep
<1>1. PICK a : a = [ask[r] EXCEPT !.at = at]
  OBVIOUS
<1>2. ask[r] \in AskRec /\ at \in AskStep
  BY AskGood DEF AskStep
<1>3. a \in AskRec
  BY <1>1, <1>2 DEF AskRec
<1>4. a.at = at /\ a.copies = ask[r].copies /\ a.cred = ask[r].cred /\ a.file = ask[r].file
  BY <1>1, <1>2 DEF AskRec
<1>5. GoodAsk(a) /\ ReadsHold(a)
  BY <1>3, <1>4, AskGood, EarlyReads DEF GoodAsk, Carries, EarlyStep
<1> QED
  BY <1>1, <1>4, <1>5, StillStep DEF Goto, InMemory

-----------------------------------------------------------------------------
(* A switch, before it touches a file *)

LEMMA LoadRecordStep ==
  ASSUME AccountsInv, NEW r \in CodexRequest, LoadRecord(r)
  PROVE  AccountsInv' /\ HeldStep
<1>1. CASE ~Taken(ask[r].name)
  BY <1>1, LeavesStep DEF LoadRecord, InMemory
<1>2. CASE Taken(ask[r].name)
  <2> DEFINE n == ask[r].name
             c == accountRecords[n]
  <2>1. n \in AccountName /\ c \in Cred /\ InTime(c)
    BY <1>2, AskGood DEF Taken, Stored, FilesTyped, FilesInTime, Saved
  <2>2. PICK a : a = [ask[r] EXCEPT !.at = "compare", !.cred = c]
    OBVIOUS
  <2>3. RequestGoes(r, a)
    BY <1>2, <2>2 DEF LoadRecord
  <2> HIDE DEF c
  <2>4. a \in AskRec
    <3>1. ask[r] \in AskRec /\ c \in AuthContent /\ "compare" \in AskStep
      BY <2>1, AskGood, Contents DEF AskStep
    <3> QED
      BY <2>2, <3>1 DEF AskRec
  <2>5. /\ a.at = "compare" /\ a.copies = ask[r].copies /\ a.cred = c /\ a.name = n
        /\ a.file = ask[r].file /\ a.alone = ask[r].alone
    BY <2>2, AskTyped DEF AskRec
  <2>6. GoodAsk(a)
    BY <2>1, <2>4, <2>5, AskGood DEF GoodAsk
  <2>7. ReadsHold(a)
    BY <2>1, <2>5 DEF ReadsHold, RecordIs, c
  <2> QED
    BY <2>3, <2>5, <2>6, <2>7, StillStep DEF LoadRecord, InMemory
<1> QED
  BY <1>1, <1>2

LEMMA CompareLiveStep ==
  ASSUME AccountsInv, NEW r \in CodexRequest, CompareLive(r)
  PROVE  AccountsInv' /\ HeldStep
<1> DEFINE c == ask[r].cred
<1>1. /\ ask[r].at = "compare" /\ c \in Cred /\ live \in AuthContent /\ InTime(live)
      /\ UNCHANGED <<accountRecords, authFile, newestAuth>>
  BY AskGood DEF CompareLive, GoodAsk, Carries, FilesTyped, FilesInTime
<1>2. CASE Usable(live) /\ (SameCredential(live, c) \/ Adopts(live, c))
  <2>1. PICK a : a = [ask[r] EXCEPT !.seen = live, !.at = "switched", !.cred = live]
    OBVIOUS
  <2>2. RequestGoes(r, a) /\ UNCHANGED backups
    <3>1. [[ask[r] EXCEPT !.seen = live] EXCEPT !.at = "switched", !.cred = live] = a
      BY <2>1, AskTyped DEF AskRec
    <3> QED
      BY <1>2, <3>1 DEF CompareLive
  <2>3. a \in AskRec
    <3>1. ask[r] \in AskRec /\ live \in AuthContent /\ "switched" \in AskStep
      BY <1>1, AskGood DEF AskStep
    <3> QED
      BY <2>1, <3>1 DEF AskRec
  <2>4. /\ a.at = "switched" /\ a.copies = ask[r].copies /\ a.cred = live /\ a.seen = live
        /\ a.name = ask[r].name /\ a.file = ask[r].file /\ a.alone = ask[r].alone
    BY <2>1, AskTyped DEF AskRec
  <2>5. live \in Cred /\ live.gen \in Nat
    BY <1>1, <1>2, Contents, CodexAssumption DEF Cred
  <2>6. GoodAsk(a)
    BY <1>1, <2>3, <2>4, <2>5, AskGood DEF GoodAsk
  <2>7. ASSUME a.alone PROVE ReadsHold(a)
    <3>1. RecordIs(ask[r], c)
      BY <1>1, <2>4, <2>7, AskGood DEF ReadsHold
    <3>2. a.name \in AccountName /\ (RecordIs(a, a.cred) \/ Adopts(a.cred, accountRecords[a.name]))
      BY <1>2, <2>4, <3>1 DEF RecordIs, SameCredential
    <3>3. SeenIsOld(a)
      BY <2>4, <2>5 DEF SeenIsOld, NewerThan
    <3> QED
      BY <2>4, <3>2, <3>3 DEF ReadsHold
  <2> QED
    BY <1>1, <2>2, <2>4, <2>6, <2>7, StillStep DEF InMemory
<1>3. CASE ~(Usable(live) /\ (SameCredential(live, c) \/ Adopts(live, c)))
  <2>1. PICK a : a = [ask[r] EXCEPT !.seen = live, !.at = "draft"]
    OBVIOUS
  <2>2. ASSUME ~(UNCHANGED backups /\ Goto(r, "failed"))
        PROVE  RequestGoes(r, a) /\ backups' = BackedUp(live)
    <3>1. [[ask[r] EXCEPT !.seen = live] EXCEPT !.at = "draft"] = a
      BY <2>1, AskTyped DEF AskRec
    <3> QED
      BY <1>3, <2>2, <3>1 DEF CompareLive
  <2>9. CASE UNCHANGED backups /\ Goto(r, "failed")
    BY <1>1, <2>9, GotoStep
  <2> SUFFICES ASSUME RequestGoes(r, a), backups' = BackedUp(live) PROVE AccountsInv' /\ HeldStep
    BY <2>2, <2>9
  <2>3. a \in AskRec
    <3>1. ask[r] \in AskRec /\ live \in AuthContent /\ "draft" \in AskStep
      BY <1>1, AskGood DEF AskStep
    <3> QED
      BY <2>1, <3>1 DEF AskRec
  <2>4. /\ a.at = "draft" /\ a.copies = ask[r].copies /\ a.cred = c /\ a.seen = live
        /\ a.name = ask[r].name /\ a.file = ask[r].file /\ a.alone = ask[r].alone
    BY <2>1, AskTyped DEF AskRec
  <2>5. /\ accountRecords' = accountRecords /\ live' = live /\ aside' = aside /\ draft' = draft
        /\ newestAuth' = newestAuth
    BY <1>1 DEF authFile
  <2>6. Later
    <3>1. backups' \subseteq Cred /\ backups \subseteq backups'
      BY <1>1, AskGood, Contents DEF BackedUp, FilesTyped
    <3> QED
      BY <2>5, <3>1, AskGood, CodexAssumption DEF Later, FilesTyped
  <2>7. GoodAsk(a)'
    BY <1>1, <2>3, <2>4, <2>6, AskGood, InTimeLater DEF GoodAsk
  <2>8. ASSUME a.alone PROVE ReadsHold(a)'
    <3>1. RecordIs(ask[r], c)
      BY <1>1, <2>4, <2>8, AskGood DEF ReadsHold
    <3>2. IsBackedUp(live)'
      BY <2>5, Contents DEF IsBackedUp, BackedUp
    <3>3. SeenIsOld(a)
      <4>1. CASE live \in Cred
        BY <1>3, <2>4, <4>1 DEF SeenIsOld, Adopts, Usable
      <4>2. CASE live \notin Cred
        <5>1. live.gen = 0 /\ c.gen \in Nat
          BY <1>1, <4>2, Contents, CodexAssumption DEF NoCred, Empty, Cred
        <5> QED
          BY <2>4, <5>1 DEF SeenIsOld, NewerThan
      <4> QED
        BY <4>1, <4>2
    <3> QED
      BY <2>4, <2>5, <3>1, <3>2, <3>3 DEF ReadsHold, RecordIs, SeenIsOld
  <2> QED
    BY <1>1, <2>4, <2>6, <2>7, <2>8, Quiet DEF InMemory
<1> QED
  BY <1>2, <1>3

LEMMA AnswerSwitchStep ==
  ASSUME AccountsInv, NEW r \in CodexRequest, AnswerSwitch(r)
  PROVE  AccountsInv' /\ HeldStep
<1>1. PICK l \in BOOLEAN : l = ask[r].alone
  BY AskTyped DEF AskRec
<1>2. PICK z : z = Nothing
  OBVIOUS
<1>3. /\ z \in AskRec /\ z.file = "none" /\ z.cred = NoCred
      /\ \A n \in AccountName : z.copies[n] = NoCred
  BY <1>2, NothingGood DEF Nothing
<1>4. PICK a : a = [z EXCEPT !.at = "list", !.kind = "switch", !.alone = l]
  OBVIOUS
<1>5. RequestGoes(r, a)
  BY <1>1, <1>2, <1>4, Zenon DEF AnswerSwitch
<1>6. "list" \in AskStep /\ "switch" \in CodexKind \cup {"none"}
  BY DEF AskStep, CodexKind
<1>7. a \in AskRec
  BY <1>3, <1>4, <1>6 DEF AskRec
<1>8. a.at = "list" /\ a.file = z.file /\ a.cred = z.cred /\ a.copies = z.copies
  BY <1>3, <1>4 DEF AskRec
<1> QED
  BY <1>3, <1>5, <1>7, <1>8, FreshAsk, StillStep DEF AnswerSwitch, InMemory

-----------------------------------------------------------------------------
(* Imports and logins *)

LEMMA EndOfRequestStep ==
  ASSUME AccountsInv, NEW r \in CodexRequest, EndOfRequest(r)
  PROVE  AccountsInv' /\ HeldStep
<1>1. PICK a : a = [ask[r] EXCEPT !.cancelled = TRUE]
  OBVIOUS
<1>2. ask[r] \in AskRec
  BY AskGood
<1>3. a \in AskRec
  BY <1>1, <1>2 DEF AskRec
<1>4. a.at = ask[r].at /\ a.copies = ask[r].copies /\ a.cred = ask[r].cred /\ a.file = ask[r].file
  BY <1>1, <1>2 DEF AskRec
<1>5. GoodAsk(a) /\ ReadsHold(a)
  BY <1>3, <1>4, AskGood, EarlyReads DEF GoodAsk, Carries, EarlyStep, EndOfRequest
<1> QED
  BY <1>1, <1>4, <1>5, StillStep DEF EndOfRequest, InMemory

LEMMA LoggedInStep ==
  ASSUME AccountsInv, NEW r \in CodexRequest, LoggedIn(r)
  PROVE  AccountsInv' /\ HeldStep
<1>1. CASE Goto(r, "failed")
  BY <1>1, GotoStep DEF LoggedIn
<1>2. ASSUME NEW i \in Ident,
             RequestGoes(r, [ask[r] EXCEPT !.at = "name", !.cred = [who |-> i, gen |-> newestAuth[i]]])
      PROVE  AccountsInv' /\ HeldStep
  <2>1. PICK c : c = [who |-> i, gen |-> newestAuth[i]]
    OBVIOUS
  <2>2. c \in Cred /\ InTime(c)
    BY <2>1, AskGood, CodexAssumption DEF Cred, FilesTyped, InTime
  <2>3. PICK a : a = [ask[r] EXCEPT !.at = "name", !.cred = c]
    OBVIOUS
  <2>4. ask[r] \in AskRec /\ c \in AuthContent /\ "name" \in AskStep
    BY <2>2, AskGood, Contents DEF AskStep
  <2>5. a \in AskRec
    BY <2>3, <2>4 DEF AskRec
  <2>6. a.at = "name" /\ a.copies = ask[r].copies /\ a.cred = c /\ a.file = ask[r].file
    BY <2>3, <2>4 DEF AskRec
  <2>7. GoodAsk(a) /\ ReadsHold(a)
    BY <2>2, <2>5, <2>6, AskGood, EarlyReads DEF GoodAsk, EarlyStep
  <2> QED
    BY <1>2, <2>1, <2>3, <2>6, <2>7, StillStep DEF LoggedIn, InMemory
<1> QED
  BY <1>1, <1>2 DEF LoggedIn

LEMMA ResolveNameStep ==
  ASSUME AccountsInv, NEW r \in CodexRequest, ResolveName(r)
  PROVE  AccountsInv' /\ HeldStep
<1>1. CASE ask[r].name = Unnamed /\ AccountName = Stored
  BY <1>1, LeavesStep DEF ResolveName, InMemory
<1>2. CASE ~(ask[r].name = Unnamed /\ AccountName = Stored)
  <2> DEFINE n == IF ask[r].name = Unnamed THEN Least(AccountName \ Stored) ELSE ask[r].name
  <2>1. n \in Names
    <3>1. ask[r].name \in Names
      BY AskTyped DEF AskRec
    <3>2. CASE ask[r].name = Unnamed
      <4>1. AccountName \ Stored \in SUBSET AccountName /\ AccountName \ Stored # {}
        BY <1>2, <3>2 DEF Stored
      <4> QED
        BY <3>2, <4>1, LeastIn, Contents
    <3> QED
      BY <3>1, <3>2
  <2>2. PICK a : a = [ask[r] EXCEPT !.at = "add", !.name = n]
    OBVIOUS
  <2>3. RequestGoes(r, a)
    BY <1>2, <2>2 DEF ResolveName
  <2> HIDE DEF n
  <2>4. ask[r] \in AskRec /\ "add" \in AskStep
    BY AskGood DEF AskStep
  <2>5. a \in AskRec
    BY <2>1, <2>2, <2>4 DEF AskRec
  <2>6. a.at = "add" /\ a.copies = ask[r].copies /\ a.cred = ask[r].cred /\ a.file = ask[r].file
    BY <2>2, <2>4 DEF AskRec
  <2>7. GoodAsk(a) /\ ReadsHold(a)
    BY <2>5, <2>6, AskGood, EarlyReads DEF GoodAsk, Carries, EarlyStep, ResolveName
  <2> QED
    BY <2>3, <2>6, <2>7, StillStep DEF ResolveName, InMemory
<1> QED
  BY <1>1, <1>2

LEMMA AskStepKeeps ==
  ASSUME AccountsInv, NEW r \in CodexRequest, Ask(r)
  PROVE  AccountsInv' /\ HeldStep
<1>1. PICK k \in Asks, n \in Names, o \in BOOLEAN, i \in Ident :
       /\ k = "switch" => n # Unnamed /\ ~o
       /\ k \in {"accounts", "status"} => n = Unnamed /\ ~o
       /\ n = Unnamed => ~o
       /\ k = "login" => n = Unnamed \/ o \/ ~Taken(n)
       /\ RequestGoes(r, [Nothing EXCEPT
            !.at = FirstStep[k], !.kind = k, !.name = n, !.overwrite = o,
            !.cred = IF k = "import" THEN [who |-> i, gen |-> newestAuth[i]] ELSE NoCred])
  BY Zenon DEF Ask
<1>2. PICK c : c = IF k = "import" THEN [who |-> i, gen |-> newestAuth[i]] ELSE NoCred
  OBVIOUS
<1>3. PICK s : s = FirstStep[k]
  OBVIOUS
<1>4. PICK z : z = Nothing
  OBVIOUS
<1>5. PICK a : a = [z EXCEPT !.at = s, !.kind = k, !.name = n, !.overwrite = o, !.cred = c]
  OBVIOUS
<1>6. RequestGoes(r, a)
  BY <1>1, <1>2, <1>3, <1>4, <1>5, Zenon
<1>7. k \in CodexKind
  BY CodexAssumption
<1>8. s \in AskStep /\ s \in EarlyStep /\ (s = "name" => k = "import") /\ s # "add"
  BY <1>3, <1>7 DEF FirstStep, CodexKind, AskStep, EarlyStep
<1>9. c \in AuthContent /\ InTime(c) /\ (k = "import" => c \in Cred)
  BY <1>2, AskGood, Contents, CodexAssumption DEF FilesTyped, Cred, InTime
<1>10. z \in AskRec /\ z.file = "none" /\ \A m \in AccountName : z.copies[m] = NoCred
  BY <1>4, NothingGood DEF Nothing
<1>11. a \in AskRec
  BY <1>5, <1>7, <1>8, <1>9, <1>10 DEF AskRec
<1>12. a.at = s /\ a.cred = c /\ a.copies = z.copies /\ a.file = z.file
  BY <1>5, <1>10 DEF AskRec
<1>13. GoodAsk(a) /\ ReadsHold(a)
  <2>1. Carries(s) => s = "name"
    BY <1>8 DEF Carries, EarlyStep
  <2>2. \A m \in AccountName : InTime(a.copies[m])
    BY <1>10, <1>12, Contents DEF InTime
  <2> QED
    BY <1>8, <1>9, <1>11, <1>12, <2>1, <2>2, EarlyReads DEF GoodAsk, EarlyStep
<1>14. ask[r].at = "idle"
  BY NothingGood DEF Ask
<1> QED
  BY <1>6, <1>10, <1>12, <1>13, <1>14, StillStep DEF Ask, InMemory

-----------------------------------------------------------------------------
(* The steps that save a record *)

\* What replaces an accepted credential is that credential.
LEMMA Accepted ==
  ASSUME NEW c \in Cred, NEW d \in Cred, Replaces(c, d), d.gen = newestAuth[d.who]
  PROVE  c = d
BY DEF Cred, Replaces

LEMMA AsideStillCounts ==
  ASSUME AsideCounts, NEW r \in CodexRequest, ask[r].at \notin {"put", "tidy"},
         \A q \in CodexRequest \ {r} : Stays(q)
  PROVE  AsideCounts'
BY DEF AsideCounts, Stays

LEMMA SavedFiles ==
  ASSUME AccountsInv, NEW n \in Names, NEW c \in Cred, InTime(c), Save(n, c),
         UNCHANGED <<authFile, backups, newestAuth>>
  PROVE  /\ Later /\ FilesInTime'
         /\ live' = live /\ aside' = aside /\ draft' = draft /\ backups' = backups /\ newestAuth' = newestAuth
         /\ n \in AccountName => accountRecords'[n] = c
         /\ \A m \in AccountName \ {n} : accountRecords'[m] = accountRecords[m]
<1>1. /\ live' = live /\ aside' = aside /\ draft' = draft /\ backups' = backups /\ newestAuth' = newestAuth
      /\ accountRecords' = [accountRecords EXCEPT ![n] = c]
      /\ FilesTyped /\ FilesInTime
  BY DEF authFile, Save, AccountsInv
<1>2. /\ accountRecords' \in [AccountName -> Saved]
      /\ n \in AccountName => accountRecords'[n] = c
      /\ \A m \in AccountName \ {n} : accountRecords'[m] = accountRecords[m]
  BY <1>1 DEF FilesTyped, Saved
<1>3. Later
  BY <1>1, <1>2, CodexAssumption DEF Later, FilesTyped
<1>4. FilesInTime'
  BY <1>1, <1>2 DEF FilesInTime, InTime
<1> QED
  BY <1>1, <1>2, <1>3, <1>4

LEMMA SavingStep ==
  ASSUME AccountsInv, NEW r \in CodexRequest, NEW a, RequestGoes(r, a),
         NEW n \in Names, NEW c \in Cred, InTime(c), Save(n, c), UNCHANGED <<authFile, backups, newestAuth>>,
         GoodAsk(a)', a.alone => ReadsHold(a)', a.file \in {ask[r].file, "none"},
         ask[r].at \in {"save", "switched", "add"}, a.at # ask[r].at,
         ask[r].at = "save" => n \in AccountName /\ c = ask[r].cred,
         \A d \in Cred : n \in AccountName /\ accountRecords[n] = d /\ d.gen = newestAuth[d.who]
                           => c = d \/ ~ask[r].alone \/ ask[r].overwrite
  PROVE  AccountsInv' /\ HeldStep
<1>1. /\ Later /\ FilesInTime'
      /\ live' = live /\ aside' = aside /\ draft' = draft /\ backups' = backups /\ newestAuth' = newestAuth
      /\ n \in AccountName => accountRecords'[n] = c
      /\ \A m \in AccountName \ {n} : accountRecords'[m] = accountRecords[m]
  BY SavedFiles
<1>2. a \in AskRec
  BY DEF GoodAsk
<1>3. /\ ask' \in [CodexRequest -> AskRec] /\ ask'[r] = a
      /\ \A q \in CodexRequest \ {r} : Stays(q) /\ ask'[q].file = ask[q].file
  BY <1>2, OthersStay DEF AccountsInv, AsksGood
<1>4. Leftovers'
  BY <1>1, <1>3 DEF AccountsInv, Leftovers, Stays
<1>5. AccountsInv'
  BY <1>1, <1>3, <1>4, AccountsStep
<1>6. ASSUME NEW d \in Cred, d.gen = newestAuth[d.who], Holds(d)
      PROVE  Holds(d)' \/ Excused(d.who)
  <2>1. CASE \E m \in AccountName \ {n} : accountRecords[m] = d
    BY <1>1, <2>1 DEF Holds
  <2>2. CASE n \in AccountName /\ accountRecords[n] = d
    <3>1. CASE c = d
      BY <1>1, <2>2, <3>1 DEF Holds
    <3>2. CASE ~ask[r].alone \/ ask[r].overwrite
      BY <1>3, <3>2 DEF Excused
    <3> QED
      BY <1>6, <2>2, <3>1, <3>2
  <2>3. CASE d \in {live, draft} \/ d \in backups \/ (d = aside /\ AsideCounts)
    BY <1>1, <1>3, <2>3, AsideStillCounts DEF Holds
  <2>4. CASE \E q \in CodexRequest : ask[q].at \in InMemory /\ ask[q].cred = d
    <3>1. PICK q \in CodexRequest : ask[q].at \in InMemory /\ ask[q].cred = d
      BY <2>4
    <3>2. CASE q = r
      BY <1>1, <3>1, <3>2 DEF Holds, InMemory
    <3>3. CASE q # r
      BY <1>3, <3>1, <3>3 DEF Holds, Stays
    <3> QED
      BY <3>2, <3>3
  <2> QED
    BY <1>6, <2>1, <2>2, <2>3, <2>4 DEF Holds
<1> QED
  BY <1>5, <1>6, AskGood, HeldStepFrom

LEMMA NotSavedFiles ==
  ASSUME AccountsInv, NEW n \in Names, SaveFailed(n), UNCHANGED <<authFile, backups, newestAuth>>
  PROVE  /\ Later /\ FilesInTime'
         /\ live' = live /\ aside' = aside /\ draft' = draft /\ backups' = backups /\ newestAuth' = newestAuth
         /\ \A m \in AccountName \ {n} : accountRecords'[m] = accountRecords[m]
<1>1. /\ live' = live /\ aside' = aside /\ draft' = draft /\ backups' = backups /\ newestAuth' = newestAuth
      /\ accountRecords' \in {accountRecords, [accountRecords EXCEPT ![n] = NoCred]}
      /\ FilesTyped /\ FilesInTime
  BY DEF authFile, SaveFailed, AccountsInv
<1>2. /\ accountRecords' \in [AccountName -> Saved]
      /\ \A m \in AccountName : accountRecords'[m] \in {accountRecords[m], NoCred}
      /\ \A m \in AccountName \ {n} : accountRecords'[m] = accountRecords[m]
  BY <1>1, Contents DEF FilesTyped
<1>3. Later
  BY <1>1, <1>2, CodexAssumption DEF Later, FilesTyped
<1>4. FilesInTime'
  <2>1. \A m \in AccountName : InTime(accountRecords'[m])
    BY <1>1, <1>2, Contents DEF FilesInTime, InTime
  <2> QED
    BY <1>1, <2>1 DEF FilesInTime, InTime
<1> QED
  BY <1>1, <1>2, <1>3, <1>4

\* A save that fails loses the record, if anything: it is in auth.json too, the
\* request may lose it, or it is what a query could not save.
LEMMA NotSavingStep ==
  ASSUME AccountsInv, NEW r \in CodexRequest, NEW a, RequestGoes(r, a),
         NEW n \in Names, SaveFailed(n), UNCHANGED <<authFile, backups, newestAuth>>,
         GoodAsk(a)', a.alone => ReadsHold(a)', a.file \in {ask[r].file, "none"},
         ask[r].at \in {"save", "switched", "add"}, a.at # ask[r].at,
         ask[r].at = "save" => NotSaved(r, ask[r].cred.who),
         \A d \in Cred : n \in AccountName /\ accountRecords[n] = d /\ d.gen = newestAuth[d.who]
                           => live = d \/ ~ask[r].alone \/ ask[r].overwrite \/ NotSaved(r, d.who)
  PROVE  AccountsInv' /\ HeldStep
<1>1. /\ Later /\ FilesInTime'
      /\ live' = live /\ aside' = aside /\ draft' = draft /\ backups' = backups /\ newestAuth' = newestAuth
      /\ \A m \in AccountName \ {n} : accountRecords'[m] = accountRecords[m]
  BY NotSavedFiles
<1>2. a \in AskRec
  BY DEF GoodAsk
<1>3. /\ ask' \in [CodexRequest -> AskRec] /\ ask'[r] = a
      /\ \A q \in CodexRequest \ {r} : Stays(q) /\ ask'[q].file = ask[q].file
  BY <1>2, OthersStay DEF AccountsInv, AsksGood
<1>4. Leftovers'
  BY <1>1, <1>3 DEF AccountsInv, Leftovers, Stays
<1>5. AccountsInv'
  BY <1>1, <1>3, <1>4, AccountsStep
<1>6. ASSUME NEW d \in Cred, d.gen = newestAuth[d.who], Holds(d)
      PROVE  Holds(d)' \/ Excused(d.who)
  <2>1. CASE \E m \in AccountName \ {n} : accountRecords[m] = d
    BY <1>1, <2>1 DEF Holds
  <2>2. CASE n \in AccountName /\ accountRecords[n] = d
    <3>1. CASE live = d
      BY <1>1, <3>1 DEF Holds
    <3>2. CASE ~ask[r].alone \/ ask[r].overwrite \/ NotSaved(r, d.who)
      BY <1>3, <3>2 DEF Excused
    <3> QED
      BY <1>6, <2>2, <3>1, <3>2
  <2>3. CASE d \in {live, draft} \/ d \in backups \/ (d = aside /\ AsideCounts)
    BY <1>1, <1>3, <2>3, AsideStillCounts DEF Holds
  <2>4. ASSUME NEW q \in CodexRequest, ask[q].at \in InMemory, ask[q].cred = d
        PROVE  Holds(d)' \/ Excused(d.who)
    <3>1. CASE q = r
      BY <1>3, <2>4, <3>1 DEF Excused, InMemory
    <3>2. CASE q # r
      BY <1>3, <2>4, <3>2 DEF Holds, Stays
    <3> QED
      BY <3>1, <3>2
  <2> QED
    BY <1>6, <2>1, <2>2, <2>3, <2>4 DEF Holds
<1> QED
  BY <1>5, <1>6, AskGood, HeldStepFrom

LEMMA SaveRecordStep ==
  ASSUME AccountsInv, NEW r \in CodexRequest, SaveRecord(r)
  PROVE  AccountsInv' /\ HeldStep
<1> DEFINE n == Least(ask[r].todo)
           c == ask[r].cred
<1>1. /\ ask[r].at = "save" /\ (Save(n, c) \/ (Fails /\ SaveFailed(n)))
      /\ UNCHANGED <<authFile, backups, newestAuth>>
      /\ RequestGoes(r, [ask[r] EXCEPT !.at = "records", !.todo = @ \ {n}, !.cred = NoCred])
  BY DEF SaveRecord
<1>2. c \in Cred /\ InTime(c) /\ ask[r] \in AskRec /\ ask[r].todo \in SUBSET AccountName
  BY <1>1, AskGood DEF GoodAsk, Carries, AskRec
<1>3. n \in ask[r].todo /\ n \in AccountName /\ n \in Names
  BY <1>1, <1>2, LeastIn, AskGood, Contents DEF GoodAsk
<1>4. /\ Later /\ \A m \in AccountName \ {n} : accountRecords'[m] = accountRecords[m]
  BY <1>1, <1>2, <1>3, SavedFiles, NotSavedFiles
<1>5. PICK a : a = [ask[r] EXCEPT !.at = "records", !.todo = @ \ {n}, !.cred = NoCred]
  OBVIOUS
<1> HIDE DEF n, c
<1>6. a \in AskRec
  <2>1. NoCred \in AuthContent /\ "records" \in AskStep
    BY Contents DEF AskStep
  <2> QED
    BY <1>2, <1>5, <2>1 DEF AskRec
<1>7. /\ a.at = "records" /\ a.copies = ask[r].copies /\ a.cred = NoCred /\ a.file = ask[r].file
      /\ a.alone = ask[r].alone /\ a.todo = ask[r].todo \ {n}
  BY <1>2, <1>5 DEF AskRec
<1>8. GoodAsk(a)'
  <2>1. \A m \in AccountName : InTime(a.copies[m])'
    BY <1>4, <1>7, AskGood, InTimeLater DEF GoodAsk
  <2> QED
    BY <1>6, <1>7, <2>1, Contents DEF GoodAsk, Carries, InTime
<1>9. ASSUME a.alone PROVE ReadsHold(a)'
  <2>1. ReadsHold(ask[r])
    BY <1>7, <1>9, AskGood
  <2> QED
    BY <1>1, <1>2, <1>4, <1>7, <2>1 DEF ReadsHold
<1>10. ASSUME NEW d \in Cred, accountRecords[n] = d, d.gen = newestAuth[d.who], ask[r].alone
       PROVE  c = d
  <2>1. Replaces(c, d)
    BY <1>1, <1>10, AskGood DEF ReadsHold, n, c
  <2> QED
    BY <1>2, <1>10, <2>1, Accepted
<1>11. RequestGoes(r, a) /\ c = ask[r].cred
  BY <1>1, <1>5 DEF c
<1>12. CASE Save(n, c)
  BY <1>1, <1>2, <1>3, <1>7, <1>8, <1>9, <1>10, <1>11, <1>12, SavingStep
<1>13. CASE Fails /\ SaveFailed(n)
  <2>1. NotSaved(r, c.who)
    BY <1>1, <1>11, <1>13 DEF NotSaved
  <2> QED
    BY <1>1, <1>3, <1>7, <1>8, <1>9, <1>10, <1>11, <1>13, <2>1, NotSavingStep
<1> QED
  BY <1>1, <1>12, <1>13

\* The request that a switch becomes by going on to its next file operation.
LEMMA SwitchGoesOn ==
  ASSUME AccountsInv, Later, NEW r \in CodexRequest, Carries(ask[r].at),
         NEW at \in AskStep, at # "save", NEW a, a = [ask[r] EXCEPT !.at = at]
  PROVE  /\ a \in AskRec /\ a.at = at /\ a.copies = ask[r].copies /\ a.cred = ask[r].cred /\ a.name = ask[r].name
         /\ a.seen = ask[r].seen /\ a.file = ask[r].file /\ a.alone = ask[r].alone /\ a.cred \in Cred
         /\ GoodAsk(a)'
<1>1. ask[r] \in AskRec /\ ask[r].cred \in Cred
  BY AskGood DEF GoodAsk
<1>2. a \in AskRec
  BY <1>1 DEF AskRec
<1>3. /\ a.at = at /\ a.copies = ask[r].copies /\ a.cred = ask[r].cred /\ a.name = ask[r].name
      /\ a.seen = ask[r].seen /\ a.file = ask[r].file /\ a.alone = ask[r].alone
  BY <1>1 DEF AskRec
<1>4. (\A m \in AccountName : InTime(a.copies[m])') /\ InTime(a.cred)'
  BY <1>3, AskGood, InTimeLater DEF GoodAsk
<1> QED
  BY <1>1, <1>2, <1>3, <1>4 DEF GoodAsk

LEMMA SaveSwitchedStep ==
  ASSUME AccountsInv, NEW r \in CodexRequest, SaveSwitched(r)
  PROVE  AccountsInv' /\ HeldStep
<1> DEFINE n == ask[r].name
           c == ask[r].cred
<1>0. /\ ask[r].at = "switched" /\ UNCHANGED <<authFile, backups, newestAuth>>
      /\ \/ Save(n, c) /\ RequestGoes(r, [ask[r] EXCEPT !.at = "answer"])
         \/ SaveFailed(n) /\ RequestGoes(r, [ask[r] EXCEPT !.at = "failed"])
  BY DEF SaveSwitched, Goto
<1>14. ASSUME NEW d \in Cred, n \in AccountName, accountRecords[n] = d, d.gen = newestAuth[d.who], ask[r].alone
       PROVE  c = d /\ live = d
  <2>0. c \in Cred /\ InTime(c)
    BY <1>0, AskGood DEF GoodAsk, Carries
  <2>1. live = c /\ (c = d \/ (c.who = d.who /\ c.gen > d.gen))
    BY <1>0, <1>14, AskGood DEF ReadsHold, RecordIs, Adopts, NewerThan
  <2>2. c.gen <= newestAuth[c.who] /\ c.gen \in Nat /\ d.gen \in Nat
    BY <2>0, CodexAssumption DEF InTime, Cred
  <2> QED
    BY <1>14, <2>1, <2>2
<1>15. CASE SaveFailed(n) /\ RequestGoes(r, [ask[r] EXCEPT !.at = "failed"])
  <2>1. n \in Names /\ "failed" \in AskStep
    BY AskTyped DEF AskRec, AskStep
  <2>2. Later
    BY <1>0, <1>15, <2>1, NotSavedFiles
  <2>3. PICK a : a = [ask[r] EXCEPT !.at = "failed"]
    OBVIOUS
  <2>4. a.at = "failed" /\ a.file = ask[r].file /\ GoodAsk(a)'
    BY <1>0, <2>1, <2>2, <2>3, SwitchGoesOn DEF Carries
  <2>5. ReadsHold(a)'
    BY <2>4 DEF ReadsHold
  <2> HIDE DEF n, c
  <2> QED
    BY <1>0, <1>14, <1>15, <2>1, <2>3, <2>4, <2>5, NotSavingStep
<1> SUFFICES ASSUME Save(n, c), RequestGoes(r, [ask[r] EXCEPT !.at = "answer"])
             PROVE  AccountsInv' /\ HeldStep
  BY <1>0, <1>15
<1>1. ask[r].at = "switched" /\ UNCHANGED <<authFile, backups, newestAuth>>
  BY <1>0
<1>2. c \in Cred /\ InTime(c) /\ ask[r] \in AskRec /\ n \in Names
  BY <1>1, AskGood DEF GoodAsk, Carries, AskRec
<1>3. /\ Later /\ live' = live
      /\ n \in AccountName => accountRecords'[n] = c
  BY <1>1, <1>2, SavedFiles
<1>4. PICK a : a = [ask[r] EXCEPT !.at = "answer"]
  OBVIOUS
<1> HIDE DEF n, c
<1>5. a \in AskRec
  <2>1. "answer" \in AskStep
    BY DEF AskStep
  <2> QED
    BY <1>2, <1>4, <2>1 DEF AskRec
<1>6. /\ a.at = "answer" /\ a.copies = ask[r].copies /\ a.cred = c /\ a.file = ask[r].file
      /\ a.alone = ask[r].alone /\ a.name = n /\ a.seen = ask[r].seen
  BY <1>2, <1>4 DEF AskRec, n, c
<1>7. GoodAsk(a)'
  <2>1. (\A m \in AccountName : InTime(a.copies[m])') /\ InTime(a.cred)'
    BY <1>2, <1>3, <1>6, AskGood, InTimeLater DEF GoodAsk
  <2> QED
    BY <1>2, <1>5, <1>6, <2>1 DEF GoodAsk
<1>8. ASSUME a.alone PROVE ReadsHold(a)'
  <2>1. ReadsHold(ask[r])
    BY <1>6, <1>8, AskGood
  <2>2. live = c /\ SeenIsOld(a) /\ n \in AccountName
    BY <1>1, <1>6, <2>1 DEF ReadsHold, SeenIsOld, n, c
  <2> QED
    BY <1>3, <1>6, <2>2 DEF ReadsHold, RecordIs, SeenIsOld
<1>9. RequestGoes(r, a)
  BY <1>4
<1> QED
  BY <1>1, <1>2, <1>6, <1>7, <1>8, <1>9, <1>14, SavingStep

LEMMA AddStep ==
  ASSUME AccountsInv, NEW r \in CodexRequest, Add(r)
  PROVE  AccountsInv' /\ HeldStep
<1>1. ask[r].at = "add" /\ Leaves(r) /\ UNCHANGED <<authFile, backups, newestAuth>>
  BY DEF Add
<1>2. CASE Declined(ask[r])
  BY <1>1, <1>2, LeavesStep DEF Add, InMemory
<1>3. CASE ~Declined(ask[r])
  <2> DEFINE n == ask[r].name
             c == ask[r].cred
  <2>1. Save(n, c) \/ SaveFailed(n)
    BY <1>3 DEF Add
  <2>2. c \in Cred /\ InTime(c) /\ n \in Names
    BY <1>1, AskGood DEF GoodAsk, Carries, AskRec
  <2>3. PICK a : a = Nothing
    OBVIOUS
  <2>4. /\ a \in AskRec /\ a.at = "idle" /\ a.file = "none" /\ a.cred = NoCred
        /\ \A m \in AccountName : a.copies[m] = NoCred
    BY <2>3, NothingGood DEF Nothing
  <2>5. GoodAsk(a)' /\ ReadsHold(a)'
    BY <2>4, FreshAsk
  <2>6. ASSUME NEW d \in Cred, n \in AccountName, accountRecords[n] = d
        PROVE  ask[r].overwrite
    BY <1>3, <2>6, Contents DEF Declined, Taken, Stored
  <2> HIDE DEF n, c
  <2>7. CASE Save(n, c)
    BY <1>1, <2>2, <2>3, <2>4, <2>5, <2>6, <2>7, SavingStep DEF Leaves
  <2>8. CASE SaveFailed(n)
    BY <1>1, <2>2, <2>3, <2>4, <2>5, <2>6, <2>8, NotSavingStep DEF Leaves
  <2> QED
    BY <2>1, <2>7, <2>8
<1> QED
  BY <1>2, <1>3

-----------------------------------------------------------------------------
(* The steps on auth.json *)

LEMMA FileTypes ==
  ASSUME AccountsInv, UNCHANGED <<accountRecords, backups, newestAuth>>,
         live' \in AuthContent, aside' \in AuthContent, draft' \in AuthContent,
         InTime(live'), InTime(aside'), InTime(draft')
  PROVE  Later /\ FilesInTime'
<1>1. /\ FilesTyped /\ FilesInTime /\ accountRecords' = accountRecords /\ backups' = backups
      /\ newestAuth' = newestAuth
  BY DEF AccountsInv
<1>2. Later
  BY <1>1, CodexAssumption DEF Later, FilesTyped
<1>3. FilesInTime'
  BY <1>1 DEF FilesInTime, InTime
<1> QED
  BY <1>2, <1>3

LEMMA EmptyInTime == InTime(NoCred) /\ InTime(Empty)
BY Contents DEF InTime

\* A query that cannot write auth.json loses what it could not write.
LEMMA NotWrittenStep ==
  ASSUME AccountsInv, NEW r \in CodexRequest, ask[r].at \in {"truncate", "fill"}, Fails, RequestGoes(r, Then(ask[r])),
         live' = live, aside' = aside, draft' = draft, UNCHANGED <<accountRecords, backups, newestAuth>>
  PROVE  AccountsInv' /\ HeldStep
<1>1. Later /\ FilesInTime'
  BY AskGood, FileTypes DEF FilesTyped, FilesInTime
<1>2. PICK a : a = Then(ask[r])
  OBVIOUS
<1>3. /\ a \in AskRec /\ a.at \in {"idle", "runtime"} /\ a.file = "none" /\ GoodAsk(a)' /\ ReadsHold(a)'
  BY <1>2, AskTyped, ThenGood
<1>4. /\ ask' \in [CodexRequest -> AskRec] /\ ask'[r] = a
      /\ \A q \in CodexRequest \ {r} : Stays(q) /\ ask'[q].file = ask[q].file
  BY <1>2, <1>3, OthersStay DEF AccountsInv, AsksGood
<1>5. Leftovers'
  BY <1>3, <1>4 DEF AccountsInv, Leftovers, Stays
<1>6. AccountsInv'
  BY <1>1, <1>3, <1>4, <1>5, AccountsStep
<1>7. ASSUME NEW d \in Cred, d.gen = newestAuth[d.who], Holds(d)
      PROVE  Holds(d)' \/ Excused(d.who)
  <2>1. ASSUME NEW q \in CodexRequest, ask[q].at \in InMemory, ask[q].cred = d
        PROVE  Holds(d)' \/ Excused(d.who)
    <3>1. CASE q = r
      BY <1>3, <1>4, <2>1, <3>1 DEF Excused, NotSaved
    <3>2. CASE q # r
      BY <1>4, <2>1, <3>2 DEF Holds, Stays
    <3> QED
      BY <3>1, <3>2
  <2>2. CASE \/ \E m \in AccountName : accountRecords[m] = d
             \/ d \in {live, draft} \/ d \in backups \/ (d = aside /\ AsideCounts)
    BY <1>4, <2>2, AsideStillCounts DEF Holds
  <2> QED
    BY <1>7, <2>1, <2>2 DEF Holds
<1> QED
  BY <1>6, <1>7, AskGood, HeldStepFrom

LEMMA TruncateLiveStep ==
  ASSUME AccountsInv, NEW r \in CodexRequest, TruncateLive(r)
  PROVE  AccountsInv' /\ HeldStep
<1> DEFINE c == ask[r].cred
<1>0. /\ ask[r].at = "truncate" /\ aside' = aside /\ draft' = draft
      /\ UNCHANGED <<accountRecords, backups, newestAuth>>
      /\ \/ live' = Empty /\ RequestGoes(r, [ask[r] EXCEPT !.at = "fill", !.file = "live"])
         \/ Fails /\ live' = live /\ RequestGoes(r, Then(ask[r]))
  BY DEF TruncateLive
<1>13. CASE Fails /\ live' = live /\ RequestGoes(r, Then(ask[r]))
  BY <1>0, <1>13, NotWrittenStep
<1> SUFFICES ASSUME live' = Empty, RequestGoes(r, [ask[r] EXCEPT !.at = "fill", !.file = "live"])
             PROVE  AccountsInv' /\ HeldStep
  BY <1>0, <1>13
<1>1. ask[r].at = "truncate" /\ aside' = aside /\ draft' = draft /\ UNCHANGED <<accountRecords, backups, newestAuth>>
  BY <1>0
<1>2. c \in Cred /\ InTime(c) /\ ask[r] \in AskRec
  BY <1>1, AskGood DEF GoodAsk, Carries
<1>3. Later /\ FilesInTime'
  BY <1>1, AskGood, Contents, EmptyInTime, FileTypes DEF FilesTyped, FilesInTime
<1>4. PICK a : a = [ask[r] EXCEPT !.at = "fill", !.file = "live"]
  OBVIOUS
<1> HIDE DEF c
<1>5. a \in AskRec
  <2>1. "fill" \in AskStep
    BY DEF AskStep
  <2> QED
    BY <1>2, <1>4, <2>1 DEF AskRec
<1>6. /\ a.at = "fill" /\ a.copies = ask[r].copies /\ a.cred = c /\ a.file = "live"
  BY <1>2, <1>4 DEF AskRec, c
<1>7. GoodAsk(a)'
  <2>1. (\A m \in AccountName : InTime(a.copies[m])') /\ InTime(a.cred)'
    BY <1>2, <1>3, <1>6, AskGood, InTimeLater DEF GoodAsk
  <2> QED
    BY <1>2, <1>5, <1>6, <2>1 DEF GoodAsk
<1>8. ReadsHold(a)'
  BY <1>1, <1>6 DEF ReadsHold
<1>9. /\ ask' \in [CodexRequest -> AskRec] /\ ask'[r] = a
      /\ \A q \in CodexRequest \ {r} : Stays(q) /\ ask'[q].file = ask[q].file
  BY <1>1, <1>4, <1>5, OthersStay DEF AccountsInv, AsksGood
<1>10. Leftovers'
  BY <1>1, <1>6, <1>9 DEF AccountsInv, Leftovers, Stays
<1>11. AccountsInv'
  BY <1>3, <1>7, <1>8, <1>9, <1>10, AccountsStep
<1>12. ASSUME NEW d \in Cred, d.gen = newestAuth[d.who], Holds(d)
       PROVE  Holds(d)' \/ Excused(d.who)
  <2>1. CASE ~ask[r].alone
    BY <1>1, <1>6, <1>9, <2>1 DEF Excused
  <2>2. CASE live = d /\ ask[r].alone
    <3>1. Replaces(c, d)
      BY <1>1, <2>2, AskGood DEF ReadsHold, c
    <3>2. c = d
      BY <1>2, <1>12, <3>1, Accepted
    <3> QED
      BY <1>6, <1>9, <3>2 DEF Holds, InMemory
  <2>3. CASE \/ \E m \in AccountName : accountRecords[m] = d
             \/ d = draft \/ d \in backups \/ (d = aside /\ AsideCounts)
    BY <1>1, <1>9, <2>3, AsideStillCounts DEF Holds
  <2>4. CASE \E q \in CodexRequest : ask[q].at \in InMemory /\ ask[q].cred = d
    <3>1. PICK q \in CodexRequest : ask[q].at \in InMemory /\ ask[q].cred = d
      BY <2>4
    <3>2. ask'[q].at \in InMemory /\ ask'[q].cred = d
      BY <1>6, <1>9, <3>1 DEF Stays, InMemory, c
    <3> QED
      BY <3>2 DEF Holds
  <2> QED
    BY <1>12, <2>1, <2>2, <2>3, <2>4 DEF Holds
<1> QED
  BY <1>11, <1>12, AskGood, HeldStepFrom

LEMMA FillLiveStep ==
  ASSUME AccountsInv, NEW r \in CodexRequest, FillLive(r)
  PROVE  AccountsInv' /\ HeldStep
<1> DEFINE c == ask[r].cred
<1>0. CASE Fails /\ UNCHANGED <<live, aside>>
  BY <1>0, NotWrittenStep DEF FillLive
<1> SUFFICES ASSUME ~(Fails /\ UNCHANGED <<live, aside>>) PROVE AccountsInv' /\ HeldStep
  BY <1>0
<1>1. /\ ask[r].at = "fill" /\ draft' = draft /\ UNCHANGED <<accountRecords, backups, newestAuth>>
      /\ live' = IF ask[r].file = "live" THEN c ELSE live
      /\ aside' = IF ask[r].file = "aside" THEN c ELSE aside
      /\ RequestGoes(r, Then(ask[r]))
  BY DEF FillLive
<1>2. c \in Cred /\ InTime(c) /\ ask[r] \in AskRec
  BY <1>1, AskGood DEF GoodAsk, Carries
<1> HIDE DEF c
<1>3. Later /\ FilesInTime'
  BY <1>1, <1>2, AskGood, Contents, FileTypes DEF FilesTyped, FilesInTime
<1>4. PICK a : a = Then(ask[r])
  OBVIOUS
<1>5. /\ a \in AskRec /\ a.at \in {"idle", "runtime"} /\ a.file = "none" /\ GoodAsk(a)' /\ ReadsHold(a)'
  BY <1>2, <1>4, ThenGood
<1>6. /\ ask' \in [CodexRequest -> AskRec] /\ ask'[r] = a
      /\ \A q \in CodexRequest \ {r} : Stays(q) /\ ask'[q].file = ask[q].file
  BY <1>1, <1>4, <1>5, OthersStay DEF AccountsInv, AsksGood
<1>7. Leftovers'
  BY <1>1, <1>5, <1>6 DEF AccountsInv, Leftovers, Stays
<1>8. AccountsInv'
  BY <1>3, <1>5, <1>6, <1>7, AccountsStep
<1>9. ASSUME NEW d \in Cred, d.gen = newestAuth[d.who], Holds(d)
      PROVE  Holds(d)' \/ Excused(d.who)
  <2>1. CASE ~ask[r].alone
    BY <1>1, <1>5, <1>6, <2>1 DEF Excused
  <2>2. CASE ask[r].alone
    <3>1. live = Empty /\ live' = c /\ aside' = aside
      BY <1>1, <2>2, AskGood DEF ReadsHold
    <3>2. CASE \/ \E m \in AccountName : accountRecords[m] = d
               \/ d = draft \/ d \in backups \/ (d = aside /\ AsideCounts)
      BY <1>1, <1>6, <3>1, <3>2, AsideStillCounts DEF Holds
    <3>3. CASE live = d
      BY <3>1, <3>3, Contents
    <3>4. ASSUME NEW q \in CodexRequest, ask[q].at \in InMemory, ask[q].cred = d PROVE Holds(d)'
      <4>1. CASE q = r
        BY <3>1, <3>4, <4>1 DEF Holds, c
      <4>2. CASE q # r
        BY <1>6, <3>4, <4>2 DEF Holds, Stays
      <4> QED
        BY <4>1, <4>2
    <3> QED
      BY <1>9, <3>2, <3>3, <3>4 DEF Holds
  <2> QED
    BY <2>1, <2>2
<1> QED
  BY <1>8, <1>9, AskGood, HeldStepFrom

\* What a switch loses of the temporary and the backup file is in the records, it
\* was backed up, or a switch was overtaken: only auth.json is to be looked at.
LEMMA FilesHeld ==
  ASSUME AccountsInv, NEW r \in CodexRequest, ask[r].at \notin InMemory, \A q \in CodexRequest \ {r} : Stays(q),
         UNCHANGED <<accountRecords, backups, newestAuth>>,
         \A d \in Cred : live = d => Holds(d)' \/ Excused(d.who)
  PROVE  HeldStep
<1>1. ASSUME NEW d \in Cred, draft = d PROVE Holds(d)' \/ Excused(d.who)
  <2>1. PICK q \in CodexRequest : ask[q].at \in {"move", "put"}
    BY <1>1 DEF AccountsInv, Leftovers
  <2>2. CASE ask[q].alone
    <3>1. draft = ask[q].cred /\ RecordIs(ask[q], ask[q].cred)
      BY <2>1, <2>2, AskGood DEF ReadsHold
    <3> QED
      BY <1>1, <3>1 DEF Holds, RecordIs
  <2>3. CASE ~ask[q].alone
    BY <2>1, <2>3 DEF Excused, Overtaken
  <2> QED
    BY <2>2, <2>3
<1>2. ASSUME NEW d \in Cred, d = aside, AsideCounts PROVE Holds(d)' \/ Excused(d.who)
  <2>1. PICK q \in CodexRequest : ask[q].at \in {"put", "tidy"}
    BY <1>2 DEF AsideCounts
  <2>2. CASE ask[q].alone
    <3>1. IsBackedUp(aside)
      BY <2>1, <2>2, AskGood DEF ReadsHold
    <3> QED
      BY <1>2, <3>1 DEF Holds, IsBackedUp
  <2>3. CASE ~ask[q].alone
    BY <2>1, <2>3 DEF Excused, Overtaken
  <2> QED
    BY <2>2, <2>3
<1>3. ASSUME NEW d \in Cred, NEW q \in CodexRequest, ask[q].at \in InMemory, ask[q].cred = d PROVE Holds(d)'
  <2>1. ask'[q].at \in InMemory /\ ask'[q].cred = d
    BY <1>3 DEF Stays
  <2> QED
    BY <2>1 DEF Holds
<1>4. ASSUME NEW d \in Cred, (\E m \in AccountName : accountRecords[m] = d) \/ d \in backups PROVE Holds(d)'
  BY <1>4 DEF Holds
<1>5. \A d \in Cred : Holds(d) => Holds(d)' \/ Excused(d.who)
  BY <1>1, <1>2, <1>3, <1>4 DEF Holds
<1> QED
  BY <1>5, AskGood, HeldStepFrom

LEMMA OpenFile ==
  ASSUME AccountsInv, NEW q \in CodexRequest, ask[q].at # "fill"
  PROVE  ask[q].file = "none"
BY DEF AccountsInv, Leftovers

\* A switch that gives up, whatever it leaves of the files.
LEMMA GivesUp ==
  ASSUME AccountsInv, NEW r \in CodexRequest, ask[r].at \in {"draft", "move", "put"},
         UNCHANGED <<accountRecords, backups, newestAuth>>,
         live' \in {live, aside}, aside' \in {aside, NoCred}, draft' \in {NoCred, Empty} \/ (draft' = draft /\ ask[r].at = "draft"),
         Goto(r, "failed") \/ (\E to \in Renames : to["none"] = "none" /\ Renamed(r, "failed", to)),
         live' # live /\ live \in Cred => ~ask[r].alone
  PROVE  AccountsInv' /\ HeldStep
<1>1. Later /\ FilesInTime'
  BY AskGood, Contents, EmptyInTime, FileTypes DEF FilesTyped, FilesInTime
<1>2. PICK a : a = [ask[r] EXCEPT !.at = "failed"]
  OBVIOUS
<1>3. "failed" \in AskStep /\ Carries(ask[r].at)
  BY DEF AskStep, Carries
<1>4. a \in AskRec /\ a.at = "failed" /\ a.file = "none" /\ GoodAsk(a)'
  BY <1>1, <1>2, <1>3, SwitchGoesOn, OpenFile
<1>5. ReadsHold(a)'
  BY <1>4 DEF ReadsHold
<1>6. /\ ask' \in [CodexRequest -> AskRec] /\ ask'[r] = a
      /\ \A q \in CodexRequest \ {r} : Stays(q)
  BY <1>2, <1>3, <1>4, OthersStay, OthersStayRenamed DEF AccountsInv, AsksGood, Goto
<1>7. Leftovers'
  BY <1>4, <1>6, Contents DEF AccountsInv, Leftovers, Stays
<1>8. AccountsInv'
  BY <1>1, <1>4, <1>5, <1>6, <1>7, AccountsStep
<1>9. ASSUME NEW d \in Cred, live = d PROVE Holds(d)' \/ Excused(d.who)
  <2>1. CASE live' = live
    BY <1>9, <2>1 DEF Holds
  <2>2. CASE ~ask[r].alone
    BY <1>4, <1>6, <2>2 DEF Excused
  <2> QED
    BY <1>9, <2>1, <2>2
<1> QED
  BY <1>6, <1>8, <1>9, FilesHeld DEF InMemory

LEMMA WriteDraftStep ==
  ASSUME AccountsInv, NEW r \in CodexRequest, WriteDraft(r)
  PROVE  AccountsInv' /\ HeldStep
<1>0. CASE draft' \in {draft, Empty} /\ Goto(r, "failed")
  BY <1>0, GivesUp DEF WriteDraft
<1> SUFFICES ASSUME draft' = ask[r].cred, Goto(r, "move") PROVE AccountsInv' /\ HeldStep
  BY <1>0 DEF WriteDraft
<1>1. /\ ask[r].at = "draft" /\ draft' = ask[r].cred /\ live' = live /\ aside' = aside
      /\ UNCHANGED <<accountRecords, backups, newestAuth>>
      /\ RequestGoes(r, [ask[r] EXCEPT !.at = "move"])
  BY DEF WriteDraft, Goto
<1>2. ask[r].cred \in Cred /\ InTime(ask[r].cred) /\ "move" \in AskStep
  BY <1>1, AskGood DEF GoodAsk, Carries, AskStep
<1>3. Later /\ FilesInTime'
  BY <1>1, <1>2, AskGood, Contents, FileTypes DEF FilesTyped, FilesInTime
<1>4. PICK a : a = [ask[r] EXCEPT !.at = "move"]
  OBVIOUS
<1>5. /\ a \in AskRec /\ a.at = "move" /\ a.cred = ask[r].cred /\ a.name = ask[r].name
      /\ a.seen = ask[r].seen /\ a.file = ask[r].file /\ a.alone = ask[r].alone
      /\ GoodAsk(a)'
  BY <1>1, <1>2, <1>3, <1>4, SwitchGoesOn DEF Carries
<1>6. ASSUME a.alone PROVE ReadsHold(a)'
  <2>1. ReadsHold(ask[r])
    BY <1>5, <1>6, AskGood
  <2>2. RecordIs(ask[r], ask[r].cred) /\ live = ask[r].seen /\ IsBackedUp(live) /\ SeenIsOld(ask[r])
    BY <1>1, <2>1 DEF ReadsHold
  <2> QED
    BY <1>1, <1>5, <2>2 DEF ReadsHold, RecordIs, IsBackedUp, SeenIsOld
<1>7. /\ ask' \in [CodexRequest -> AskRec] /\ ask'[r] = a
      /\ \A q \in CodexRequest \ {r} : Stays(q) /\ ask'[q].file = ask[q].file
  BY <1>1, <1>4, <1>5, OthersStay DEF AccountsInv, AsksGood
<1>8. Leftovers'
  BY <1>1, <1>5, <1>7 DEF AccountsInv, Leftovers, Stays
<1>9. AccountsInv'
  BY <1>3, <1>5, <1>6, <1>7, <1>8, AccountsStep
<1>10. \A d \in Cred : live = d => Holds(d)'
  BY <1>1 DEF Holds
<1> QED
  BY <1>1, <1>7, <1>9, <1>10, FilesHeld DEF InMemory

LEMMA MoveAsideStep ==
  ASSUME AccountsInv, NEW r \in CodexRequest, MoveAside(r)
  PROVE  AccountsInv' /\ HeldStep
<1> DEFINE to == [none |-> "none", live |-> "aside", aside |-> "gone", gone |-> "gone"]
           back == [none |-> "none", live |-> "live", aside |-> "gone", gone |-> "gone"]
<1>0. /\ ask[r].at = "move" /\ UNCHANGED <<accountRecords, backups, newestAuth>>
      /\ \/ draft' = draft /\ aside' = live /\ live' = NoCred /\ Renamed(r, "put", to)
         \/ draft' = NoCred /\ aside' = NoCred /\ live' = live /\ Renamed(r, "failed", back)
  BY DEF MoveAside
<1>2. /\ to \in Renames /\ to["none"] = "none" /\ "put" \in AskStep
      /\ back \in Renames /\ back["none"] = "none"
  BY DEF Renames, AskStep
<1> HIDE DEF to, back
<1>11. CASE draft' = NoCred /\ aside' = NoCred /\ live' = live /\ Renamed(r, "failed", back)
  BY <1>0, <1>2, <1>11, GivesUp
<1> SUFFICES ASSUME draft' = draft, aside' = live, live' = NoCred, Renamed(r, "put", to)
             PROVE  AccountsInv' /\ HeldStep
  BY <1>0, <1>11
<1>1. ask[r].at = "move" /\ UNCHANGED <<accountRecords, backups, newestAuth>>
  BY <1>0
<1>3. Later /\ FilesInTime'
  BY <1>1, AskGood, Contents, EmptyInTime, FileTypes DEF FilesTyped, FilesInTime
<1>4. PICK a : a = [ask[r] EXCEPT !.at = "put"]
  OBVIOUS
<1>5. /\ a \in AskRec /\ a.at = "put" /\ a.cred = ask[r].cred /\ a.name = ask[r].name
      /\ a.seen = ask[r].seen /\ a.file = ask[r].file /\ a.alone = ask[r].alone
      /\ GoodAsk(a)'
  BY <1>1, <1>2, <1>3, <1>4, SwitchGoesOn DEF Carries
<1>6. ASSUME a.alone PROVE ReadsHold(a)'
  <2>1. ReadsHold(ask[r])
    BY <1>5, <1>6, AskGood
  <2>2. RecordIs(ask[r], ask[r].cred) /\ IsBackedUp(live) /\ SeenIsOld(ask[r]) /\ draft = ask[r].cred
    BY <1>1, <2>1 DEF ReadsHold
  <2> QED
    BY <1>1, <1>5, <2>2 DEF ReadsHold, RecordIs, IsBackedUp, SeenIsOld
<1>7. /\ ask' \in [CodexRequest -> AskRec] /\ ask'[r] = a
      /\ \A q \in CodexRequest \ {r} : Stays(q)
  BY <1>1, <1>2, <1>4, OthersStayRenamed DEF AccountsInv, AsksGood
<1>8. Leftovers'
  BY <1>1, <1>5, <1>7 DEF AccountsInv, Leftovers, Stays
<1>9. AccountsInv'
  BY <1>3, <1>5, <1>6, <1>7, <1>8, AccountsStep
<1>10. \A d \in Cred : live = d => Holds(d)'
  BY <1>5, <1>7 DEF Holds, AsideCounts
<1> QED
  BY <1>1, <1>7, <1>9, <1>10, FilesHeld DEF InMemory

LEMMA PutStep ==
  ASSUME AccountsInv, NEW r \in CodexRequest, Put(r)
  PROVE  AccountsInv' /\ HeldStep
<1> DEFINE to == [none |-> "none", live |-> "gone", aside |-> "aside", gone |-> "gone"]
           back == [none |-> "none", live |-> "gone", aside |-> "live", gone |-> "gone"]
<1>1. ask[r].at = "put" /\ draft' = NoCred /\ UNCHANGED <<accountRecords, backups, newestAuth>>
  BY DEF Put
<1>2. /\ to \in Renames /\ to["none"] = "none" /\ "tidy" \in AskStep
      /\ back \in Renames /\ back["none"] = "none"
  BY DEF Renames, AskStep
<1>3. \/ draft # NoCred /\ live' = draft /\ aside' = aside /\ Renamed(r, "tidy", to)
      \/ live' = aside /\ aside' = NoCred /\ Renamed(r, "failed", back)
      \/ live' = live /\ aside' = aside /\ Goto(r, "failed")
  BY DEF Put
<1>4. live \in Cred => ~ask[r].alone
  BY <1>1, AskGood, Contents DEF ReadsHold
<1> HIDE DEF to, back
<1>5. CASE \/ live' = aside /\ aside' = NoCred /\ Renamed(r, "failed", back)
           \/ live' = live /\ aside' = aside /\ Goto(r, "failed")
  BY <1>1, <1>2, <1>4, <1>5, GivesUp
<1>6. CASE draft # NoCred /\ live' = draft /\ aside' = aside /\ Renamed(r, "tidy", to)
  <2>3. Later /\ FilesInTime'
    BY <1>1, <1>6, AskGood, Contents, EmptyInTime, FileTypes DEF FilesTyped, FilesInTime
  <2>4. PICK a : a = [ask[r] EXCEPT !.at = "tidy"]
    OBVIOUS
  <2>5. /\ a \in AskRec /\ a.at = "tidy" /\ a.cred = ask[r].cred /\ a.name = ask[r].name
        /\ a.seen = ask[r].seen /\ a.file = ask[r].file /\ a.alone = ask[r].alone
        /\ GoodAsk(a)'
    BY <1>1, <1>2, <2>3, <2>4, SwitchGoesOn DEF Carries
  <2>6. ASSUME a.alone PROVE ReadsHold(a)'
    <3>1. ReadsHold(ask[r])
      BY <2>5, <2>6, AskGood
    <3>2. RecordIs(ask[r], ask[r].cred) /\ IsBackedUp(aside) /\ SeenIsOld(ask[r]) /\ draft = ask[r].cred
      BY <1>1, <3>1 DEF ReadsHold
    <3> QED
      BY <1>1, <1>6, <2>5, <3>2 DEF ReadsHold, RecordIs, IsBackedUp, SeenIsOld
  <2>7. /\ ask' \in [CodexRequest -> AskRec] /\ ask'[r] = a
        /\ \A q \in CodexRequest \ {r} : Stays(q)
    BY <1>2, <1>6, <2>4, OthersStayRenamed DEF AccountsInv, AsksGood
  <2>8. Leftovers'
    BY <1>1, <1>6, <2>5, <2>7, Contents DEF AccountsInv, Leftovers, Stays
  <2>9. AccountsInv'
    BY <2>3, <2>5, <2>6, <2>7, <2>8, AccountsStep
  <2>10. \A d \in Cred : live = d => Excused(d.who)
    BY <1>1, <1>4 DEF Excused, Overtaken
  <2> QED
    BY <1>1, <2>7, <2>9, <2>10, FilesHeld DEF InMemory
<1> QED
  BY <1>3, <1>5, <1>6

LEMMA TidyStep ==
  ASSUME AccountsInv, NEW r \in CodexRequest, Tidy(r)
  PROVE  AccountsInv' /\ HeldStep
<1> DEFINE to == [none |-> "none", live |-> "live", aside |-> "gone", gone |-> "gone"]
<1>1. /\ ask[r].at = "tidy" /\ live' = live /\ draft' = draft /\ aside' = NoCred
      /\ UNCHANGED <<accountRecords, backups, newestAuth>> /\ Renamed(r, "switched", to)
  BY DEF Tidy
<1>2. to \in Renames /\ to["none"] = "none" /\ "switched" \in AskStep
  BY DEF Renames, AskStep
<1> HIDE DEF to
<1>4. Later /\ FilesInTime'
  BY <1>1, AskGood, Contents, EmptyInTime, FileTypes DEF FilesTyped, FilesInTime
<1>5. PICK a : a = [ask[r] EXCEPT !.at = "switched"]
  OBVIOUS
<1>6. /\ a \in AskRec /\ a.at = "switched" /\ a.cred = ask[r].cred /\ a.name = ask[r].name
      /\ a.seen = ask[r].seen /\ a.file = ask[r].file /\ a.alone = ask[r].alone
      /\ GoodAsk(a)'
  BY <1>1, <1>2, <1>4, <1>5, SwitchGoesOn DEF Carries
<1>7. ASSUME a.alone PROVE ReadsHold(a)'
  <2>1. ReadsHold(ask[r])
    BY <1>6, <1>7, AskGood
  <2>2. RecordIs(ask[r], ask[r].cred) /\ SeenIsOld(ask[r]) /\ live = ask[r].cred
    BY <1>1, <2>1 DEF ReadsHold
  <2> QED
    BY <1>1, <1>6, <2>2 DEF ReadsHold, RecordIs, SeenIsOld
<1>8. /\ ask' \in [CodexRequest -> AskRec] /\ ask'[r] = a
      /\ \A q \in CodexRequest \ {r} : Stays(q)
  BY <1>1, <1>2, <1>5, OthersStayRenamed DEF AccountsInv, AsksGood
<1>10. Leftovers'
  BY <1>1, <1>6, <1>8 DEF AccountsInv, Leftovers, Stays
<1>11. AccountsInv'
  BY <1>4, <1>6, <1>7, <1>8, <1>10, AccountsStep
<1>12. \A d \in Cred : live = d => Holds(d)'
  BY <1>1 DEF Holds
<1> QED
  BY <1>1, <1>8, <1>11, <1>12, FilesHeld DEF InMemory

LEMMA ToolRefreshesStep ==
  ASSUME AccountsInv, ToolRefreshes
  PROVE  AccountsInv' /\ HeldStep
<1>1. /\ Usable(live) /\ live.gen = newestAuth[live.who] /\ live.gen < MaxGen
      /\ accountRecords' = accountRecords /\ aside' = aside /\ draft' = draft /\ backups' = backups
      /\ newestAuth' = [newestAuth EXCEPT ![live.who] = @ + 1]
      /\ live' = [live EXCEPT !.gen = @ + 1]
      /\ ask' = [q \in CodexRequest |-> Beside(ask[q])]
  BY DEF ToolRefreshes
<1>2. FilesTyped /\ FilesInTime /\ ask \in [CodexRequest -> AskRec]
  BY DEF AccountsInv, AsksGood
<1>3. live \in Cred /\ live.who \in Ident /\ live.gen \in 0 .. MaxGen
  BY <1>1, <1>2, Contents DEF FilesTyped, Cred
<1>4. /\ newestAuth' \in [Ident -> 0 .. MaxGen] /\ \A i \in Ident : newestAuth[i] <= newestAuth'[i]
      /\ newestAuth'[live.who] = live.gen + 1 /\ newestAuth'[live.who] # newestAuth[live.who]
  BY <1>1, <1>2, <1>3, CodexAssumption DEF FilesTyped
<1>5. live' \in Cred /\ live'.who = live.who /\ live'.gen = live.gen + 1
  BY <1>1, <1>3, CodexAssumption DEF Cred
<1>6. Later
  BY <1>1, <1>2, <1>4, <1>5, Contents DEF Later, FilesTyped
<1>7. FilesInTime'
  <2>1. InTime(live)'
    BY <1>3, <1>4, <1>5, CodexAssumption DEF InTime
  <2> QED
    BY <1>1, <1>2, <1>6, <2>1, InTimeLater DEF FilesInTime
<1>8. /\ \A q \in CodexRequest : Stays(q) /\ ask'[q].file = ask[q].file
      /\ ask' \in [CodexRequest -> AskRec]
  BY <1>1, <1>2, BesideStays DEF Stays
<1>9. AsksGood'
  BY <1>6, <1>8, OtherGood DEF AsksGood
<1>10. Leftovers'
  BY <1>1, <1>8 DEF AccountsInv, Leftovers, Stays
<1>11. ASSUME NEW d \in Cred, newestAuth'[d.who] = newestAuth[d.who], Holds(d)
       PROVE  Holds(d)'
  <2>1. live # d
    BY <1>4, <1>11
  <2>2. CASE \/ \E m \in AccountName : accountRecords[m] = d
             \/ d = draft \/ d \in backups \/ (d = aside /\ AsideCounts)
    BY <1>1, <1>8, <2>2 DEF Holds, AsideCounts, Stays
  <2>3. CASE \E q \in CodexRequest : ask[q].at \in InMemory /\ ask[q].cred = d
    BY <1>8, <2>3 DEF Holds, Stays
  <2> QED
    BY <1>11, <2>1, <2>2, <2>3 DEF Holds
<1> QED
  BY <1>2, <1>6, <1>7, <1>9, <1>10, <1>11, HeldStepFrom DEF AccountsInv, Later

-----------------------------------------------------------------------------
(* The theorem *)

LEMMA AccountsInit == CodexInit => AccountsInv
<1> SUFFICES ASSUME CodexInit PROVE AccountsInv
  OBVIOUS
<1> DEFINE first == {NoCred} \cup {[who |-> i, gen |-> 0] : i \in Ident}
<1>1. /\ newestAuth = [i \in Ident |-> 0] /\ accountRecords \in [AccountName -> first] /\ live \in first
      /\ aside = NoCred /\ draft = NoCred /\ backups = {} /\ ask = [r \in CodexRequest |-> Nothing]
  BY DEF CodexInit
<1>2. first \subseteq Saved /\ \A c \in first : InTime(c)
  BY <1>1, CodexAssumption, Contents DEF Saved, Cred, InTime
<1> HIDE DEF first
<1>3. FilesTyped
  BY <1>1, <1>2, CodexAssumption, Contents DEF FilesTyped
<1>4. FilesInTime
  BY <1>1, <1>2, EmptyInTime DEF FilesInTime
<1>5. AsksGood
  BY <1>1, NothingGood DEF AsksGood
<1>6. Leftovers
  BY <1>1, Contents DEF Leftovers, Nothing
<1> QED
  BY <1>3, <1>4, <1>5, <1>6 DEF AccountsInv

LEMMA AccountsNext == AccountsInv /\ CodexNext => AccountsInv' /\ HeldStep
<1> SUFFICES ASSUME AccountsInv, CodexNext PROVE AccountsInv' /\ HeldStep
  OBVIOUS
<1>1. CASE ToolRefreshes
  BY <1>1, ToolRefreshesStep
<1>2. ASSUME NEW r \in CodexRequest, Ask(r) \/ LoggedIn(r) PROVE AccountsInv' /\ HeldStep
  BY <1>2, AskStepKeeps, LoggedInStep
<1>3. ASSUME NEW r \in CodexRequest, CodexRequestStep(r) PROVE AccountsInv' /\ HeldStep
  <2>1. CASE ListRecords(r) \/ ReadCurrent(r) \/ QueryRecord(r) \/ SaveRecord(r) \/ AfterRecords(r)
    BY <2>1, ListRecordsStep, ReadCurrentStep, QueryRecordStep, SaveRecordStep, AfterRecordsStep
  <2>2. CASE QueryLive(r) \/ TruncateLive(r) \/ FillLive(r)
    BY <2>2, QueryLiveStep, TruncateLiveStep, FillLiveStep
  <2>3. CASE LoadRecord(r) \/ CompareLive(r) \/ WriteDraft(r) \/ MoveAside(r) \/ Put(r) \/ Tidy(r)
    BY <2>3, LoadRecordStep, CompareLiveStep, WriteDraftStep, MoveAsideStep, PutStep, TidyStep
  <2>4. CASE SaveSwitched(r) \/ AnswerSwitch(r) \/ ResolveName(r) \/ Add(r) \/ EndOfRequest(r)
    BY <2>4, SaveSwitchedStep, AnswerSwitchStep, ResolveNameStep, AddStep, EndOfRequestStep
  <2>5. CASE RunLogin(r) \/ KilledWithRequest(r)
    BY <2>5, GotoStep DEF RunLogin, KilledWithRequest
  <2>6. CASE Over(r)
    BY <2>6, LeavesStep DEF Over, InMemory
  <2> QED
    BY <1>3, <2>1, <2>2, <2>3, <2>4, <2>5, <2>6 DEF CodexRequestStep
<1> QED
  BY <1>1, <1>2, <1>3 DEF CodexNext

LEMMA AccountsUnchanged == AccountsInv /\ UNCHANGED codexVars => AccountsInv' /\ HeldStep
<1> SUFFICES ASSUME AccountsInv, UNCHANGED codexVars PROVE AccountsInv' /\ HeldStep
  OBVIOUS
<1>1. /\ newestAuth' = newestAuth /\ accountRecords' = accountRecords /\ live' = live /\ aside' = aside
      /\ draft' = draft /\ backups' = backups /\ ask' = ask
  BY DEF codexVars
<1>2. AccountsInv'
  <2>1. \A q \in CodexRequest : Stays(q)
    BY <1>1, AskGood DEF Stays, Unseen
  <2>2. Later
    BY <1>1, CodexAssumption DEF Later, AccountsInv, FilesTyped
  <2>3. AsksGood'
    BY <1>1, <2>1, <2>2, OtherGood DEF AsksGood, AccountsInv
  <2>4. FilesInTime' /\ Leftovers'
    BY <1>1 DEF AccountsInv, FilesInTime, InTime, Leftovers
  <2> QED
    BY <2>2, <2>3, <2>4 DEF AccountsInv, Later
<1>3. HeldStep
  BY <1>1, Zenon DEF HeldStep, Held
<1> QED
  BY <1>2, <1>3

\* A step of one request leaves the others at their step.
LEMMA OneMoves ==
  ASSUME AccountsInv, NEW q \in CodexRequest,
         (\E a : RequestGoes(q, a)) \/ (\E at, to : Renamed(q, at, to)), NEW r \in CodexRequest \ {q}
  PROVE  ask'[r].at = ask[r].at
<1>1. ask[r] \in AskRec /\ Beside(ask[r]) \in AskRec /\ Beside(ask[r]).at = ask[r].at
  BY AskGood, BesideStays
<1>2. ASSUME NEW a, RequestGoes(q, a) PROVE ask'[r].at = ask[r].at
  BY <1>1, <1>2 DEF RequestGoes
<1>3. ASSUME NEW at, NEW to, Renamed(q, at, to) PROVE ask'[r].at = ask[r].at
  <2>1. PICK b : b = Beside(ask[r])
    OBVIOUS
  <2>2. PICK l : l = (b.alone /\ to[ask[r].file] = ask[r].file)
    OBVIOUS
  <2>3. ask'[r] = [b EXCEPT !.file = to[@], !.alone = @ /\ to[ask[r].file] = ask[r].file]
    BY <1>3, <2>1 DEF Renamed
  <2>4. b \in AskRec /\ b.at = ask[r].at
    BY <1>1, <2>1
  <2>5. ask'[r] = [b EXCEPT !.file = to[b.file], !.alone = l]
    BY <2>2, <2>3, <2>4 DEF AskRec
  <2> QED
    BY <2>4, <2>5 DEF AskRec
<1> QED
  BY <1>2, <1>3

UnaskedStep ==
  \A n \in AccountName, r \in CodexRequest :
    ask[r].at = "add" /\ ask'[r].at # "add" /\ accountRecords[n] # NoCred /\ accountRecords'[n] # accountRecords[n]
      => ask[r].overwrite

LEMMA NextUnasked == AccountsInv /\ CodexNext => UnaskedStep
<1> SUFFICES ASSUME AccountsInv, CodexNext, NEW n \in AccountName, NEW r \in CodexRequest,
                    ask[r].at = "add", ask'[r].at # "add", accountRecords[n] # NoCred,
                    accountRecords'[n] # accountRecords[n]
             PROVE  ask[r].overwrite
  BY DEF UnaskedStep
<1>1. ~ToolRefreshes
  BY DEF ToolRefreshes
<1>2. PICK q \in CodexRequest : Ask(q) \/ CodexRequestStep(q) \/ LoggedIn(q)
  BY <1>1 DEF CodexNext
<1>3. (\E a : RequestGoes(q, a)) \/ (\E at, to : Renamed(q, at, to))
  <2>1. CASE Ask(q) \/ LoggedIn(q)
    BY <2>1 DEF Ask, LoggedIn, Goto
  <2>2. CASE ListRecords(q) \/ ReadCurrent(q) \/ QueryRecord(q) \/ SaveRecord(q) \/ AfterRecords(q)
    BY <2>2 DEF ListRecords, ReadCurrent, QueryRecord, SaveRecord, AfterRecords, Leaves, Goto
  <2>3. CASE QueryLive(q) \/ TruncateLive(q) \/ FillLive(q)
    BY <2>3 DEF QueryLive, TruncateLive, FillLive
  <2>4. CASE LoadRecord(q) \/ CompareLive(q) \/ WriteDraft(q)
    BY <2>4 DEF LoadRecord, CompareLive, WriteDraft, Leaves, Goto
  <2>5. CASE MoveAside(q) \/ Put(q) \/ Tidy(q)
    BY <2>5, Zenon DEF MoveAside, Put, Tidy
  <2>6. CASE SaveSwitched(q) \/ AnswerSwitch(q) \/ ResolveName(q) \/ Add(q)
    BY <2>6 DEF SaveSwitched, AnswerSwitch, ResolveName, Add, Leaves, Goto
  <2>7. CASE RunLogin(q) \/ EndOfRequest(q) \/ KilledWithRequest(q) \/ Over(q)
    BY <2>7 DEF RunLogin, EndOfRequest, KilledWithRequest, Over, Leaves, Goto
  <2> QED
    BY <1>2, <2>1, <2>2, <2>3, <2>4, <2>5, <2>6, <2>7 DEF CodexRequestStep
<1>4. q = r
  BY <1>3, OneMoves
<1>5. Add(r)
  BY <1>2, <1>4, NothingGood
     DEF Ask, LoggedIn, CodexRequestStep, ListRecords, ReadCurrent, QueryRecord, SaveRecord, AfterRecords,
         QueryLive, TruncateLive, FillLive, LoadRecord, CompareLive, WriteDraft, MoveAside, Put, Tidy,
         SaveSwitched, AnswerSwitch, ResolveName, RunLogin, EndOfRequest, KilledWithRequest, Over
<1>6. accountRecords \in [AccountName -> Saved]
  BY DEF AccountsInv, FilesTyped
<1>7. ~Declined(ask[r]) /\ (Save(ask[r].name, ask[r].cred) \/ SaveFailed(ask[r].name))
  BY <1>5 DEF Add
<1>8. ask[r].name = n
  BY <1>6, <1>7 DEF Save, SaveFailed
<1> QED
  BY <1>7, <1>8 DEF Declined, Taken, Stored

LEMMA AccountsMeans == AccountsInv => SwitchTakesEffect /\ CodexTypeOK
<1> SUFFICES ASSUME AccountsInv PROVE SwitchTakesEffect /\ CodexTypeOK
  OBVIOUS
<1>1. ASSUME NEW r \in CodexRequest, ask[r].at = "answer", ask[r].alone
      PROVE  /\ live = accountRecords[ask[r].name] /\ live = ask[r].cred
             /\ ask[r].seen.who = live.who => ~NewerThan(ask[r].seen, live)
  BY <1>1, AskGood DEF ReadsHold, RecordIs, SeenIsOld
<1>2. \A r \in CodexRequest : ask[r].cred \in AuthContent /\ ask[r].name \in Names
  BY AskTyped DEF AskRec
<1>3. CodexTypeOK
  BY <1>2 DEF CodexTypeOK, AccountsInv, FilesTyped, Saved
<1> QED
  BY <1>1, <1>3 DEF SwitchTakesEffect

\* A step that drops the only copy of a credential the provider accepts is one
\* HeldUnlessRaced names: of requests that overtake each other, a record replaced
\* on request, a refresh without a quota or one that could not be written.  No
\* other write that fails loses one.  No record is replaced unasked, and a switch
\* that is answered has made its account the active one, for any accounts, names,
\* requests and failures (service.go 333-618).
THEOREM AccountsAreKeptAlways == CodexSpec => AccountsAreKept
<1>1. AccountsInv /\ [CodexNext]_codexVars => AccountsInv'
  BY AccountsNext, AccountsUnchanged
<1>2. AccountsInv /\ [CodexNext]_codexVars =>
        [\A i \in Ident : Held(i) /\ ~Held(i)' =>
           \/ newestAuth'[i] # newestAuth[i]
           \/ \E r \in CodexRequest :
                ask'[r].at # ask[r].at /\ (~ask[r].alone \/ ask[r].overwrite \/ NotSaved(r, i))
           \/ \E r \in CodexRequest : Overtaken(r)]_codexVars
  BY AccountsNext DEF HeldStep, Excused
<1>3. AccountsInv /\ [CodexNext]_codexVars =>
        [\A n \in AccountName, r \in CodexRequest :
           ask[r].at = "add" /\ ask'[r].at # "add" /\ accountRecords[n] # NoCred
             /\ accountRecords'[n] # accountRecords[n] => ask[r].overwrite]_codexVars
  BY NextUnasked DEF UnaskedStep
<1> QED
  BY AccountsInit, AccountsMeans, <1>1, <1>2, <1>3, PTL
     DEF CodexSpec, AccountsAreKept, HeldUnlessRaced, NothingReplacedUnasked

-----------------------------------------------------------------------------
(* Data *)

\* Induction over the naturals, for a set.
LEMMA SetInduction ==
  ASSUME NEW S, 0 \in S, \A n \in Nat : n \in S => n + 1 \in S
  PROVE  Nat \subseteq S
<1> DEFINE R == OpToRel(<, Nat)
           T == Nat \ S
<1>1. R = {ss \in Nat \X Nat : ss[1] < ss[2]}
  BY Zenon DEF OpToRel
<1>2. IsWellFoundedOn(R, Nat)
  BY NatLessThanWellFounded, Zenon
<1> SUFFICES ASSUME T # {} PROVE FALSE
  OBVIOUS
<1>3. T \subseteq Nat
  OBVIOUS
<1>4. \A x, y \in Nat : x < y => <<x, y>> \in R
  BY <1>1
<1> HIDE DEF R
<1>5. \E k \in T : \A m \in T : ~(<<m, k>> \in R)
  BY <1>2, <1>3, WFMin, Zenon
<1>6. PICK k \in T : \A m \in T : ~(<<m, k>> \in R)
  BY <1>5
<1>7. k \in Nat /\ k # 0 /\ k - 1 \in Nat /\ k - 1 < k
  BY <1>6
<1>8. k - 1 \in S
  BY <1>4, <1>6, <1>7
<1>9. (k - 1) + 1 \in S
  BY <1>7, <1>8
<1> QED
  BY <1>6, <1>7, <1>9

\* What R orders.
StrictOrder(R, S) ==
  /\ \A x \in S : <<x, x>> \notin R
  /\ \A x, y \in S : x # y => <<x, y>> \in R \/ <<y, x>> \in R
  /\ \A x, y, z \in S : <<x, y>> \in R /\ <<y, z>> \in R => <<x, z>> \in R

\* q lists the members of S, each once, in the order R.
Lists(q, S, R) ==
  /\ q \in Seq(S) /\ Len(q) = Cardinality(S)
  /\ \A x \in S : \E k \in 1 .. Len(q) : q[k] = x
  /\ \A i, j \in 1 .. Len(q) : i < j <=> <<q[i], q[j]>> \in R
  /\ \A i, j \in 1 .. Len(q) : q[i] = q[j] => i = j

\* What Ranked finds, for an order given as a set of pairs.
LEMMA RankedLists ==
  ASSUME NEW S, IsFiniteSet(S), NEW R, StrictOrder(R, S), NEW q,
         q = [k \in 1 .. Cardinality(S) |-> q[k]],
         \A k \in 1 .. Cardinality(S) :
           (\E x \in S : Cardinality({y \in S : <<x, y>> \notin R}) = k)
             => q[k] \in S /\ Cardinality({y \in S : <<q[k], y>> \notin R}) = k
  PROVE  Lists(q, S, R)
<1> DEFINE n == Cardinality(S)
           upto(x) == {y \in S : <<x, y>> \notin R}
           rank == [x \in S |-> Cardinality(upto(x))]
<1>1. n \in Nat
  BY FS_CardinalityType
<1>2. ASSUME NEW x \in S PROVE rank[x] \in 1 .. n
  <2>1. upto(x) \subseteq S /\ x \in upto(x)
    BY DEF StrictOrder
  <2>2. IsFiniteSet(upto(x)) /\ Cardinality(upto(x)) <= n
    BY <2>1, FS_Subset
  <2>3. Cardinality(upto(x)) \in Nat /\ Cardinality(upto(x)) # 0
    BY <2>1, <2>2, FS_CardinalityType, FS_EmptySet
  <2> QED
    BY <1>1, <2>2, <2>3
<1>3. ASSUME NEW x \in S, NEW z \in S, <<x, z>> \in R PROVE rank[x] < rank[z]
  <2>1. upto(x) \subseteq upto(z) /\ z \in upto(z) /\ z \notin upto(x)
    BY <1>3 DEF StrictOrder
  <2>2. upto(z) \subseteq S
    OBVIOUS
  <2>3. IsFiniteSet(upto(z))
    BY <2>2, FS_Subset
  <2>4. Cardinality(upto(x)) <= Cardinality(upto(z)) /\ Cardinality(upto(x)) # Cardinality(upto(z))
    BY <2>1, <2>3, FS_Subset
  <2> QED
    BY <1>2, <2>4
<1>4. rank \in Injection(S, 1 .. n)
  <2>1. rank \in [S -> 1 .. n]
    BY <1>2
  <2>2. ASSUME NEW x \in S, NEW z \in S, x # z PROVE rank[x] # rank[z]
    <3>1. rank[x] < rank[z] \/ rank[z] < rank[x]
      BY <1>3, <2>2 DEF StrictOrder
    <3> QED
      BY <1>2, <3>1
  <2> HIDE DEF rank
  <2> QED
    BY <2>1, <2>2 DEF Injection, IsInjective
<1>5. rank \in Surjection(S, 1 .. n)
  <2>1. IsFiniteSet(1 .. n) /\ Cardinality(1 .. n) = n
    <3> HIDE DEF n
    <3>1. 1 \in Int /\ n \in Int
      BY <1>1
    <3>2. IsFiniteSet(1 .. n) /\ Cardinality(1 .. n) = IF 1 > n THEN 0 ELSE n - 1 + 1
      BY <3>1, FS_Interval, Zenon
    <3> QED
      BY <1>1, <3>2
  <2> QED
    BY <1>4, <2>1, FS_Injection
<1>6. ASSUME NEW k \in 1 .. n PROVE \E x \in S : rank[x] = k
  BY <1>5 DEF Surjection
<1>7. ASSUME NEW k \in 1 .. n PROVE q[k] \in S /\ rank[q[k]] = k
  <2>2. \E x \in S : Cardinality(upto(x)) = k
    BY <1>6
  <2>3. q[k] \in S /\ Cardinality(upto(q[k])) = k
    BY <2>2
  <2> QED
    BY <2>3
<1>8. q \in [1 .. n -> S]
  BY <1>7
<1>9. q \in Seq(S) /\ Len(q) = n
  BY <1>1, <1>8
<1> HIDE DEF rank
<1>10. \A x \in S : \E k \in 1 .. n : q[k] = x
  <2> SUFFICES ASSUME NEW x \in S PROVE \E k \in 1 .. n : q[k] = x
    OBVIOUS
  <2>1. rank[x] \in 1 .. n
    BY <1>2
  <2>2. rank[q[rank[x]]] = rank[x] /\ q[rank[x]] \in S
    BY <1>7, <2>1
  <2>3. q[rank[x]] = x
    BY <1>4, <2>2 DEF Injection, IsInjective
  <2> QED
    BY <2>1, <2>3
<1>11. \A i, j \in 1 .. n : q[i] = q[j] => i = j
  BY <1>7
<1>12. \A i, j \in 1 .. n : <<q[i], q[j]>> \in R => i < j
  BY <1>3, <1>7
<1>13. \A i, j \in 1 .. n : i < j => <<q[i], q[j]>> \in R
  <2> SUFFICES ASSUME NEW i \in 1 .. n, NEW j \in 1 .. n, i < j PROVE <<q[i], q[j]>> \in R
    OBVIOUS
  <2>1. q[i] # q[j] /\ q[i] \in S /\ q[j] \in S
    BY <1>1, <1>7, <1>11
  <2>2. <<q[i], q[j]>> \in R \/ <<q[j], q[i]>> \in R
    BY <2>1 DEF StrictOrder
  <2>3. ~(j < i)
    BY <1>1
  <2> QED
    BY <1>12, <2>2, <2>3
<1> QED
  BY <1>9, <1>10, <1>11, <1>12, <1>13 DEF Lists

\* The order of the naturals among those in S.
Below(S) == {p \in S \X S : p[1] < p[2]}

\* The positions of a sequence are finitely many.
LEMMA PositionsFinite ==
  ASSUME NEW n \in Nat
  PROVE  IsFiniteSet(1 .. n)
<1>1. 1 \in Int /\ n \in Int
  OBVIOUS
<1> QED
  BY <1>1, FS_Interval, Zenon

\* The positions in S, in their order.
LEMMA InOrderLists ==
  ASSUME NEW n \in Nat, NEW S \in SUBSET (1 .. n)
  PROVE  /\ Lists(InOrder(S), S, Below(S))
         /\ IsFiniteSet(S)
<1>1. IsFiniteSet(S)
  <2>1. IsFiniteSet(1 .. n)
    BY PositionsFinite
  <2> QED
    BY <2>1, FS_Subset
<1>2. StrictOrder(Below(S), S)
  BY DEF StrictOrder, Below
<1>3. \A x \in S : {y \in S : <<x, y>> \notin Below(S)} = {y \in S : ~(x < y)}
  BY DEF Below
<1> DEFINE q == InOrder(S)
<1>4. q = [k \in 1 .. Cardinality(S) |-> CHOOSE x \in S : Cardinality({y \in S : ~(x < y)}) = k]
  BY DEF InOrder, Ranked
<1>5. ASSUME NEW k \in 1 .. Cardinality(S),
             \E x \in S : Cardinality({y \in S : <<x, y>> \notin Below(S)}) = k
      PROVE  q[k] \in S /\ Cardinality({y \in S : <<q[k], y>> \notin Below(S)}) = k
  <2>1. \E x \in S : Cardinality({y \in S : ~(x < y)}) = k
    BY <1>3, <1>5
  <2>2. q[k] = CHOOSE x \in S : Cardinality({y \in S : ~(x < y)}) = k
    BY <1>4
  <2>3. q[k] \in S /\ Cardinality({y \in S : ~(q[k] < y)}) = k
    BY <2>1, <2>2
  <2> QED
    BY <1>3, <2>3
<1>6. q = [k \in 1 .. Cardinality(S) |-> q[k]]
  BY <1>4
<1> HIDE DEF q
<1>7. Lists(q, S, Below(S))
  BY <1>1, <1>2, <1>5, <1>6, RankedLists
<1> QED
  BY <1>1, <1>7 DEF q

\* q walks the positions of S, each once, in their order, and part is what recs has there.
Picks(q, part, recs, S) ==
  /\ q \in Seq(S) /\ Len(q) = Cardinality(S) /\ Len(part) = Len(q)
  /\ \A k \in 1 .. Len(q) : q[k] \in S /\ part[k] = recs[q[k]]
  /\ \A x \in S : \E k \in 1 .. Len(q) : q[k] = x
  /\ \A i, j \in 1 .. Len(q) : i < j <=> q[i] < q[j]
  /\ \A i, j \in 1 .. Len(q) : q[i] = q[j] => i = j

\* What is at some positions of a slice.
LEMMA AtPicks ==
  ASSUME NEW T, NEW recs \in Seq(T), NEW S \in SUBSET (1 .. Len(recs))
  PROVE  At(recs, S) \in Seq(T) /\ Picks(InOrder(S), At(recs, S), recs, S)
<1> DEFINE q == InOrder(S)
<1>1. Len(recs) \in Nat
  OBVIOUS
<1>2. Lists(q, S, Below(S)) /\ IsFiniteSet(S)
  BY <1>1, InOrderLists
<1>3. Cardinality(S) \in Nat
  BY <1>2, FS_CardinalityType
<1>4. q \in Seq(S) /\ Len(q) = Cardinality(S) /\ DOMAIN q = 1 .. Len(q)
  BY <1>2 DEF Lists
<1>5. \A k \in 1 .. Len(q) : q[k] \in S /\ q[k] \in 1 .. Len(recs)
  <2> HIDE DEF q
  <2>1. \A k \in 1 .. Len(q) : q[k] \in S
    BY <1>4
  <2> QED
    BY <2>1
<1>6. At(recs, S) = [k \in 1 .. Len(q) |-> recs[q[k]]]
  BY <1>4 DEF At
<1> HIDE DEF q
<1>7. At(recs, S) \in Seq(T) /\ Len(At(recs, S)) = Len(q)
  BY <1>3, <1>4, <1>5, <1>6
<1>8. \A k \in 1 .. Len(q) : At(recs, S)[k] = recs[q[k]]
  BY <1>6
<1>9. \A i, j \in 1 .. Len(q) : <<q[i], q[j]>> \in Below(S) <=> q[i] < q[j]
  BY <1>5 DEF Below
<1> QED
  BY <1>2, <1>4, <1>5, <1>7, <1>8, <1>9 DEF Lists, Picks, q

\* The middle of a stretch that is not empty.
LEMMA Halves ==
  ASSUME NEW i \in Nat, NEW j \in Nat, i < j
  PROVE  LET h == (i + j) \div 2 IN h \in Nat /\ i <= h /\ h < j
OBVIOUS

\* The bisection ends in its stretch, at the first of the answers that are
\* TRUE if all after it are.
LEMMA SearchFinds ==
  ASSUME NEW n \in Nat, NEW holds \in [1 .. n -> BOOLEAN]
  PROVE  /\ SearchFirst(holds) \in 1 .. n + 1
         /\ (\A i, j \in 1 .. n : i < j /\ holds[i] => holds[j])
              => \A k \in 1 .. n : holds[k] <=> SearchFirst(holds) <= k
<1> DEFINE End == n + 1
           D == (1 .. End) \X (1 .. End)
           Value(g, i, j) == LET h == (i + j) \div 2 IN
                             IF i >= j THEN i ELSE IF holds[h] THEN g[<<i, h>>] ELSE g[<<h + 1, j>>]
           Body(g) == [s \in D |-> Value(g, s[1], s[2])]
           f == CHOOSE g : g = Body(g)
<1>1. Len(holds) = n
  OBVIOUS
<1>2. SearchFirst(holds) = f[<<1, End>>]
  BY <1>1 DEF SearchFirst
<1>3. \A g : \A i, j \in 1 .. End : Body(g)[<<i, j>>] = Value(g, i, j)
  OBVIOUS
<1>4. \A i, j \in 1 .. End : i < j =>
        LET h == (i + j) \div 2 IN
        h \in 1 .. n /\ h + 1 \in 1 .. End /\ i <= h /\ h < j /\ h - i < j - i /\ j - (h + 1) < j - i
  BY Halves
<1>5. \E g : g = Body(g)
  <2> DEFINE P == {d \in Nat : \E g : \A i, j \in 1 .. End : j - i <= d => g[<<i, j>>] = Value(g, i, j)}
  <2>1. 0 \in P
    <3> DEFINE g == [s \in D |-> s[1]]
    <3>1. \A i, j \in 1 .. End : j - i <= 0 => g[<<i, j>>] = Value(g, i, j)
      OBVIOUS
    <3> HIDE DEF g, Value
    <3> QED
      BY <3>1
  <2>2. ASSUME NEW d \in Nat, d \in P PROVE d + 1 \in P
    <3>1. PICK g : \A i, j \in 1 .. End : j - i <= d => g[<<i, j>>] = Value(g, i, j)
      BY <2>2
    <3>2. ASSUME NEW i \in 1 .. End, NEW j \in 1 .. End, j - i <= d + 1
          PROVE  Body(g)[<<i, j>>] = Value(Body(g), i, j)
      <4>1. CASE i >= j
        BY <1>3, <4>1
      <4>2. CASE i < j
        <5> DEFINE h == (i + j) \div 2
        <5>1. h \in 1 .. End /\ h + 1 \in 1 .. End /\ h - i <= d /\ j - (h + 1) <= d
          BY <1>4, <3>2, <4>2
        <5> HIDE DEF h
        <5>2. Body(g)[<<i, h>>] = g[<<i, h>>] /\ Body(g)[<<h + 1, j>>] = g[<<h + 1, j>>]
          <6> HIDE DEF Value, Body
          <6> QED
            BY <1>3, <3>1, <5>1
        <5>3. Body(g)[<<i, j>>] = IF holds[h] THEN g[<<i, h>>] ELSE g[<<h + 1, j>>]
          <6> HIDE DEF Body
          <6> QED
            BY <1>3, <4>2 DEF h
        <5>4. Value(Body(g), i, j) = IF holds[h] THEN Body(g)[<<i, h>>] ELSE Body(g)[<<h + 1, j>>]
          <6> HIDE DEF Body
          <6> QED
            BY <4>2 DEF h
        <5> HIDE DEF Body, Value
        <5> QED
          BY <5>2, <5>3, <5>4
      <4> QED
        BY <4>1, <4>2
    <3> HIDE DEF Body, Value
    <3> QED
      BY <3>2
  <2>3. End \in P
    <3> HIDE DEF P
    <3> QED
      BY <2>1, <2>2, SetInduction
  <2>4. PICK g : \A i, j \in 1 .. End : j - i <= End => g[<<i, j>>] = Value(g, i, j)
    BY <2>3
  <2> HIDE DEF Value
  <2>5. \A i, j \in 1 .. End : g[<<i, j>>] = Value(g, i, j)
    <3>1. \A i, j \in 1 .. End : j - i <= End
      OBVIOUS
    <3> HIDE DEF End
    <3> QED
      BY <2>4, <3>1
  <2>6. \A i, j \in 1 .. End : Body(g)[<<i, j>>] = Value(Body(g), i, j)
    <3> SUFFICES ASSUME NEW i \in 1 .. End, NEW j \in 1 .. End
                 PROVE  Body(g)[<<i, j>>] = Value(Body(g), i, j)
      OBVIOUS
    <3>1. \A a, b \in 1 .. End : Body(g)[<<a, b>>] = g[<<a, b>>]
      BY <1>3, <2>5
    <3>2. Value(Body(g), i, j) = Value(g, i, j)
      <4> DEFINE h == (i + j) \div 2
      <4>1. CASE i < j
        <5>1. h \in 1 .. End /\ h + 1 \in 1 .. End
          BY <1>4, <4>1
        <5> HIDE DEF Body, h
        <5>2. Body(g)[<<i, h>>] = g[<<i, h>>] /\ Body(g)[<<h + 1, j>>] = g[<<h + 1, j>>]
          BY <3>1, <5>1
        <5> QED
          BY <4>1, <5>2 DEF Value, h
      <4>2. CASE i >= j
        BY <4>2 DEF Value
      <4> QED
        BY <4>1, <4>2
    <3> QED
      BY <1>3, <3>2
  <2>7. Body(Body(g)) = Body(g)
    BY <2>6
  <2> QED
    BY <2>7
<1>6. f = Body(f)
  BY <1>5
<1>7. \A i, j \in 1 .. End : f[<<i, j>>] = Value(f, i, j)
  <2> HIDE DEF Value, f
  <2> QED
    BY <1>3, <1>6
<1> HIDE DEF f, Body
<1> DEFINE Sorted == \A i, j \in 1 .. n : i < j /\ holds[i] => holds[j]
           Right(i, j) ==
             /\ f[<<i, j>>] \in i .. j
             /\ Sorted /\ (\A k \in 1 .. n : (k < i => ~holds[k]) /\ (k >= j => holds[k]))
                  => \A k \in 1 .. n : holds[k] <=> f[<<i, j>>] <= k
           Q == {d \in Nat : \A i, j \in 1 .. End : i <= j /\ j - i <= d => Right(i, j)}
<1>8. 0 \in Q
  <2> SUFFICES ASSUME NEW i \in 1 .. End, NEW j \in 1 .. End, i <= j, j - i <= 0 PROVE Right(i, j)
    OBVIOUS
  <2>1. i = j
    OBVIOUS
  <2>2. f[<<i, j>>] = i
    BY <1>7, <2>1
  <2> QED
    BY <2>1, <2>2
<1>9. ASSUME NEW d \in Nat, d \in Q PROVE d + 1 \in Q
  <2> SUFFICES ASSUME NEW i \in 1 .. End, NEW j \in 1 .. End, i <= j, j - i <= d + 1 PROVE Right(i, j)
    <3> HIDE DEF Right
    <3> QED
      OBVIOUS
  <2>1. CASE i = j
    <3>1. f[<<i, j>>] = i
      BY <1>7, <2>1
    <3> QED
      BY <2>1, <3>1
  <2>2. CASE i < j
    <3> DEFINE h == (i + j) \div 2
    <3>1. h \in 1 .. n /\ h \in 1 .. End /\ h + 1 \in 1 .. End /\ i <= h /\ h < j
          /\ h - i <= d /\ j - (h + 1) <= d
      BY <1>4, <2>2
    <3>2. f[<<i, j>>] = IF holds[h] THEN f[<<i, h>>] ELSE f[<<h + 1, j>>]
      BY <1>7, <2>2
    <3> HIDE DEF h, Right
    <3>3. Right(i, h) /\ Right(h + 1, j)
      BY <1>9, <3>1
    <3>4. CASE holds[h]
      <4>1. f[<<i, j>>] = f[<<i, h>>] /\ f[<<i, j>>] \in i .. j
        <5>1. f[<<i, h>>] \in i .. h
          BY <3>3 DEF Right
        <5> QED
          BY <3>1, <3>2, <3>4, <5>1
      <4>2. Sorted => \A k \in 1 .. n : k >= h => holds[k]
        BY <3>1, <3>4
      <4> QED
        BY <3>3, <4>1, <4>2 DEF Right
    <3>5. CASE ~holds[h]
      <4>1. f[<<i, j>>] = f[<<h + 1, j>>] /\ f[<<i, j>>] \in i .. j
        <5>1. f[<<h + 1, j>>] \in h + 1 .. j
          BY <3>3 DEF Right
        <5> QED
          BY <3>1, <3>2, <3>5, <5>1
      <4>2. Sorted => \A k \in 1 .. n : k < h + 1 => ~holds[k]
        BY <3>1, <3>5
      <4> QED
        BY <3>3, <4>1, <4>2 DEF Right
    <3> QED
      BY <3>4, <3>5
  <2> QED
    BY <2>1, <2>2
<1>10. End \in Q
  <2> HIDE DEF Q
  <2> QED
    BY <1>8, <1>9, SetInduction
<1>11. Right(1, End)
  <2> HIDE DEF Right
  <2> QED
    BY <1>10
<1> QED
  BY <1>2, <1>11

-----------------------------------------------------------------------------
(* Slices and their indexes *)

\* The index of a session lists exactly its records.
ExactOf(recs, ix, s) ==
  /\ \A k \in 1 .. Len(ix) : ix[k] \in 1 .. Len(recs)
  /\ \A i, j \in 1 .. Len(ix) : ix[i] = ix[j] => i = j
  /\ \A i \in 1 .. Len(recs) : recs[i].sess = s <=> \E k \in 1 .. Len(ix) : ix[k] = i
Exact(recs, index) == \A s \in Session : ExactOf(recs, index[s], s)
GoodIndex(recs, index) == index \in [Session -> Seq(Nat)] /\ Exact(recs, index)
ByTime(recs, index) ==
  \A s \in Session : \A i, j \in 1 .. Len(index[s]) : i < j => recs[index[s][i]].at <= recs[index[s][j]].at
AsSlice(index) ==
  \A s \in Session : \A i, j \in 1 .. Len(index[s]) : i < j => index[s][i] < index[s][j]
Answers(b, a) == a.msg = b.msg /\ a.role = "user" /\ b.role = "assistant" /\ a.at < b.at
Asked(recs) == \A i, j \in 1 .. Len(recs) : Answers(recs[j], recs[i]) => i < j
NoTwinsIn(recs) ==
  \A i, j \in 1 .. Len(recs) : recs[i].msg = recs[j].msg /\ recs[i].role = recs[j].role => i = j

\* What a record of a slice is.
LEMMA RecordHas ==
  ASSUME NEW r \in Record
  PROVE  /\ r.msg \in Message \cup {0} /\ r.role \in Role /\ r.sess \in Session
         /\ r.at \in Nat /\ r.at \in 1 .. MaxTime /\ r.pinned \in BOOLEAN /\ r.active \in 0 .. MaxTime
BY DEF Record

\* jx is ix with e inserted at the place p.
IsInserted(jx, ix, p, e) ==
  /\ jx \in Seq(Nat) /\ Len(jx) = Len(ix) + 1
  /\ \A k \in 1 .. Len(ix) + 1 : jx[k] = IF k < p THEN ix[k] ELSE IF k = p THEN e ELSE ix[k - 1]

\* What inserting a position into an index leaves before and after it.
LEMMA Inserted ==
  ASSUME NEW ix \in Seq(Nat), NEW p \in 1 .. Len(ix) + 1, NEW e \in Nat
  PROVE  IsInserted(InsertAt(ix, p, e), ix, p, e)
<1> DEFINE a == SubSeq(ix, 1, p - 1)
           b == SubSeq(ix, p, Len(ix))
<1>1. Len(ix) \in Nat /\ p \in Nat /\ p >= 1 /\ p <= Len(ix) + 1
  OBVIOUS
<1>2. a \in Seq(Nat) /\ Len(a) = p - 1 /\ \A k \in 1 .. p - 1 : a[k] = ix[k]
  BY <1>1, SubSeqProperties
<1>3. b \in Seq(Nat) /\ Len(b) = Len(ix) - p + 1 /\ \A k \in 1 .. Len(ix) - p + 1 : b[k] = ix[p + k - 1]
  BY <1>1, SubSeqProperties
<1>4. InsertAt(ix, p, e) = (a \o <<e>>) \o b
  BY DEF InsertAt
<1> HIDE DEF a, b
<1>5. <<e>> \in Seq(Nat) /\ Len(<<e>>) = 1 /\ <<e>>[1] = e
  OBVIOUS
<1> DEFINE c == a \o <<e>>
<1>6. c \in Seq(Nat) /\ Len(c) = p /\ \A k \in 1 .. p : c[k] = IF k < p THEN ix[k] ELSE e
  BY <1>1, <1>2, <1>5
<1> HIDE DEF c
<1>9. /\ c \o b \in Seq(Nat) /\ Len(c \o b) = Len(c) + Len(b)
      /\ \A k \in 1 .. Len(c) + Len(b) : (c \o b)[k] = IF k <= Len(c) THEN c[k] ELSE b[k - Len(c)]
  BY <1>3, <1>6, ConcatProperties, Zenon
<1>7. c \o b \in Seq(Nat) /\ Len(c \o b) = Len(ix) + 1
  BY <1>1, <1>3, <1>6, <1>9
<1>8. ASSUME NEW k \in 1 .. Len(ix) + 1
      PROVE  (c \o b)[k] = IF k < p THEN ix[k] ELSE IF k = p THEN e ELSE ix[k - 1]
  <2>1. CASE k <= p
    <3>1. (c \o b)[k] = c[k]
      BY <1>1, <1>3, <1>6, <2>1
    <3> QED
      BY <1>1, <1>6, <2>1, <3>1
  <2>2. CASE k > p
    <3>1. k - p \in 1 .. Len(ix) - p + 1 /\ p + (k - p) - 1 = k - 1
      BY <1>1, <2>2
    <3>2. (c \o b)[k] = b[k - p]
      <4>1. k \in 1 .. Len(c) + Len(b) /\ ~(k <= Len(c)) /\ Len(c) = p
        BY <1>1, <1>3, <1>6, <2>2
      <4> QED
        BY <1>9, <4>1
    <3>3. b[k - p] = ix[p + (k - p) - 1]
      BY <1>3, <3>1
    <3> QED
      BY <1>1, <2>2, <3>1, <3>2, <3>3
  <2> QED
    <3>1. k \in Nat
      OBVIOUS
    <3>2. k <= p \/ k > p
      BY <1>1, <3>1
    <3> QED
      BY <2>1, <2>2, <3>2, Zenon
<1> QED
  BY <1>4, <1>7, <1>8 DEF IsInserted, c

\* appendLocked keeps the index exact, and in the order of time.
LEMMA AppendLockedKeeps ==
  ASSUME NEW recs \in Seq(Record), NEW index, GoodIndex(recs, index), NEW r \in Record
  PROVE  LET new == AppendLocked(recs, index, r) IN
         /\ new.recs = Append(recs, r) /\ GoodIndex(new.recs, new.index)
         /\ ByTime(recs, index) => ByTime(new.recs, new.index)
<1> DEFINE n == Len(recs) + 1
           more == Append(recs, r)
           ix == index[r.sess]
           holds == [k \in DOMAIN ix |-> recs[ix[k]].at > r.at]
           p == SearchFirst(holds)
           jx == InsertAt(ix, p, n)
           new == AppendLocked(recs, index, r)
           index2 == [index EXCEPT ![r.sess] = jx]
<1>1. new.recs = more /\ new.index = index2
  BY DEF AppendLocked
<1>2. r.sess \in Session /\ r.at \in Nat /\ n \in Nat /\ Len(recs) \in Nat
  BY RecordHas
<1>3. ix \in Seq(Nat) /\ Len(ix) \in Nat /\ DOMAIN ix = 1 .. Len(ix)
  BY <1>2 DEF GoodIndex
<1>4. \A k \in 1 .. Len(ix) : ix[k] \in 1 .. Len(recs) /\ recs[ix[k]] \in Record /\ recs[ix[k]].at \in Nat
  <2>1. \A k \in 1 .. Len(ix) : ix[k] \in 1 .. Len(recs)
    BY <1>2 DEF GoodIndex, Exact, ExactOf
  <2> HIDE DEF ix
  <2>2. \A k \in 1 .. Len(ix) : recs[ix[k]] \in Record
    BY <2>1
  <2> QED
    BY <2>1, <2>2, RecordHas
<1>5. holds \in [1 .. Len(ix) -> BOOLEAN] /\ \A k \in 1 .. Len(ix) : holds[k] <=> recs[ix[k]].at > r.at
  <2> HIDE DEF ix
  <2>1. \A k \in 1 .. Len(ix) : holds[k] = (recs[ix[k]].at > r.at)
    BY <1>3
  <2>2. \A k \in 1 .. Len(ix) : (recs[ix[k]].at > r.at) \in BOOLEAN
    OBVIOUS
  <2>3. \A k \in 1 .. Len(ix) : holds[k] \in BOOLEAN
    BY <2>1, <2>2, Zenon
  <2>4. holds = [k \in 1 .. Len(ix) |-> holds[k]]
    BY <1>3
  <2> HIDE DEF holds
  <2> QED
    BY <2>1, <2>3, <2>4, Zenon
<1> HIDE DEF ix, holds
<1>6. /\ p \in 1 .. Len(ix) + 1
      /\ (\A i, j \in 1 .. Len(ix) : i < j /\ holds[i] => holds[j]) => \A k \in 1 .. Len(ix) : holds[k] <=> p <= k
  BY <1>3, <1>5, SearchFinds
<1> HIDE DEF p
<1>7. /\ jx \in Seq(Nat) /\ Len(jx) = Len(ix) + 1
      /\ \A k \in 1 .. Len(ix) + 1 : jx[k] = IF k < p THEN ix[k] ELSE IF k = p THEN n ELSE ix[k - 1]
  <2> HIDE DEF n
  <2> QED
    <3>1. ix \in Seq(Nat) /\ p \in 1 .. Len(ix) + 1 /\ n \in Nat
      BY <1>2, <1>3, <1>6
    <3> HIDE DEF jx
    <3>2. IsInserted(InsertAt(ix, p, n), ix, p, n)
      BY <3>1, Inserted
    <3> QED
      BY <3>2, Zenon DEF IsInserted, jx
<1>8. more \in Seq(Record) /\ Len(more) = n /\ more[n] = r /\ \A i \in 1 .. Len(recs) : more[i] = recs[i]
  OBVIOUS
<1> HIDE DEF jx, more
<1>9. index2 \in [Session -> Seq(Nat)]
  BY <1>7 DEF GoodIndex
<1>10. index2[r.sess] = jx /\ \A s \in Session : s # r.sess => index2[s] = index[s]
  BY <1>2 DEF GoodIndex
<1> HIDE DEF index2, n
<1>11. ASSUME NEW s \in Session, s # r.sess PROVE ExactOf(more, index2[s], s)
  <2> DEFINE sx == index[s]
  <2>1. index2[s] = sx /\ sx \in Seq(Nat)
    BY <1>10, <1>11 DEF GoodIndex
  <2>2. ExactOf(recs, sx, s)
    BY DEF GoodIndex, Exact
  <2> HIDE DEF sx
  <2>3. \A k \in 1 .. Len(sx) : sx[k] # n /\ sx[k] \in 1 .. n
    BY <1>2, <2>2 DEF n, ExactOf
  <2>4. \A i \in 1 .. n : i \in 1 .. Len(recs) \/ i = n
    BY <1>2 DEF n
  <2>5. \A i \in 1 .. n : more[i].sess = s <=> \E k \in 1 .. Len(sx) : sx[k] = i
    <3> SUFFICES ASSUME NEW i \in 1 .. n PROVE more[i].sess = s <=> \E k \in 1 .. Len(sx) : sx[k] = i
      OBVIOUS
    <3>1. CASE i = n
      BY <1>8, <1>11, <2>3, <3>1
    <3>2. CASE i \in 1 .. Len(recs)
      BY <1>8, <2>2, <3>2 DEF ExactOf
    <3> QED
      BY <2>4, <3>1, <3>2
  <2>6. \A i, j \in 1 .. Len(sx) : sx[i] = sx[j] => i = j
    BY <2>2 DEF ExactOf
  <2>7. ExactOf(more, sx, s)
    BY <1>8, <2>3, <2>5, <2>6 DEF ExactOf
  <2> QED
    BY <2>1, <2>7
<1>12. ExactOf(more, jx, r.sess)
  <2>1. /\ \A i, j \in 1 .. Len(ix) : ix[i] = ix[j] => i = j
        /\ \A i \in 1 .. Len(recs) : recs[i].sess = r.sess <=> \E k \in 1 .. Len(ix) : ix[k] = i
    BY <1>2 DEF GoodIndex, Exact, ExactOf, ix
  <2>2. \A k \in 1 .. Len(jx) : \/ k < p /\ k \in 1 .. Len(ix) /\ jx[k] = ix[k]
                                \/ k = p /\ jx[k] = n
                                \/ k > p /\ k - 1 \in 1 .. Len(ix) /\ jx[k] = ix[k - 1]
    BY <1>3, <1>6, <1>7
  <2>3. \A k \in 1 .. Len(ix) : ix[k] # n /\ ix[k] \in 1 .. n
    BY <1>2, <1>4 DEF n
  <2>4. \A k \in 1 .. Len(jx) : jx[k] \in 1 .. n
    BY <1>2, <2>2, <2>3 DEF n
  <2>5. \A i, j \in 1 .. Len(jx) : jx[i] = jx[j] => i = j
    <3> SUFFICES ASSUME NEW i \in 1 .. Len(jx), NEW j \in 1 .. Len(jx), jx[i] = jx[j] PROVE i = j
      OBVIOUS
    <3>1. i \in Nat /\ j \in Nat /\ p \in Nat
      BY <1>6, <1>7
    <3>2. (i = p) <=> (j = p)
      <4>1. \A k \in 1 .. Len(jx) : jx[k] = n <=> k = p
        <5> SUFFICES ASSUME NEW k \in 1 .. Len(jx) PROVE jx[k] = n <=> k = p
          OBVIOUS
        <5>0. k \in Nat /\ p \in Nat
          BY <1>7, <3>1
        <5>1. CASE k < p
          <6>1. k \in 1 .. Len(ix) /\ jx[k] = ix[k]
            BY <2>2, <5>0, <5>1
          <6>2. jx[k] # n /\ k # p
            BY <2>3, <5>0, <5>1, <6>1
          <6> QED
            BY <6>2
        <5>2. CASE k = p
          BY <2>2, <5>2
        <5>3. CASE k > p
          <6>1. k - 1 \in 1 .. Len(ix) /\ jx[k] = ix[k - 1]
            BY <2>2, <5>0, <5>3
          <6>2. jx[k] # n /\ k # p
            BY <2>3, <5>0, <5>3, <6>1
          <6> QED
            BY <6>2
        <5> QED
          BY <5>0, <5>1, <5>2, <5>3
      <4> QED
        BY <4>1
    <3>3. CASE i < p /\ j < p
      BY <2>1, <2>2, <3>1, <3>3
    <3>4. CASE i > p /\ j > p
      <4>1. /\ i - 1 \in 1 .. Len(ix) /\ j - 1 \in 1 .. Len(ix)
            /\ jx[i] = ix[i - 1] /\ jx[j] = ix[j - 1]
        BY <2>2, <3>1, <3>4
      <4>2. i - 1 = j - 1
        BY <2>1, <4>1
      <4> QED
        BY <3>1, <4>2
    <3>5. ASSUME NEW a \in 1 .. Len(jx), NEW b \in 1 .. Len(jx), a < p, b > p, jx[a] = jx[b] PROVE FALSE
      <4>1. a \in 1 .. Len(ix) /\ b - 1 \in 1 .. Len(ix) /\ ix[a] = ix[b - 1]
        BY <1>6, <2>2, <3>1, <3>5
      <4>2. a = b - 1
        BY <2>1, <4>1
      <4> QED
        BY <1>6, <3>5, <4>2
    <3> QED
      BY <3>1, <3>2, <3>3, <3>4, <3>5
  <2>6. ASSUME NEW i \in 1 .. n
        PROVE  more[i].sess = r.sess <=> \E k \in 1 .. Len(jx) : jx[k] = i
    <3>1. CASE i = n
      <4>1. p \in 1 .. Len(jx) /\ jx[p] = n
        BY <1>6, <1>7
      <4> QED
        BY <1>8, <3>1, <4>1
    <3>2. CASE i # n
      <4>1. i \in 1 .. Len(recs) /\ more[i] = recs[i]
        BY <1>2, <1>8, <3>2 DEF n
      <4>2. ASSUME NEW k \in 1 .. Len(ix), ix[k] = i PROVE \E l \in 1 .. Len(jx) : jx[l] = i
        <5>1. CASE k < p
          <6>1. k \in 1 .. Len(jx) /\ jx[k] = ix[k]
            BY <1>3, <1>6, <1>7, <5>1
          <6> QED
            BY <4>2, <6>1
        <5>2. CASE k >= p
          <6>1. k + 1 \in 1 .. Len(jx) /\ jx[k + 1] = ix[k]
            BY <1>3, <1>6, <1>7, <5>2, SMTT(30)
          <6> QED
            BY <4>2, <6>1
        <5> QED
          BY <1>6, <5>1, <5>2
      <4>3. ASSUME NEW k \in 1 .. Len(jx), jx[k] = i PROVE \E l \in 1 .. Len(ix) : ix[l] = i
        BY <2>2, <3>2, <4>3
      <4> QED
        BY <2>1, <4>1, <4>2, <4>3
    <3> QED
      BY <3>1, <3>2
  <2> QED
    BY <1>8, <2>4, <2>5, <2>6 DEF ExactOf
<1>13. Exact(more, index2)
  <2> SUFFICES ASSUME NEW s \in Session PROVE ExactOf(more, index2[s], s)
    BY DEF Exact
  <2>1. CASE s = r.sess
    BY <1>10, <1>12, <2>1
  <2>2. CASE s # r.sess
    BY <1>11, <2>2
  <2> QED
    BY <2>1, <2>2
<1>14. ASSUME ByTime(recs, index) PROVE ByTime(more, index2)
  <2>1. ASSUME NEW s \in Session, s # r.sess, NEW i \in 1 .. Len(index2[s]), NEW j \in 1 .. Len(index2[s]), i < j
        PROVE  more[index2[s][i]].at <= more[index2[s][j]].at
    <3>1. index2[s] = index[s] /\ index[s][i] \in 1 .. Len(recs) /\ index[s][j] \in 1 .. Len(recs)
      BY <1>10, <2>1 DEF GoodIndex, Exact, ExactOf
    <3>2. recs[index[s][i]].at <= recs[index[s][j]].at
      BY <1>14, <2>1, <3>1 DEF ByTime
    <3> QED
      BY <1>8, <3>1, <3>2
  <2>2. \A i, j \in 1 .. Len(ix) : i < j => recs[ix[i]].at <= recs[ix[j]].at
    BY <1>2, <1>14 DEF ByTime, ix
  <2>3. \A i, j \in 1 .. Len(ix) : i < j /\ holds[i] => holds[j]
    <3> SUFFICES ASSUME NEW i \in 1 .. Len(ix), NEW j \in 1 .. Len(ix), i < j, holds[i] PROVE holds[j]
      OBVIOUS
    <3>1. recs[ix[i]].at > r.at /\ recs[ix[i]].at <= recs[ix[j]].at
      BY <1>5, <2>2
    <3>2. recs[ix[i]].at \in Nat /\ recs[ix[j]].at \in Nat
      BY <1>4
    <3>3. recs[ix[j]].at > r.at
      BY <1>2, <3>1, <3>2
    <3> QED
      BY <1>5, <3>3, Zenon
  <2>4. \A k \in 1 .. Len(ix) : (k < p => recs[ix[k]].at <= r.at) /\ (p <= k => recs[ix[k]].at > r.at)
    <3>1. \A k \in 1 .. Len(ix) : holds[k] <=> p <= k
      BY <1>6, <2>3
    <3> SUFFICES ASSUME NEW k \in 1 .. Len(ix)
                 PROVE  (k < p => recs[ix[k]].at <= r.at) /\ (p <= k => recs[ix[k]].at > r.at)
      OBVIOUS
    <3>2. recs[ix[k]].at > r.at <=> p <= k
      BY <1>5, <3>1, Zenon
    <3>3. p \in Nat /\ k \in Nat /\ recs[ix[k]].at \in Nat /\ r.at \in Nat
      BY <1>2, <1>3, <1>4, <1>6
    <3> QED
      BY <3>2, <3>3
  <2>5. \A k \in 1 .. Len(jx) :
          \/ k < p /\ k \in 1 .. Len(ix) /\ more[jx[k]] = recs[ix[k]]
          \/ k = p /\ more[jx[k]] = r
          \/ k > p /\ k - 1 \in 1 .. Len(ix) /\ more[jx[k]] = recs[ix[k - 1]]
    <3> SUFFICES ASSUME NEW k \in 1 .. Len(jx)
                 PROVE  \/ k < p /\ k \in 1 .. Len(ix) /\ more[jx[k]] = recs[ix[k]]
                        \/ k = p /\ more[jx[k]] = r
                        \/ k > p /\ k - 1 \in 1 .. Len(ix) /\ more[jx[k]] = recs[ix[k - 1]]
      OBVIOUS
    <3>1. CASE k < p
      <4>1. k \in 1 .. Len(ix) /\ jx[k] = ix[k]
        BY <1>3, <1>6, <1>7, <3>1
      <4> QED
        BY <1>4, <1>8, <3>1, <4>1
    <3>2. CASE k = p
      BY <1>7, <1>8, <3>2
    <3>3. CASE k > p
      <4>1. k - 1 \in 1 .. Len(ix) /\ jx[k] = ix[k - 1]
        <5>1. k \in Nat /\ k <= Len(ix) + 1 /\ p \in Nat /\ p >= 1
          BY <1>6, <1>7
        <5>2. ~(k < p) /\ k # p /\ k \in 1 .. Len(ix) + 1
          BY <1>7, <3>3, <5>1
        <5> QED
          BY <1>3, <1>7, <3>3, <5>1, <5>2
      <4> QED
        BY <1>4, <1>8, <3>3, <4>1
    <3> QED
      BY <1>6, <3>1, <3>2, <3>3
  <2>6. ASSUME NEW i \in 1 .. Len(jx), NEW j \in 1 .. Len(jx), i < j
        PROVE  more[jx[i]].at <= more[jx[j]].at
    <3>1. i \in Nat /\ j \in Nat /\ p \in Nat
      BY <1>6, <1>7
    <3>2. CASE j < p
      BY <2>2, <2>5, <2>6, <3>1, <3>2
    <3>3. CASE j = p
      BY <2>4, <2>5, <2>6, <3>1, <3>3
    <3>4. CASE j > p
      <4>1. j - 1 \in 1 .. Len(ix) /\ more[jx[j]] = recs[ix[j - 1]] /\ p <= j - 1
        BY <2>5, <3>1, <3>4
      <4>2. CASE i < p
        <5>1. i \in 1 .. Len(ix) /\ more[jx[i]] = recs[ix[i]] /\ i < j - 1
          BY <2>5, <3>1, <3>4, <4>2
        <5> QED
          BY <2>2, <4>1, <5>1
      <4>3. CASE i = p
        <5>1. more[jx[i]] = r /\ recs[ix[j - 1]].at > r.at /\ recs[ix[j - 1]].at \in Nat
          BY <1>4, <2>4, <2>5, <4>1, <4>3
        <5> QED
          BY <1>2, <4>1, <5>1
      <4>4. CASE i > p
        <5>1. i - 1 \in 1 .. Len(ix) /\ more[jx[i]] = recs[ix[i - 1]] /\ i - 1 < j - 1
          BY <2>5, <2>6, <3>1, <4>4
        <5> QED
          BY <2>2, <4>1, <5>1
      <4> QED
        BY <3>1, <4>2, <4>3, <4>4
    <3> QED
      BY <3>1, <3>2, <3>3, <3>4
  <2>7. ASSUME NEW s \in Session, NEW i \in 1 .. Len(index2[s]), NEW j \in 1 .. Len(index2[s]), i < j
        PROVE  more[index2[s][i]].at <= more[index2[s][j]].at
    BY <1>10, <2>1, <2>6, <2>7
  <2> QED
    BY <2>7 DEF ByTime
<1> HIDE DEF new
<1> QED
  BY <1>1, <1>9, <1>13, <1>14 DEF GoodIndex, new, more

\* What a part of a slice keeps of it.
LEMMA PartKeeps ==
  ASSUME NEW recs \in Seq(Record), NEW S \in SUBSET (1 .. Len(recs))
  PROVE  /\ At(recs, S) \in Seq(Record)
         /\ \A k \in 1 .. Len(At(recs, S)) : \E i \in S : At(recs, S)[k] = recs[i]
         /\ \A i \in S : \E k \in 1 .. Len(At(recs, S)) : At(recs, S)[k] = recs[i]
         /\ Asked(recs) => Asked(At(recs, S))
         /\ NoTwinsIn(recs) => NoTwinsIn(At(recs, S))
<1> DEFINE q == InOrder(S)
           part == At(recs, S)
<1>0. part \in Seq(Record) /\ Picks(q, part, recs, S)
  BY AtPicks
<1> HIDE DEF q, part
<1>1. /\ q \in Seq(S) /\ part \in Seq(Record) /\ Len(part) = Len(q)
      /\ \A k \in 1 .. Len(q) : q[k] \in S /\ part[k] = recs[q[k]]
      /\ \A x \in S : \E k \in 1 .. Len(q) : q[k] = x
      /\ \A i, j \in 1 .. Len(q) : i < j <=> q[i] < q[j]
      /\ \A i, j \in 1 .. Len(q) : q[i] = q[j] => i = j
  BY <1>0, Zenon DEF Picks
<1>2. \A k \in 1 .. Len(q) : q[k] \in 1 .. Len(recs)
  BY <1>1
<1>3. Asked(recs) => Asked(part)
  BY <1>1, <1>2 DEF Asked
<1>4. ASSUME NoTwinsIn(recs) PROVE NoTwinsIn(part)
  <2> SUFFICES ASSUME NEW i \in 1 .. Len(q), NEW j \in 1 .. Len(q),
                      part[i].msg = part[j].msg, part[i].role = part[j].role
               PROVE  i = j
    BY <1>1 DEF NoTwinsIn
  <2>1. /\ q[i] \in 1 .. Len(recs) /\ q[j] \in 1 .. Len(recs)
        /\ part[i] = recs[q[i]] /\ part[j] = recs[q[j]]
    BY <1>1, <1>2
  <2>2. q[i] = q[j]
    BY <1>4, <2>1 DEF NoTwinsIn
  <2> QED
    BY <1>1, <2>2
<1>5. \A k \in 1 .. Len(part) : \E i \in S : part[k] = recs[i]
  BY <1>1
<1>6. \A i \in S : \E k \in 1 .. Len(part) : part[k] = recs[i]
  BY <1>1
<1> QED
  BY <1>1, <1>3, <1>4, <1>5, <1>6, Zenon DEF part

\* What the positions of the records of a session are, in the order of the slice.
LEMMA BuiltIndexes ==
  ASSUME NEW recs \in Seq(Record)
  PROVE  GoodIndex(recs, BuildSessionIndexes(recs)) /\ AsSlice(BuildSessionIndexes(recs))
<1> DEFINE S(s) == {i \in 1 .. Len(recs) : recs[i].sess = s}
           index == BuildSessionIndexes(recs)
<1>1. ASSUME NEW s \in Session
      PROVE  /\ index[s] \in Seq(Nat) /\ ExactOf(recs, index[s], s)
             /\ \A i, j \in 1 .. Len(index[s]) : i < j => index[s][i] < index[s][j]
  <2> DEFINE T == S(s)
             q == InOrder(T)
  <2>1. T \in SUBSET (1 .. Len(recs))
    OBVIOUS
  <2>2. /\ q \in Seq(T)
        /\ \A k \in 1 .. Len(q) : q[k] \in T
        /\ \A x \in T : \E k \in 1 .. Len(q) : q[k] = x
        /\ \A i, j \in 1 .. Len(q) : i < j <=> q[i] < q[j]
        /\ \A i, j \in 1 .. Len(q) : q[i] = q[j] => i = j
    <3> HIDE DEF T
    <3>1. Picks(q, At(recs, T), recs, T)
      BY <2>1, AtPicks
    <3> HIDE DEF q
    <3> QED
      BY <3>1, Zenon DEF Picks
  <2>3. index[s] = q
    BY DEF BuildSessionIndexes
  <2>4. \A i \in 1 .. Len(recs) : recs[i].sess = s <=> i \in T
    OBVIOUS
  <2> HIDE DEF T, q, index
  <2>5. q \in Seq(Nat)
    <3>1. T \subseteq Nat
      BY <2>1
    <3> QED
      BY <2>2, <3>1, SeqMonotonic, Zenon
  <2>6. ExactOf(recs, q, s)
    BY <2>1, <2>2, <2>4 DEF ExactOf
  <2> QED
    BY <2>2, <2>3, <2>5, <2>6
<1>2. index = [s \in Session |-> index[s]]
  BY DEF BuildSessionIndexes
<1> HIDE DEF index
<1>3. index \in [Session -> Seq(Nat)]
  <2>1. \A s \in Session : index[s] \in Seq(Nat)
    BY <1>1
  <2> QED
    BY <1>2, <2>1, Zenon
<1> QED
  BY <1>1, <1>3 DEF GoodIndex, Exact, AsSlice, index

\* A record of s is among them.
Has(recs, s) == \E i \in 1 .. Len(recs) : recs[i].sess = s

\* A session without an index is one without a record.
LEMMA NoneIndexed ==
  ASSUME NEW recs \in Seq(Record), NEW index, GoodIndex(recs, index), NEW s \in Session
  PROVE  index[s] = <<>> <=> ~Has(recs, s)
<1>1. index[s] \in Seq(Nat) /\ ExactOf(recs, index[s], s)
  BY DEF GoodIndex, Exact
<1>2. ASSUME index[s] = <<>> PROVE \A i \in 1 .. Len(recs) : recs[i].sess # s
  BY <1>1, <1>2 DEF ExactOf
<1>3. ASSUME index[s] # <<>> PROVE \E i \in 1 .. Len(recs) : recs[i].sess = s
  <2>1. 1 \in 1 .. Len(index[s])
    BY <1>1, <1>3
  <2> QED
    BY <1>1, <2>1 DEF ExactOf
<1> QED
  BY <1>2, <1>3 DEF Has

\* What has no leftovers of the sessions that are gone.
LEMMA WithoutKeeps ==
  ASSUME NEW recs \in Seq(Record), NEW gone
  PROVE  LET rest == Without(recs, gone) IN
         /\ rest \in Seq(Record)
         /\ \A k \in 1 .. Len(rest) : rest[k].sess \notin gone /\ \E i \in 1 .. Len(recs) : rest[k] = recs[i]
         /\ \A i \in 1 .. Len(recs) : recs[i].sess \notin gone => \E k \in 1 .. Len(rest) : rest[k] = recs[i]
         /\ Asked(recs) => Asked(rest)
         /\ NoTwinsIn(recs) => NoTwinsIn(rest)
<1> DEFINE S == {i \in 1 .. Len(recs) : recs[i].sess \notin gone}
           rest == Without(recs, gone)
<1>1. rest = At(recs, S)
  BY DEF Without
<1>2. \A i \in 1 .. Len(recs) : i \in S <=> recs[i].sess \notin gone
  OBVIOUS
<1>3. S \in SUBSET (1 .. Len(recs))
  OBVIOUS
<1> HIDE DEF S, rest
<1>4. /\ At(recs, S) \in Seq(Record)
      /\ \A k \in 1 .. Len(At(recs, S)) : \E i \in S : At(recs, S)[k] = recs[i]
      /\ \A i \in S : \E k \in 1 .. Len(At(recs, S)) : At(recs, S)[k] = recs[i]
      /\ Asked(recs) => Asked(At(recs, S))
      /\ NoTwinsIn(recs) => NoTwinsIn(At(recs, S))
  BY <1>3, PartKeeps
<1>5. \A k \in 1 .. Len(rest) : rest[k].sess \notin gone /\ \E i \in 1 .. Len(recs) : rest[k] = recs[i]
  BY <1>1, <1>2, <1>3, <1>4
<1>6. \A i \in 1 .. Len(recs) : recs[i].sess \notin gone => \E k \in 1 .. Len(rest) : rest[k] = recs[i]
  BY <1>1, <1>2, <1>4
<1> QED
  BY <1>1, <1>4, <1>5, <1>6 DEF rest

\* c is what recs has of s.
IsContent(c, recs, s) ==
  /\ c \in Seq(Record)
  /\ \A k \in 1 .. Len(c) : c[k].sess = s /\ \E i \in 1 .. Len(recs) : c[k] = recs[i]
  /\ \A i \in 1 .. Len(recs) : recs[i].sess = s => c # <<>> /\ \E k \in 1 .. Len(c) : c[k] = recs[i]
  /\ NoTwinsIn(recs) => NoTwinsIn(c)

\* The content of a session's file.
LEMMA ContentIs ==
  ASSUME NEW recs \in Seq(Record), NEW s \in Session
  PROVE  IsContent(Content(recs, s), recs, s)
<1> DEFINE S == {i \in 1 .. Len(recs) : recs[i].sess = s}
           c == Content(recs, s)
<1>1. c = At(recs, S)
  BY DEF Content
<1>2. \A i \in 1 .. Len(recs) : i \in S <=> recs[i].sess = s
  OBVIOUS
<1>3. S \in SUBSET (1 .. Len(recs))
  OBVIOUS
<1> HIDE DEF S, c
<1>4. /\ At(recs, S) \in Seq(Record)
      /\ \A k \in 1 .. Len(At(recs, S)) : \E i \in S : At(recs, S)[k] = recs[i]
      /\ \A i \in S : \E k \in 1 .. Len(At(recs, S)) : At(recs, S)[k] = recs[i]
      /\ NoTwinsIn(recs) => NoTwinsIn(At(recs, S))
  BY <1>3, PartKeeps
<1>5. \A k \in 1 .. Len(c) : c[k].sess = s /\ \E i \in 1 .. Len(recs) : c[k] = recs[i]
  BY <1>1, <1>2, <1>3, <1>4
<1>6. \A i \in 1 .. Len(recs) : recs[i].sess = s => \E k \in 1 .. Len(c) : c[k] = recs[i]
  BY <1>1, <1>2, <1>4
<1>7. \A i \in 1 .. Len(recs) : recs[i].sess = s => c # <<>>
  BY <1>6
<1> QED
  BY <1>1, <1>4, <1>5, <1>6, <1>7 DEF IsContent, c

\* As a set.
LEMMA ContentSet ==
  ASSUME NEW c, NEW recs, NEW s, IsContent(c, recs, s)
  PROVE  \A x : x \in ToSet(c) <=> x.sess = s /\ \E i \in 1 .. Len(recs) : recs[i] = x
<1> SUFFICES ASSUME NEW x
             PROVE  x \in ToSet(c) <=> x.sess = s /\ \E i \in 1 .. Len(recs) : recs[i] = x
  OBVIOUS
<1>1. x \in ToSet(c) <=> \E k \in 1 .. Len(c) : c[k] = x
  <2>1. c \in Seq(Record)
    BY DEF IsContent
  <2> QED
    BY <2>1 DEF ToSet
<1>2. ASSUME NEW k \in 1 .. Len(c), c[k] = x
      PROVE  x.sess = s /\ \E i \in 1 .. Len(recs) : recs[i] = x
  <2>1. c[k].sess = s /\ \E i \in 1 .. Len(recs) : c[k] = recs[i]
    BY DEF IsContent
  <2> QED
    BY <1>2, <2>1
<1>3. ASSUME NEW i \in 1 .. Len(recs), recs[i] = x, x.sess = s
      PROVE  \E k \in 1 .. Len(c) : c[k] = x
  <2>1. \E k \in 1 .. Len(c) : c[k] = recs[i]
    BY <1>3 DEF IsContent
  <2> QED
    BY <1>3, <2>1
<1> QED
  BY <1>1, <1>2, <1>3

\* A set of numbers with a member has a least one.
LEMMA LeastOf ==
  ASSUME NEW S \in SUBSET Nat, S # {}
  PROVE  \E k \in S : \A m \in S : k <= m
<1> DEFINE P == {n \in Nat : \A m \in S : n <= m}
<1> SUFFICES ASSUME \A k \in S : \E m \in S : m < k PROVE FALSE
  OBVIOUS
<1>1. 0 \in P
  OBVIOUS
<1>2. ASSUME NEW n \in Nat, n \in P PROVE n + 1 \in P
  <2>1. n \notin S
    <3>1. ASSUME n \in S PROVE FALSE
      <4>1. PICK m \in S : m < n
        BY <3>1
      <4> QED
        BY <1>2, <4>1
    <3> QED
      BY <3>1
  <2>2. \A m \in S : n + 1 <= m
    BY <1>2, <2>1
  <2> QED
    BY <2>2
<1> HIDE DEF P
<1>3. Nat \subseteq P
  BY <1>1, <1>2, SetInduction
<1>4. PICK k \in S : TRUE
  OBVIOUS
<1>5. k + 1 \in P
  BY <1>3
<1> QED
  BY <1>5 DEF P

\* A set of numbers up to n with a member has a largest one.
LEMMA LargestOf ==
  ASSUME NEW n \in Nat, NEW S \in SUBSET (0 .. n), S # {}
  PROVE  \E k \in S : \A m \in S : m <= k
<1> DEFINE T == {n - i : i \in S}
<1>1. T \in SUBSET Nat /\ T # {}
  <2>1. \A i \in S : n - i \in Nat
    OBVIOUS
  <2> QED
    BY <2>1
<1>2. PICK t \in T : \A m \in T : t <= m
  <2> HIDE DEF T
  <2> QED
    BY <1>1, LeastOf
<1>3. PICK k \in S : t = n - k
  OBVIOUS
<1>4. ASSUME NEW m \in S PROVE m <= k
  <2>1. n - m \in T
    OBVIOUS
  <2>2. n - k <= n - m
    BY <1>2, <1>3, <2>1
  <2> QED
    BY <2>2
<1> QED
  BY <1>4

\* The groups are those of the sessions that have a record.
LEMMA GroupsAre ==
  ASSUME NEW recs \in Seq(Record)
  PROVE  LET g == Groups(recs) IN
         /\ g \in Seq(Session)
         /\ \A k \in 1 .. Len(g) : \E i \in 1 .. Len(recs) : recs[i].sess = g[k]
         /\ \A i \in 1 .. Len(recs) : \E k \in 1 .. Len(g) : g[k] = recs[i].sess
<1> DEFINE firsts == {i \in 1 .. Len(recs) : \A j \in 1 .. i - 1 : recs[j].sess # recs[i].sess}
           q == InOrder(firsts)
           at == At(recs, firsts)
           g == Groups(recs)
<1>1. firsts \in SUBSET (1 .. Len(recs))
  OBVIOUS
<1>2. g = [k \in DOMAIN q |-> at[k].sess]
  BY DEF Groups
<1>3. ASSUME NEW i \in 1 .. Len(recs)
      PROVE  \E j \in firsts : recs[j].sess = recs[i].sess
  <2> DEFINE Same == {j \in 1 .. Len(recs) : recs[j].sess = recs[i].sess}
  <2>1. Same \in SUBSET Nat /\ Same # {}
    OBVIOUS
  <2>2. PICK j \in Same : \A m \in Same : j <= m
    <3> HIDE DEF Same
    <3> QED
      BY <2>1, LeastOf
  <2>3. ASSUME NEW m \in 1 .. j - 1 PROVE recs[m].sess # recs[j].sess
    <3>1. m \in 1 .. Len(recs) /\ m < j
      BY <2>2
    <3>2. m \notin Same
      BY <2>2, <3>1
    <3> QED
      BY <2>2, <3>1, <3>2
  <2>4. j \in firsts
    BY <2>2, <2>3
  <2> QED
    BY <2>2, <2>4
<1> HIDE DEF firsts
<1>4. /\ q \in Seq(firsts) /\ at \in Seq(Record) /\ Len(at) = Len(q)
      /\ \A k \in 1 .. Len(q) : q[k] \in firsts /\ at[k] = recs[q[k]]
      /\ \A x \in firsts : \E k \in 1 .. Len(q) : q[k] = x
  <2>1. at \in Seq(Record) /\ Picks(q, at, recs, firsts)
    BY <1>1, AtPicks
  <2> HIDE DEF q, at, g
  <2> QED
    BY <2>1, Zenon DEF Picks
<1> HIDE DEF q, at, g
<1>5. Len(q) \in Nat /\ DOMAIN q = 1 .. Len(q)
  BY <1>4
<1>6. \A k \in 1 .. Len(q) : at[k].sess \in Session
  BY <1>4, RecordHas
<1>7. g \in [1 .. Len(q) -> Session]
  BY <1>2, <1>5, <1>6
<1>8. g \in Seq(Session) /\ Len(g) = Len(q)
  BY <1>5, <1>7
<1>9. \A k \in 1 .. Len(q) : g[k] = recs[q[k]].sess /\ q[k] \in 1 .. Len(recs)
  BY <1>1, <1>2, <1>4, <1>5
<1>10. \A k \in 1 .. Len(g) : \E i \in 1 .. Len(recs) : recs[i].sess = g[k]
  BY <1>8, <1>9
<1>11. ASSUME NEW i \in 1 .. Len(recs) PROVE \E k \in 1 .. Len(g) : g[k] = recs[i].sess
  <2>1. PICK j \in firsts : recs[j].sess = recs[i].sess
    BY <1>3
  <2>2. PICK k \in 1 .. Len(q) : q[k] = j
    BY <1>4
  <2> QED
    BY <1>8, <1>9, <2>1, <2>2
<1> QED
  BY <1>8, <1>10, <1>11 DEF g

\* c is what the save of recs writes to the file f.
PutThere(recs, f, c) == \E s \in Session : FileOf[s] = f /\ Has(recs, s) /\ c = Full(Content(recs, s))

\* c is what a save of recs over the layout d may leave in the file f.
Shape(d, recs, f, c) ==
  c = d[f] \/ c = Missing \/ (c = Torn /\ f # Legacy) \/ PutThere(recs, f, c)

\* What is in a file after a save has written n of its groups.
LEMMA WrittenIs ==
  ASSUME NEW d, NEW recs \in Seq(Record), NEW n \in 0 .. Len(Groups(recs)), NEW f \in File
  PROVE  /\ Written(d, recs, n) = [e \in File |-> Written(d, recs, n)[e]]
         /\ Written(d, recs, n)[f] = d[f] \/ PutThere(recs, f, Written(d, recs, n)[f])
         /\ (\E k \in 1 .. n : FileOf[Groups(recs)[k]] = f) => PutThere(recs, f, Written(d, recs, n)[f])
<1> DEFINE g == Groups(recs)
           K == {i \in 1 .. n : FileOf[g[i]] = f}
           final == CHOOSE i \in K : \A j \in K : j <= i
           w == Written(d, recs, n)
<1>1. w[f] = (IF K = {} THEN d[f] ELSE Full(Content(recs, g[final])))
  BY DEF Written
<1>2. w = [e \in File |-> w[e]]
  BY DEF Written
<1>3. ASSUME K # {} PROVE PutThere(recs, f, w[f])
  <2>1. n \in Nat /\ K \in SUBSET (0 .. n)
    BY GroupsAre
  <2>2. \E i \in K : \A j \in K : j <= i
    <3> HIDE DEF K
    <3> QED
      BY <1>3, <2>1, LargestOf
  <2>3. final \in K
    <3> HIDE DEF K
    <3> QED
      BY <2>2
  <2>4. final \in 1 .. Len(g) /\ FileOf[g[final]] = f
    <3> HIDE DEF final
    <3> QED
      BY <2>3, GroupsAre
  <2> HIDE DEF final, g
  <2>5. g[final] \in Session /\ Has(recs, g[final])
    BY <2>4, GroupsAre DEF g, Has
  <2> HIDE DEF K, w
  <2> QED
    BY <1>1, <1>3, <2>4, <2>5 DEF PutThere
<1>4. (\E k \in 1 .. n : FileOf[g[k]] = f) => K # {}
  OBVIOUS
<1> QED
  BY <1>1, <1>2, <1>3, <1>4

\* What is in a file after a save.
LEMMA SavedLayoutIs ==
  ASSUME NEW d, NEW recs \in Seq(Record)
  PROVE  /\ SavedLayout(d, recs) = [f \in File |-> SavedLayout(d, recs)[f]]
         /\ \A f \in File : IF f \in KeptFiles(recs) THEN PutThere(recs, f, SavedLayout(d, recs)[f])
                            ELSE SavedLayout(d, recs)[f] = Missing
<1>1. ASSUME NEW f \in File, f \in KeptFiles(recs) PROVE PutThere(recs, f, SavedLayout(d, recs)[f])
  <2> DEFINE g == Groups(recs)
             n == Len(g)
  <2>1. PICK i \in 1 .. Len(recs) : f = FileOf[recs[i].sess]
    BY <1>1 DEF KeptFiles
  <2>2. PICK k \in 1 .. n : g[k] = recs[i].sess
    BY GroupsAre
  <2>3. n \in 0 .. Len(g)
    BY GroupsAre
  <2>4. PutThere(recs, f, Written(d, recs, n)[f])
    BY <2>1, <2>2, <2>3, WrittenIs
  <2> QED
    BY <1>1, <2>4 DEF SavedLayout
<1>2. SavedLayout(d, recs) = [f \in File |-> SavedLayout(d, recs)[f]]
  BY DEF SavedLayout
<1>3. \A f \in File : f \notin KeptFiles(recs) => SavedLayout(d, recs)[f] = Missing
  BY DEF SavedLayout
<1> QED
  BY <1>1, <1>2, <1>3

\* A session with a file of its own finds all of its records there after a save.
LEMMA SavedOwn ==
  ASSUME NEW d, NEW recs \in Seq(Record), NEW s \in Session, OwnFile(s)
  PROVE  SavedLayout(d, recs)[FileOf[s]] = IF Has(recs, s) THEN Full(Content(recs, s)) ELSE Missing
<1>1. FileOf[s] \in File
  BY DEF File
<1>2. (FileOf[s] \in KeptFiles(recs)) <=> Has(recs, s)
  <2>1. ASSUME FileOf[s] \in KeptFiles(recs) PROVE Has(recs, s)
    <3>1. PICK i \in 1 .. Len(recs) : FileOf[s] = FileOf[recs[i].sess]
      BY <2>1 DEF KeptFiles
    <3>2. recs[i].sess \in Session
      BY RecordHas
    <3> QED
      BY <3>1, <3>2 DEF OwnFile, Has
  <2>2. ASSUME Has(recs, s) PROVE FileOf[s] \in KeptFiles(recs)
    BY <2>2 DEF Has, KeptFiles
  <2> QED
    BY <2>1, <2>2
<1>3. PutThere(recs, FileOf[s], SavedLayout(d, recs)[FileOf[s]]) => SavedLayout(d, recs)[FileOf[s]] = Full(Content(recs, s))
  BY DEF PutThere, OwnFile
<1> QED
  BY <1>1, <1>2, <1>3, SavedLayoutIs

\* What is in a file after a save that ended or stopped somewhere.
LEMMA LayoutShapes ==
  ASSUME HistoryAssumption, NEW d, d = [f \in File |-> d[f]], NEW recs \in Seq(Record),
         NEW e \in PartialLayouts(d, recs) \cup {d, SavedLayout(d, recs)}
  PROVE  e = [f \in File |-> e[f]] /\ \A f \in File : Shape(d, recs, f, e[f])
<1> DEFINE g == Groups(recs)
           n == Len(g)
           first == [k \in 0 .. n |-> Written(d, recs, k)]
<1>1. n \in Nat /\ g \in Seq(Session)
  BY GroupsAre
<1>2. PartialLayouts(d, recs) =
        {first[k] : k \in 0 .. n}
        \cup {[first[k] EXCEPT ![FileOf[g[k + 1]]] = Torn] : k \in 0 .. n - 1}
        \cup {[f \in File |-> IF f \in gone THEN Missing ELSE first[n][f]] : gone \in SUBSET (File \ KeptFiles(recs))}
  BY DEF PartialLayouts
<1>3. \A k \in 0 .. n : first[k] = [f \in File |-> first[k][f]]
                      /\ \A f \in File : first[k][f] = d[f] \/ PutThere(recs, f, first[k][f])
  <2> SUFFICES ASSUME NEW k \in 0 .. n
               PROVE  first[k] = [f \in File |-> first[k][f]]
                      /\ \A f \in File : first[k][f] = d[f] \/ PutThere(recs, f, first[k][f])
    OBVIOUS
  <2>1. first[k] = Written(d, recs, k)
    OBVIOUS
  <2>2. \A f \in File : first[k][f] = d[f] \/ PutThere(recs, f, first[k][f])
    BY <2>1, WrittenIs
  <2>3. first[k] = [f \in File |-> first[k][f]]
    BY <2>1 DEF Written
  <2> QED
    BY <2>2, <2>3
<1> HIDE DEF first, n, g
<1>4. CASE e = d
  BY <1>4 DEF Shape
<1>5. CASE e = SavedLayout(d, recs)
  <2>1. e = [f \in File |-> e[f]]
    BY <1>5 DEF SavedLayout
  <2>2. \A f \in File : e[f] = Missing \/ PutThere(recs, f, e[f])
    BY <1>5, SavedLayoutIs
  <2> QED
    BY <2>1, <2>2 DEF Shape
<1>6. CASE \E k \in 0 .. n : e = first[k]
  BY <1>3, <1>6 DEF Shape
<1>7. ASSUME NEW k \in 0 .. n - 1, e = [first[k] EXCEPT ![FileOf[g[k + 1]]] = Torn]
      PROVE  e = [f \in File |-> e[f]] /\ \A f \in File : Shape(d, recs, f, e[f])
  <2>1. k \in 0 .. n /\ k + 1 \in 1 .. n
    BY <1>1, <1>7
  <2>2. g[k + 1] \in Session
    BY <1>1, <2>1 DEF n
  <2>3. FileOf[g[k + 1]] \in File /\ FileOf[g[k + 1]] # Legacy
    BY <2>2 DEF File, HistoryAssumption
  <2>4. \A f \in File : e[f] = IF f = FileOf[g[k + 1]] THEN Torn ELSE first[k][f]
    BY <1>3, <1>7, <2>1, <2>3
  <2>5. e = [f \in File |-> e[f]]
    BY <1>3, <1>7, <2>1
  <2>6. \A f \in File : Shape(d, recs, f, e[f])
    BY <1>3, <2>1, <2>3, <2>4 DEF Shape
  <2> QED
    BY <2>5, <2>6
<1>8. ASSUME NEW gone \in SUBSET (File \ KeptFiles(recs)), e = [f \in File |-> IF f \in gone THEN Missing ELSE first[n][f]]
      PROVE  e = [f \in File |-> e[f]] /\ \A f \in File : Shape(d, recs, f, e[f])
  <2>1. n \in 0 .. n
    BY <1>1
  <2> QED
    BY <1>3, <1>8, <2>1 DEF Shape
<1> QED
  BY <1>2, <1>4, <1>5, <1>6, <1>7, <1>8

-----------------------------------------------------------------------------
(* What a load makes of the files *)

Layout(d) == d \in [File -> [st : {"missing", "torn", "full"}, recs : Seq(Record)]]

\* The values of a function on a finite set are finitely many.
LEMMA ImageFinite ==
  ASSUME NEW S, IsFiniteSet(S), NEW f, DOMAIN f = S
  PROVE  IsFiniteSet({f[x] : x \in S})
<1> DEFINE T == {f[x] : x \in S}
           g == [x \in S |-> f[x]]
<1>1. g \in Surjection(S, T)
  BY DEF Surjection
<1> HIDE DEF g, T
<1>2. IsFiniteSet(T)
  BY <1>1, FS_Surjection
<1> QED
  BY <1>2 DEF T

\* The files are finitely many numbers.
LEMMA FilesAre ==
  ASSUME HistoryAssumption
  PROVE  IsFiniteSet(File) /\ File \subseteq Nat
<1>1. IsFiniteSet({FileOf[s] : s \in Session})
  <2> DEFINE fn == [s \in Session |-> FileOf[s]]
  <2>1. IsFiniteSet({fn[s] : s \in Session})
    <3>1. DOMAIN fn = Session /\ IsFiniteSet(Session)
      BY DEF HistoryAssumption
    <3> HIDE DEF fn
    <3> QED
      BY <3>1, ImageFinite
  <2>2. {fn[s] : s \in Session} = {FileOf[s] : s \in Session}
    OBVIOUS
  <2> QED
    BY <2>1, <2>2
<1> QED
  BY <1>1, FS_AddElement DEF File, HistoryAssumption

\* The places of the records on disk are finitely many, and which they are.
LEMMA PlacesFinite ==
  ASSUME HistoryAssumption, NEW d, Layout(d)
  PROVE  /\ IsFiniteSet(Places(d))
         /\ \A p : p \in Places(d) <=> \E f \in File : \E i \in 1 .. Len(d[f].recs) : p = <<f, i>>
         /\ \A f \in File : d[f].recs \in Seq(Record) /\ Len(d[f].recs) \in Nat
<1>1. \A f \in File : d[f].recs \in Seq(Record) /\ Len(d[f].recs) \in Nat /\ DOMAIN d[f].recs = 1 .. Len(d[f].recs)
  <2> SUFFICES ASSUME NEW f \in File
               PROVE  d[f].recs \in Seq(Record) /\ Len(d[f].recs) \in Nat /\ DOMAIN d[f].recs = 1 .. Len(d[f].recs)
    OBVIOUS
  <2>1. d[f].recs \in Seq(Record)
    BY DEF Layout
  <2> QED
    BY <2>1, LenProperties
<1> DEFINE Of(f) == {f} \X DOMAIN d[f].recs
<1>2. \A p : p \in Places(d) <=> \E f \in File : \E i \in 1 .. Len(d[f].recs) : p = <<f, i>>
  <2>1. \A p : p \in Places(d) <=> \E f \in File : p \in Of(f)
    BY DEF Places
  <2>2. \A f \in File : \A p : p \in Of(f) <=> \E i \in 1 .. Len(d[f].recs) : p = <<f, i>>
    BY <1>1
  <2> HIDE DEF Of
  <2> QED
    BY <2>1, <2>2
<1>3. \A f \in File : IsFiniteSet(Of(f))
  <2> SUFFICES ASSUME NEW f \in File PROVE IsFiniteSet(Of(f))
    OBVIOUS
  <2>1. IsFiniteSet(DOMAIN d[f].recs)
    <3>1. DOMAIN d[f].recs = 1 .. Len(d[f].recs) /\ Len(d[f].recs) \in Nat
      BY <1>1, Zenon
    <3>2. IsFiniteSet(1 .. Len(d[f].recs))
      BY <3>1, PositionsFinite, Zenon
    <3> QED
      BY <3>1, <3>2, Zenon
  <2>2. IsFiniteSet({f})
    BY FS_Singleton
  <2> QED
    BY <2>1, <2>2, FS_Product
<1>4. IsFiniteSet({Of(f) : f \in File})
  <2> DEFINE fn == [f \in File |-> Of(f)]
  <2>1. IsFiniteSet({fn[f] : f \in File})
    <3>1. DOMAIN fn = File /\ IsFiniteSet(File)
      BY FilesAre
    <3> HIDE DEF fn
    <3> QED
      BY <3>1, ImageFinite
  <2> HIDE DEF Of
  <2>2. {fn[f] : f \in File} = {Of(f) : f \in File}
    OBVIOUS
  <2> QED
    BY <2>1, <2>2
<1>5. Places(d) = UNION {Of(f) : f \in File}
  BY DEF Places
<1>6. IsFiniteSet(UNION {Of(f) : f \in File})
  <2>1. \A T \in {Of(f) : f \in File} : IsFiniteSet(T)
    BY <1>3
  <2> QED
    BY <1>4, <2>1, FS_UNION
<1> QED
  BY <1>1, <1>2, <1>5, <1>6

\* place lists the places of d once each, and recs what is there.
ReadFrom(d, place, recs) ==
  /\ Len(place) = Len(recs) /\ Len(place) \in Nat
  /\ \A k \in 1 .. Len(place) : place[k] \in Places(d) /\ recs[k] = d[place[k][1]].recs[place[k][2]]
  /\ \A p \in Places(d) : \E k \in 1 .. Len(place) : place[k] = p
  /\ \A i, j \in 1 .. Len(place) : place[i] = place[j] => i = j

\* What the load reads is the records of the files.
LEMMA ItemsAre ==
  ASSUME HistoryAssumption, NEW d, Layout(d)
  PROVE  LoadedItems(d) \in Seq(Record) /\ \E place : ReadFrom(d, place, LoadedItems(d))
<1> DEFINE P == Places(d)
           R == {x \in P \X P : x[1][1] < x[2][1] \/ (x[1][1] = x[2][1] /\ x[1][2] < x[2][2])}
           place == Ranked(P, LAMBDA p, q : p[1] < q[1] \/ (p[1] = q[1] /\ p[2] < q[2]))
           Precedes(p, q) == p[1] < q[1] \/ (p[1] = q[1] /\ p[2] < q[2])
           items == LoadedItems(d)
<1>1. /\ IsFiniteSet(P)
      /\ \A p : p \in P <=> \E f \in File : \E i \in 1 .. Len(d[f].recs) : p = <<f, i>>
      /\ \A f \in File : d[f].recs \in Seq(Record) /\ Len(d[f].recs) \in Nat
  BY PlacesFinite
<1> HIDE DEF P
<1>2. \A p \in P : p[1] \in Nat /\ p[1] \in File /\ p[2] \in Nat /\ p[2] \in 1 .. Len(d[p[1]].recs) /\ p = <<p[1], p[2]>>
  <2> SUFFICES ASSUME NEW p \in P
               PROVE  p[1] \in Nat /\ p[1] \in File /\ p[2] \in Nat /\ p[2] \in 1 .. Len(d[p[1]].recs) /\ p = <<p[1], p[2]>>
    OBVIOUS
  <2>1. PICK f \in File : \E i \in 1 .. Len(d[f].recs) : p = <<f, i>>
    BY <1>1
  <2>2. PICK i \in 1 .. Len(d[f].recs) : p = <<f, i>>
    BY <2>1
  <2> QED
    BY <1>1, <2>2, FilesAre
<1>3. \A p, q \in P : <<p, q>> \in R <=> Precedes(p, q)
  OBVIOUS
<1>4. StrictOrder(R, P)
  <2> HIDE DEF R
  <2>1. \A x \in P : <<x, x>> \notin R
    BY <1>2, <1>3
  <2>2. \A x, y \in P : x # y => <<x, y>> \in R \/ <<y, x>> \in R
    <3> SUFFICES ASSUME NEW x \in P, NEW y \in P, x # y PROVE Precedes(x, y) \/ Precedes(y, x)
      BY <1>3
    <3>1. x[1] \in Nat /\ x[2] \in Nat /\ y[1] \in Nat /\ y[2] \in Nat /\ (x[1] # y[1] \/ x[2] # y[2])
      BY <1>2
    <3> QED
      BY <3>1
  <2>3. \A x, y, z \in P : <<x, y>> \in R /\ <<y, z>> \in R => <<x, z>> \in R
    <3> SUFFICES ASSUME NEW x \in P, NEW y \in P, NEW z \in P, Precedes(x, y), Precedes(y, z)
                 PROVE  Precedes(x, z)
      BY <1>3
    <3>1. x[1] \in Nat /\ x[2] \in Nat /\ y[1] \in Nat /\ y[2] \in Nat /\ z[1] \in Nat /\ z[2] \in Nat
      BY <1>2
    <3> QED
      BY <3>1
  <2> QED
    BY <2>1, <2>2, <2>3 DEF StrictOrder
<1>5. place = [k \in 1 .. Cardinality(P) |-> CHOOSE x \in P : Cardinality({y \in P : ~Precedes(x, y)}) = k]
  BY DEF Ranked
<1>6. \A x \in P : {y \in P : <<x, y>> \notin R} = {y \in P : ~Precedes(x, y)}
  <2> HIDE DEF R, Precedes
  <2> QED
    BY <1>3
<1> HIDE DEF R, Precedes
<1>7. ASSUME NEW k \in 1 .. Cardinality(P),
             \E x \in P : Cardinality({y \in P : <<x, y>> \notin R}) = k
      PROVE  place[k] \in P /\ Cardinality({y \in P : <<place[k], y>> \notin R}) = k
  <2>1. \E x \in P : Cardinality({y \in P : ~Precedes(x, y)}) = k
    BY <1>6, <1>7
  <2>2. place[k] = CHOOSE x \in P : Cardinality({y \in P : ~Precedes(x, y)}) = k
    <3> HIDE DEF place
    <3> QED
      BY <1>5
  <2> HIDE DEF place
  <2>3. place[k] \in P /\ Cardinality({y \in P : ~Precedes(place[k], y)}) = k
    BY <2>1, <2>2
  <2> QED
    BY <1>6, <2>3
<1>8. place = [k \in 1 .. Cardinality(P) |-> place[k]]
  <2> DEFINE pick(k) == CHOOSE x \in P : Cardinality({y \in P : ~Precedes(x, y)}) = k
  <2>1. place = [k \in 1 .. Cardinality(P) |-> pick(k)]
    BY <1>5
  <2> HIDE DEF pick, place
  <2> QED
    BY <2>1
<1>9. items = [k \in DOMAIN place |-> d[place[k][1]].recs[place[k][2]]]
  BY DEF LoadedItems, P
<1> HIDE DEF place, items
<1>10. Lists(place, P, R)
  BY <1>1, <1>4, <1>7, <1>8, RankedLists
<1>11. /\ Len(place) \in Nat /\ DOMAIN place = 1 .. Len(place)
       /\ \A k \in 1 .. Len(place) : place[k] \in P
       /\ \A p \in P : \E k \in 1 .. Len(place) : place[k] = p
       /\ \A i, j \in 1 .. Len(place) : place[i] = place[j] => i = j
  BY <1>10 DEF Lists
<1>12. \A k \in 1 .. Len(place) : items[k] = d[place[k][1]].recs[place[k][2]]
  BY <1>9, <1>11
<1>13. \A k \in 1 .. Len(place) : items[k] \in Record
  <2> SUFFICES ASSUME NEW k \in 1 .. Len(place) PROVE items[k] \in Record
    OBVIOUS
  <2> DEFINE f == place[k][1]
             i == place[k][2]
  <2>1. f \in File /\ i \in 1 .. Len(d[f].recs)
    BY <1>2, <1>11
  <2> HIDE DEF f, i
  <2>2. d[f].recs[i] \in Record
    BY <1>1, <2>1, ElementOfSeq
  <2> QED
    BY <1>12, <2>2 DEF f, i
<1>14. items \in [1 .. Len(place) -> Record]
  <2>1. items = [k \in 1 .. Len(place) |-> items[k]]
    BY <1>9, <1>11
  <2> QED
    BY <1>13, <2>1, Zenon
<1>15. items \in Seq(Record) /\ Len(items) = Len(place)
  BY <1>11, <1>14
<1>16. ReadFrom(d, place, items)
  BY <1>11, <1>12, <1>15 DEF ReadFrom, P
<1> QED
  BY <1>15, <1>16 DEF items

\* The sort moves the records, and puts them in the order of their times.
LEMMA LoadedAre ==
  ASSUME HistoryAssumption, NEW d, Layout(d)
  PROVE  /\ Loaded(d) \in Seq(Record) /\ \E place : ReadFrom(d, place, Loaded(d))
         /\ \A i, j \in 1 .. Len(Loaded(d)) : i < j => Loaded(d)[i].at <= Loaded(d)[j].at
<1> DEFINE items == LoadedItems(d)
           D == DOMAIN items
           Earlier(i, j) == \/ LoadOrder(items[i], items[j])
                            \/ ~LoadOrder(items[j], items[i]) /\ i < j
           R == {x \in D \X D : Earlier(x[1], x[2])}
           from == Ranked(D, Earlier)
           all == Loaded(d)
<1>1. items \in Seq(Record) /\ \E place : ReadFrom(d, place, items)
  BY ItemsAre
<1>2. all = [k \in DOMAIN from |-> items[from[k]]]
  BY DEF Loaded
<1>3. from = [k \in 1 .. Cardinality(D) |-> CHOOSE x \in D : Cardinality({y \in D : ~Earlier(x, y)}) = k]
  BY DEF Ranked
<1> HIDE DEF items
<1>4. D = 1 .. Len(items) /\ Len(items) \in Nat
  BY <1>1
<1> DEFINE at(k) == items[k].at
           sess(k) == items[k].sess
           rank(k) == IdRank[<<items[k].msg, items[k].role>>]
<1>5. \A k \in D : at(k) \in Nat /\ sess(k) \in Nat /\ rank(k) \in Nat
  <2> SUFFICES ASSUME NEW k \in D PROVE at(k) \in Nat /\ sess(k) \in Nat /\ rank(k) \in Nat
    OBVIOUS
  <2>1. items[k] \in Record
    BY <1>1, <1>4
  <2> QED
    BY <2>1, RecordHas DEF HistoryAssumption
<1>6. \A i, j \in D :
        LoadOrder(items[i], items[j]) <=>
          \/ at(i) < at(j)
          \/ at(i) = at(j) /\ sess(i) < sess(j)
          \/ at(i) = at(j) /\ sess(i) = sess(j) /\ rank(i) < rank(j)
  BY DEF LoadOrder
<1> DEFINE Lex(i, j) == \/ at(i) < at(j)
                        \/ at(i) = at(j) /\ sess(i) < sess(j)
                        \/ at(i) = at(j) /\ sess(i) = sess(j) /\ rank(i) < rank(j)
                        \/ at(i) = at(j) /\ sess(i) = sess(j) /\ rank(i) = rank(j) /\ i < j
<1> HIDE DEF at, sess, rank
<1>7. \A i, j \in D : Earlier(i, j) <=> Lex(i, j)
  <2> SUFFICES ASSUME NEW i \in D, NEW j \in D PROVE Earlier(i, j) <=> Lex(i, j)
    OBVIOUS
  <2>1. at(i) \in Nat /\ sess(i) \in Nat /\ rank(i) \in Nat /\ at(j) \in Nat /\ sess(j) \in Nat /\ rank(j) \in Nat
    BY <1>5
  <2> QED
    BY <1>6, <2>1
<1>8. \A i, j \in D : <<i, j>> \in R <=> Earlier(i, j)
  OBVIOUS
<1> HIDE DEF R, Earlier
<1>9. StrictOrder(R, D)
  <2>1. \A x \in D : <<x, x>> \notin R
    BY <1>4, <1>5, <1>7, <1>8
  <2>2. \A x, y \in D : x # y => <<x, y>> \in R \/ <<y, x>> \in R
    <3> SUFFICES ASSUME NEW x \in D, NEW y \in D, x # y PROVE Lex(x, y) \/ Lex(y, x)
      BY <1>7, <1>8
    <3>1. at(x) \in Nat /\ sess(x) \in Nat /\ rank(x) \in Nat /\ at(y) \in Nat /\ sess(y) \in Nat /\ rank(y) \in Nat
          /\ x \in Nat /\ y \in Nat
      BY <1>4, <1>5
    <3> QED
      BY <3>1
  <2>3. \A x, y, z \in D : <<x, y>> \in R /\ <<y, z>> \in R => <<x, z>> \in R
    <3> SUFFICES ASSUME NEW x \in D, NEW y \in D, NEW z \in D, Lex(x, y), Lex(y, z) PROVE Lex(x, z)
      BY <1>7, <1>8
    <3>1. at(x) \in Nat /\ sess(x) \in Nat /\ rank(x) \in Nat /\ at(y) \in Nat /\ sess(y) \in Nat /\ rank(y) \in Nat
          /\ at(z) \in Nat /\ sess(z) \in Nat /\ rank(z) \in Nat /\ x \in Nat /\ y \in Nat /\ z \in Nat
      BY <1>4, <1>5
    <3> QED
      BY <3>1
  <2> QED
    BY <2>1, <2>2, <2>3 DEF StrictOrder
<1>10. \A x \in D : {y \in D : <<x, y>> \notin R} = {y \in D : ~Earlier(x, y)}
  BY <1>8
<1> HIDE DEF D
<1>11. ASSUME NEW k \in 1 .. Cardinality(D),
              \E x \in D : Cardinality({y \in D : <<x, y>> \notin R}) = k
       PROVE  from[k] \in D /\ Cardinality({y \in D : <<from[k], y>> \notin R}) = k
  <2>1. \E x \in D : Cardinality({y \in D : ~Earlier(x, y)}) = k
    BY <1>10, <1>11
  <2> HIDE DEF from
  <2>2. from[k] = CHOOSE x \in D : Cardinality({y \in D : ~Earlier(x, y)}) = k
    BY <1>3
  <2>3. from[k] \in D /\ Cardinality({y \in D : ~Earlier(from[k], y)}) = k
    BY <2>1, <2>2
  <2> QED
    BY <1>10, <2>3
<1> HIDE DEF from, all
<1>12. from = [k \in 1 .. Cardinality(D) |-> from[k]]
  <2> DEFINE pick(k) == CHOOSE x \in D : Cardinality({y \in D : ~Earlier(x, y)}) = k
  <2>1. from = [k \in 1 .. Cardinality(D) |-> pick(k)]
    BY <1>3
  <2> HIDE DEF pick, from
  <2> QED
    BY <2>1
<1>13. IsFiniteSet(D)
  BY <1>4, PositionsFinite
<1>14. Lists(from, D, R)
  BY <1>9, <1>11, <1>12, <1>13, RankedLists
<1>15. /\ Len(from) \in Nat /\ DOMAIN from = 1 .. Len(from) /\ Len(from) = Cardinality(D)
       /\ \A k \in 1 .. Len(from) : from[k] \in D
       /\ \A x \in D : \E k \in 1 .. Len(from) : from[k] = x
       /\ \A i, j \in 1 .. Len(from) : from[i] = from[j] => i = j
       /\ \A i, j \in 1 .. Len(from) : i < j => <<from[i], from[j]>> \in R
  BY <1>14 DEF Lists
<1>16. Len(from) = Len(items)
  <2>1. Cardinality(1 .. Len(items)) = Len(items)
    <3>1. 1 \in Int /\ Len(items) \in Int
      BY <1>4
    <3>2. Cardinality(1 .. Len(items)) = IF 1 > Len(items) THEN 0 ELSE Len(items) - 1 + 1
      BY <3>1, FS_Interval, Zenon
    <3> QED
      BY <1>4, <3>2
  <2> QED
    BY <1>4, <1>15, <2>1
<1>17. \A k \in 1 .. Len(from) : all[k] = items[from[k]] /\ all[k] \in Record
  BY <1>1, <1>2, <1>4, <1>15
<1>18. all \in Seq(Record) /\ Len(all) = Len(from)
  <2>1. all = [k \in 1 .. Len(from) |-> all[k]]
    BY <1>2, <1>15
  <2>2. all \in [1 .. Len(from) -> Record]
    BY <1>17, <2>1, Zenon
  <2> QED
    BY <1>15, <2>2
<1>19. \A i, j \in 1 .. Len(all) : i < j => all[i].at <= all[j].at
  <2> SUFFICES ASSUME NEW i \in 1 .. Len(all), NEW j \in 1 .. Len(all), i < j
               PROVE  all[i].at <= all[j].at
    OBVIOUS
  <2>1. from[i] \in D /\ from[j] \in D /\ Lex(from[i], from[j])
    BY <1>7, <1>8, <1>15, <1>18
  <2>2. at(from[i]) <= at(from[j])
    BY <1>5, <2>1
  <2> QED
    BY <1>17, <1>18, <2>2 DEF at
<1>20. \E place : ReadFrom(d, place, all)
  <2>1. PICK place : ReadFrom(d, place, items)
    BY <1>1
  <2> DEFINE there == [k \in 1 .. Len(from) |-> place[from[k]]]
  <2>2. Len(there) = Len(from) /\ \A k \in 1 .. Len(from) : there[k] = place[from[k]]
    BY <1>15
  <2> HIDE DEF there
  <2>3. \A k \in 1 .. Len(from) : from[k] \in 1 .. Len(place)
    BY <1>4, <1>15, <2>1 DEF ReadFrom
  <2>4. \A k \in 1 .. Len(from) : there[k] \in Places(d) /\ all[k] = d[there[k][1]].recs[there[k][2]]
    <3> SUFFICES ASSUME NEW k \in 1 .. Len(from)
                 PROVE  there[k] \in Places(d) /\ all[k] = d[there[k][1]].recs[there[k][2]]
      OBVIOUS
    <3>1. from[k] \in 1 .. Len(place) /\ there[k] = place[from[k]] /\ all[k] = items[from[k]]
      BY <1>17, <2>2, <2>3
    <3>2. place[from[k]] \in Places(d) /\ items[from[k]] = d[place[from[k]][1]].recs[place[from[k]][2]]
      BY <2>1, <3>1 DEF ReadFrom
    <3> QED
      BY <3>1, <3>2
  <2>5. \A p \in Places(d) : \E k \in 1 .. Len(from) : there[k] = p
    <3> SUFFICES ASSUME NEW p \in Places(d) PROVE \E k \in 1 .. Len(from) : there[k] = p
      OBVIOUS
    <3>1. PICK l \in 1 .. Len(place) : place[l] = p
      BY <2>1 DEF ReadFrom
    <3>2. PICK k \in 1 .. Len(from) : from[k] = l
      BY <1>4, <1>15, <2>1, <3>1 DEF ReadFrom
    <3> QED
      BY <2>2, <3>1, <3>2
  <2>6. \A i, j \in 1 .. Len(from) : there[i] = there[j] => i = j
    BY <1>15, <2>1, <2>2, <2>3 DEF ReadFrom
  <2>7. ReadFrom(d, there, all)
    BY <1>15, <1>18, <2>2, <2>4, <2>5, <2>6 DEF ReadFrom
  <2> QED
    BY <2>7
<1> QED
  BY <1>18, <1>19, <1>20 DEF all

\* Appending the records one after the other gives the slice and its indexes, by time.
LEMMA IndexedIs ==
  ASSUME NEW recs \in Seq(Record)
  PROVE  LET new == Indexed(recs) IN
         new.recs = recs /\ GoodIndex(recs, new.index) /\ ByTime(recs, new.index)
<1> DEFINE n == Len(recs)
           Fresh == [recs |-> <<>>, index |-> NoIndex]
           Next(v, k) == AppendLocked(v.recs, v.index, recs[k])
           Body(g) == [k \in 0 .. n |-> IF k = 0 THEN Fresh ELSE AppendLocked(g[k - 1].recs, g[k - 1].index, recs[k])]
           f == CHOOSE g : g = Body(g)
<1>1. Indexed(recs) = f[n]
  BY DEF Indexed
<1>2. n \in Nat
  OBVIOUS
<1>3. \A g : Body(g)[0] = Fresh /\ \A k \in 1 .. n : Body(g)[k] = Next(g[k - 1], k)
  OBVIOUS
<1>4. \E g : g = Body(g)
  <2> DEFINE P == {d \in Nat : \E g : g[0] = Fresh /\ \A k \in 1 .. n : k <= d => g[k] = Next(g[k - 1], k)}
  <2> HIDE DEF Fresh, Next
  <2>1. 0 \in P
    <3> DEFINE g == [k \in 0 .. n |-> Fresh]
    <3>1. g[0] = Fresh
      BY <1>2
    <3> HIDE DEF g
    <3>2. \A k \in 1 .. n : k <= 0 => g[k] = Next(g[k - 1], k)
      OBVIOUS
    <3> QED
      BY <3>1, <3>2
  <2>2. ASSUME NEW d \in Nat, d \in P PROVE d + 1 \in P
    <3>1. PICK g : g[0] = Fresh /\ \A k \in 1 .. n : k <= d => g[k] = Next(g[k - 1], k)
      BY <2>2
    <3> HIDE DEF Body
    <3>2. ASSUME NEW k \in 1 .. n, k <= d + 1 PROVE Body(g)[k] = Next(Body(g)[k - 1], k)
      <4>1. Body(g)[k - 1] = g[k - 1]
        <5>1. CASE k = 1
          BY <1>3, <3>1, <5>1
        <5>2. CASE k > 1
          <6>1. k - 1 \in 1 .. n /\ k - 1 <= d
            BY <1>2, <3>2, <5>2
          <6> QED
            BY <1>3, <3>1, <6>1
        <5> QED
          BY <5>1, <5>2
      <4> QED
        BY <1>3, <4>1
    <3> QED
      BY <1>3, <3>2
  <2>3. n \in P
    <3> HIDE DEF P
    <3> QED
      BY <1>2, <2>1, <2>2, SetInduction
  <2>4. PICK g : g[0] = Fresh /\ \A k \in 1 .. n : k <= n => g[k] = Next(g[k - 1], k)
    BY <2>3
  <2>5. \A k \in 0 .. n : Body(g)[k] = g[k]
    <3> HIDE DEF Body
    <3> SUFFICES ASSUME NEW k \in 0 .. n PROVE Body(g)[k] = g[k]
      OBVIOUS
    <3>1. CASE k = 0
      BY <1>3, <2>4, <3>1
    <3>2. CASE k # 0
      <4>1. k \in 1 .. n /\ k <= n
        BY <1>2, <3>2
      <4> QED
        BY <1>3, <2>4, <4>1
    <3> QED
      BY <3>1, <3>2
  <2>6. Body(Body(g)) = Body(g)
    <3> DEFINE h == Body(g)
    <3>1. h[0] = Fresh /\ \A k \in 1 .. n : h[k] = Next(h[k - 1], k)
      <4> HIDE DEF Body
      <4>1. h[0] = Fresh
        BY <1>3
      <4>2. ASSUME NEW k \in 1 .. n PROVE h[k] = Next(h[k - 1], k)
        <5>1. k - 1 \in 0 .. n
          BY <1>2
        <5>2. h[k] = Next(g[k - 1], k)
          BY <1>3
        <5> QED
          BY <2>5, <5>1, <5>2
      <4> QED
        BY <4>1, <4>2
    <3>2. \A k \in 0 .. n : Body(h)[k] = h[k]
      <4> HIDE DEF Body, h
      <4> SUFFICES ASSUME NEW k \in 0 .. n PROVE Body(h)[k] = h[k]
        OBVIOUS
      <4>1. CASE k = 0
        BY <1>3, <3>1, <4>1
      <4>2. CASE k # 0
        <5>1. k \in 1 .. n
          BY <1>2, <4>2
        <5> QED
          BY <1>3, <3>1, <5>1
      <4> QED
        BY <4>1, <4>2
    <3>3. \A v : Body(v) = [k \in 0 .. n |-> Body(v)[k]]
      OBVIOUS
    <3> HIDE DEF Body
    <3>4. Body(h) = [k \in 0 .. n |-> Body(h)[k]] /\ h = [k \in 0 .. n |-> h[k]]
      BY <3>3
    <3> HIDE DEF h
    <3>5. Body(h) = h
      BY <3>2, <3>4
    <3> QED
      BY <3>5 DEF h
  <2> QED
    BY <2>6
<1>5. f = Body(f)
  <2> HIDE DEF Body
  <2> QED
    BY <1>4
<1> HIDE DEF f, Body
<1>6. f[0] = Fresh /\ \A k \in 1 .. n : f[k] = Next(f[k - 1], k)
  BY <1>3, <1>5
<1> DEFINE Right(k) ==
             /\ f[k].recs \in Seq(Record) /\ Len(f[k].recs) = k
             /\ \A i \in 1 .. k : f[k].recs[i] = recs[i]
             /\ GoodIndex(f[k].recs, f[k].index) /\ ByTime(f[k].recs, f[k].index)
           Q == {d \in Nat : d <= n => Right(d)}
<1>7. 0 \in Q
  <2>1. f[0].recs = <<>> /\ f[0].index = NoIndex
    BY <1>6
  <2>2. NoIndex \in [Session -> Seq(Nat)] /\ \A s \in Session : NoIndex[s] = <<>>
    BY DEF NoIndex
  <2>3. GoodIndex(<<>>, NoIndex)
    BY <2>2 DEF GoodIndex, Exact, ExactOf
  <2>4. ByTime(<<>>, NoIndex)
    BY <2>2 DEF ByTime
  <2>5. <<>> \in Seq(Record) /\ Len(<<>>) = 0
    OBVIOUS
  <2>6. Right(0)
    BY <2>1, <2>3, <2>4, <2>5
  <2> QED
    BY <2>6
<1>8. ASSUME NEW d \in Nat, d \in Q PROVE d + 1 \in Q
  <2> SUFFICES ASSUME d + 1 <= n PROVE Right(d + 1)
    <3> HIDE DEF Right
    <3> QED
      BY <1>2
  <2>1. Right(d)
    <3> HIDE DEF Right
    <3> QED
      BY <1>2, <1>8
  <2>2. d + 1 \in 1 .. n /\ (d + 1) - 1 = d
    BY <1>2
  <2>3. f[d + 1] = AppendLocked(f[d].recs, f[d].index, recs[d + 1])
    BY <1>6, <2>2
  <2> DEFINE old == f[d].recs
             ix == f[d].index
             r == recs[d + 1]
             new == AppendLocked(old, ix, r)
  <2>4. r \in Record
    BY <2>2
  <2>5. old \in Seq(Record) /\ GoodIndex(old, ix) /\ ByTime(old, ix) /\ Len(old) = d /\ \A i \in 1 .. d : old[i] = recs[i]
    BY <2>1
  <2> HIDE DEF old, ix, Right
  <2>6. new.recs = Append(old, r) /\ GoodIndex(new.recs, new.index) /\ ByTime(new.recs, new.index)
    <3> HIDE DEF r, new
    <3> QED
      BY <2>4, <2>5, AppendLockedKeeps DEF new
  <2>7. Append(old, r) \in Seq(Record) /\ Len(Append(old, r)) = d + 1 /\ \A i \in 1 .. d + 1 : Append(old, r)[i] = recs[i]
    BY <2>4, <2>5
  <2>8. f[d + 1] = new
    BY <2>3 DEF old, ix
  <2> HIDE DEF new, r
  <2> QED
    BY <2>6, <2>7, <2>8 DEF Right
<1>9. Right(n)
  <2>1. n \in Q
    <3> HIDE DEF Q
    <3> QED
      BY <1>2, <1>7, <1>8, SetInduction
  <2> HIDE DEF Right
  <2> QED
    BY <1>2, <2>1
<1>10. f[n].recs = recs
  BY <1>9, SeqEqual
<1> QED
  BY <1>1, <1>9, <1>10

-----------------------------------------------------------------------------
(* The inductive invariant *)

\* What is known of the message of a record; the file of the previous layout
\* has one record, of the session s0 and of no message.
Known(msgs, s0, r) ==
  IF r.msg = 0 THEN r.sess = s0 /\ r.role = "user"
  ELSE /\ msgs[r.msg].sess = r.sess
       /\ msgs[r.msg].stage \notin {"new", "received"}
       /\ r.role = "assistant" => msgs[r.msg].stage \in {"done", "lost"}
AllKnown(msgs, s0, recs) == \A i \in 1 .. Len(recs) : Known(msgs, s0, recs[i])

\* A slice that may be saved.
Savable(msgs, s0, cut, recs) ==
  /\ recs \in Seq(Record) /\ AllKnown(msgs, s0, recs)
  /\ ~cut => NoTwinsIn(recs)

GoodSlice(msgs, s0, cut, ord, recs, index) ==
  /\ Savable(msgs, s0, cut, recs) /\ Asked(recs)
  /\ GoodIndex(recs, index)
  /\ ord = "time" => ByTime(recs, index)
  /\ ord = "slice" => AsSlice(index)

GoodFile(msgs, s0, cut, f, c) ==
  /\ Savable(msgs, s0, cut, c.recs)
  /\ c.st = "full" <=> c.recs # <<>>
  /\ IF f = Legacy THEN c.st # "torn" ELSE \A i \in 1 .. Len(c.recs) : FileOf[c.recs[i].sess] = f

GoodFiles(msgs, s0, cut, d) == Layout(d) /\ \A f \in File : GoodFile(msgs, s0, cut, f, d[f])

\* The sessions of the previous layout are in no other file, until the move.
Apart(cut, d) == ~cut /\ d[Legacy] # Missing => \A f \in File : f # Legacy => d[f] = Missing

LegacyInv ==
  /\ historyUp => files[Legacy] = Missing
  /\ Apart(cutShort, files)
  /\ ~historyUp => records = <<>> /\ bySession = NoIndex /\ ordered = "time"

MessageInv ==
  /\ message \in [Message -> [stage : {"new", "received", "running", "done", "lost"},
                              sess : Session \cup {0}, at : 0 .. MaxTime]]
  /\ \A m \in Message : message[m].stage # "new" => message[m].sess \in Session /\ message[m].at \in 1 .. MaxTime

CountsInv ==
  /\ clock \in 1 .. MaxTime
  /\ historyUp \in BOOLEAN /\ faults \in 0 .. MaxFaults /\ requests \in 0 .. MaxIncidents
  /\ ordered \in {"time", "slice", "none"} /\ synced \in BOOLEAN /\ cutShort \in BOOLEAN

DataInv(s0) ==
  /\ GoodSlice(message, s0, cutShort, ordered, records, bySession)
  /\ GoodFiles(message, s0, cutShort, files)
  /\ LegacyInv /\ SavedIsComplete

Sound(s0) == CountsInv /\ MessageInv /\ DataInv(s0)

\* A message only moves on.
Onward(msgs, next) ==
  \A m \in Message : msgs[m].stage \notin {"new", "received"} =>
    /\ next[m].sess = msgs[m].sess /\ next[m].stage \notin {"new", "received"}
    /\ msgs[m].stage \in {"done", "lost"} => next[m].stage \in {"done", "lost"}

\* What later messages leave true of a record.
LEMMA StaysKnown ==
  ASSUME NEW msgs, NEW next, Onward(msgs, next), NEW s0, NEW r \in Record, Known(msgs, s0, r)
  PROVE  Known(next, s0, r)
<1>1. r.msg \in Message \cup {0}
  BY RecordHas
<1> QED
  BY <1>1 DEF Known, Onward

\* What later messages leave true of what is to be saved.
LEMMA StaysSavable ==
  ASSUME NEW msgs, NEW next, Onward(msgs, next), NEW s0, NEW cut, NEW cut2, cut => cut2,
         NEW recs, Savable(msgs, s0, cut, recs)
  PROVE  Savable(next, s0, cut2, recs)
<1>1. \A i \in 1 .. Len(recs) : recs[i] \in Record /\ Known(msgs, s0, recs[i])
  BY ElementOfSeq DEF Savable, AllKnown
<1>2. AllKnown(next, s0, recs)
  BY <1>1, StaysKnown DEF AllKnown
<1> QED
  BY <1>2 DEF Savable

\* What later messages leave true of a slice and its index.
LEMMA StaysGood ==
  ASSUME NEW msgs, NEW next, Onward(msgs, next), NEW s0, NEW cut, NEW cut2, cut => cut2,
         NEW ord, NEW recs, NEW index, GoodSlice(msgs, s0, cut, ord, recs, index)
  PROVE  GoodSlice(next, s0, cut2, ord, recs, index)
<1>1. Savable(next, s0, cut2, recs)
  BY StaysSavable DEF GoodSlice
<1> QED
  BY <1>1 DEF GoodSlice

\* A save removes the file of the previous layout.
LEMMA SavedLegacy ==
  ASSUME HistoryAssumption, NEW d, NEW recs \in Seq(Record)
  PROVE  SavedLayout(d, recs)[Legacy] = Missing
<1>1. \A i \in 1 .. Len(recs) : recs[i].sess \in Session
  BY RecordHas
<1>2. Legacy \in File /\ Legacy \notin KeptFiles(recs)
  BY <1>1 DEF File, KeptFiles, HistoryAssumption
<1> QED
  BY <1>2, SavedLayoutIs

\* Whatever a save leaves of a good layout and a good slice is a good layout.
LEMMA GoodLayouts ==
  ASSUME HistoryAssumption, NEW msgs, NEW next, Onward(msgs, next), NEW s0, NEW cut, NEW cut2, cut => cut2,
         NEW d, GoodFiles(msgs, s0, cut, d), NEW recs, Savable(next, s0, cut2, recs),
         NEW e \in PartialLayouts(d, recs) \cup {d, SavedLayout(d, recs)}
  PROVE  /\ GoodFiles(next, s0, cut2, e)
         /\ e[Legacy] \in {d[Legacy], Missing}
<1>1. recs \in Seq(Record)
  BY DEF Savable
<1>2. d = [f \in File |-> d[f]]
  BY DEF GoodFiles, Layout
<1>3. e = [f \in File |-> e[f]] /\ \A f \in File : Shape(d, recs, f, e[f])
  BY <1>1, <1>2, LayoutShapes
<1>4. ASSUME NEW f \in File, PutThere(recs, f, e[f])
      PROVE  GoodFile(next, s0, cut2, f, e[f]) /\ e[f].st = "full" /\ f # Legacy
  <2>1. PICK s \in Session : FileOf[s] = f /\ Has(recs, s) /\ e[f] = Full(Content(recs, s))
    BY <1>4 DEF PutThere
  <2> DEFINE c == Content(recs, s)
  <2>2. /\ c \in Seq(Record)
        /\ \A k \in 1 .. Len(c) : c[k].sess = s /\ \E i \in 1 .. Len(recs) : c[k] = recs[i]
        /\ \A i \in 1 .. Len(recs) : recs[i].sess = s => c # <<>>
        /\ NoTwinsIn(recs) => NoTwinsIn(c)
    <3>1. IsContent(c, recs, s)
      BY <1>1, ContentIs
    <3> HIDE DEF c
    <3> QED
      BY <3>1 DEF IsContent
  <2>3. e[f].recs = c /\ e[f].st = "full"
    BY <2>1 DEF Full
  <2> HIDE DEF c
  <2>4. c # <<>>
    BY <2>1, <2>2 DEF Has
  <2>5. AllKnown(next, s0, c)
    BY <2>2 DEF Savable, AllKnown
  <2>6. Savable(next, s0, cut2, c)
    BY <2>2, <2>5 DEF Savable
  <2>7. f # Legacy
    BY <2>1 DEF HistoryAssumption
  <2>8. \A i \in 1 .. Len(c) : FileOf[c[i].sess] = f
    BY <2>1, <2>2
  <2> QED
    BY <2>3, <2>4, <2>6, <2>7, <2>8 DEF GoodFile
<1>5. ASSUME NEW f \in File
      PROVE  GoodFile(next, s0, cut2, f, e[f]) /\ e[f] \in [st : {"missing", "torn", "full"}, recs : Seq(Record)]
  <2>1. \A c \in {Missing, Torn} : c.recs = <<>> /\ c.st # "full" /\ c \in [st : {"missing", "torn", "full"}, recs : Seq(Record)]
    <3>1. <<>> \in Seq(Record)
      OBVIOUS
    <3>2. Missing \in [st : {"missing", "torn", "full"}, recs : Seq(Record)] /\ Missing.recs = <<>> /\ Missing.st # "full"
      BY <3>1 DEF Missing
    <3>3. Torn \in [st : {"missing", "torn", "full"}, recs : Seq(Record)] /\ Torn.recs = <<>> /\ Torn.st # "full"
      BY <3>1 DEF Torn
    <3> QED
      BY <3>2, <3>3
  <2>2. Savable(next, s0, cut2, <<>>)
    BY DEF Savable, AllKnown, NoTwinsIn
  <2>3. CASE e[f] = Missing
    <3>1. e[f].st # "torn"
      BY <2>3 DEF Missing
    <3> QED
      BY <2>1, <2>2, <2>3, <3>1 DEF GoodFile
  <2>4. CASE e[f] = Torn /\ f # Legacy
    BY <2>1, <2>2, <2>4 DEF GoodFile
  <2>5. CASE PutThere(recs, f, e[f])
    <3>1. PICK s \in Session : e[f] = Full(Content(recs, s))
      BY <2>5 DEF PutThere
    <3>2. Content(recs, s) \in Seq(Record)
      BY <1>1, ContentIs DEF IsContent
    <3>3. e[f] \in [st : {"missing", "torn", "full"}, recs : Seq(Record)]
      BY <3>1, <3>2 DEF Full
    <3> QED
      BY <1>4, <2>5, <3>3
  <2>6. CASE e[f] = d[f]
    <3>1. GoodFile(msgs, s0, cut, f, d[f]) /\ d[f] \in [st : {"missing", "torn", "full"}, recs : Seq(Record)]
      BY DEF GoodFiles, Layout
    <3>2. Savable(next, s0, cut2, d[f].recs)
      BY <3>1, StaysSavable DEF GoodFile
    <3> QED
      BY <2>6, <3>1, <3>2 DEF GoodFile
  <2> QED
    BY <1>3, <2>3, <2>4, <2>5, <2>6 DEF Shape
<1>6. Layout(e)
  <2>1. \A f \in File : e[f] \in [st : {"missing", "torn", "full"}, recs : Seq(Record)]
    BY <1>5
  <2> QED
    BY <1>3, <2>1, Zenon DEF Layout
<1>7. Legacy \in File
  BY DEF File
<1>8. e[Legacy] \in {d[Legacy], Missing}
  BY <1>3, <1>4, <1>7 DEF Shape
<1> QED
  BY <1>5, <1>6, <1>8 DEF GoodFiles

\* recs holds the records of the files of d, and no others.
SameRecords(d, recs) ==
  /\ \A f \in File : \A i \in 1 .. Len(d[f].recs) : \E k \in 1 .. Len(recs) : recs[k] = d[f].recs[i]
  /\ \A k \in 1 .. Len(recs) : \E f \in File : \E i \in 1 .. Len(d[f].recs) : recs[k] = d[f].recs[i]

\* What is read from good files may be saved.
LEMMA ReadSavable ==
  ASSUME HistoryAssumption, NEW msgs, NEW s0, NEW cut, NEW d, GoodFiles(msgs, s0, cut, d), Apart(cut, d),
         NEW place, NEW recs \in Seq(Record), ReadFrom(d, place, recs)
  PROVE  Savable(msgs, s0, cut, recs) /\ SameRecords(d, recs)
<1>1. Layout(d) /\ \A f \in File : GoodFile(msgs, s0, cut, f, d[f])
  BY DEF GoodFiles
<1>2. /\ \A p : p \in Places(d) <=> \E f \in File : \E i \in 1 .. Len(d[f].recs) : p = <<f, i>>
      /\ \A f \in File : d[f].recs \in Seq(Record) /\ Len(d[f].recs) \in Nat
  BY <1>1, PlacesFinite
<1>3. \A k \in 1 .. Len(recs) :
        /\ place[k] = <<place[k][1], place[k][2]>> /\ place[k][1] \in File
        /\ place[k][2] \in 1 .. Len(d[place[k][1]].recs)
        /\ recs[k] = d[place[k][1]].recs[place[k][2]]
  <2> SUFFICES ASSUME NEW k \in 1 .. Len(recs)
               PROVE  /\ place[k] = <<place[k][1], place[k][2]>> /\ place[k][1] \in File
                      /\ place[k][2] \in 1 .. Len(d[place[k][1]].recs)
                      /\ recs[k] = d[place[k][1]].recs[place[k][2]]
    OBVIOUS
  <2>1. place[k] \in Places(d) /\ recs[k] = d[place[k][1]].recs[place[k][2]]
    BY DEF ReadFrom
  <2>2. PICK f \in File : \E i \in 1 .. Len(d[f].recs) : place[k] = <<f, i>>
    BY <1>2, <2>1
  <2>3. PICK i \in 1 .. Len(d[f].recs) : place[k] = <<f, i>>
    BY <2>2
  <2>4. place[k][1] = f /\ place[k][2] = i
    BY <2>3
  <2> QED
    BY <2>1, <2>3, <2>4
<1>4. \A k \in 1 .. Len(recs) : \E f \in File : \E i \in 1 .. Len(d[f].recs) : recs[k] = d[f].recs[i]
  BY <1>3
<1>5. ASSUME NEW f \in File, NEW i \in 1 .. Len(d[f].recs)
      PROVE  \E k \in 1 .. Len(recs) : recs[k] = d[f].recs[i]
  <2>1. <<f, i>> \in Places(d)
    BY <1>2
  <2>2. PICK k \in 1 .. Len(recs) : place[k] = <<f, i>>
    BY <2>1 DEF ReadFrom
  <2>3. place[k][1] = f /\ place[k][2] = i
    BY <2>2
  <2> QED
    BY <1>3, <2>3
<1>6. \A f \in File : \A i \in 1 .. Len(d[f].recs) : Known(msgs, s0, d[f].recs[i]) /\ d[f].recs[i] \in Record
  BY <1>1, <1>2, ElementOfSeq DEF GoodFile, Savable, AllKnown
<1>7. AllKnown(msgs, s0, recs)
  BY <1>4, <1>6 DEF AllKnown
<1>8. ASSUME ~cut PROVE NoTwinsIn(recs)
  <2> SUFFICES ASSUME NEW i \in 1 .. Len(recs), NEW j \in 1 .. Len(recs),
                      recs[i].msg = recs[j].msg, recs[i].role = recs[j].role
               PROVE  i = j
    BY DEF NoTwinsIn
  <2> DEFINE f == place[i][1]
             g == place[j][1]
             a == place[i][2]
             b == place[j][2]
  <2>1. /\ f \in File /\ g \in File /\ a \in 1 .. Len(d[f].recs) /\ b \in 1 .. Len(d[g].recs)
        /\ place[i] = <<f, a>> /\ place[j] = <<g, b>> /\ recs[i] = d[f].recs[a] /\ recs[j] = d[g].recs[b]
    BY <1>3
  <2> HIDE DEF f, g, a, b
  <2>2. recs[i].sess = recs[j].sess
    BY <1>7 DEF AllKnown, Known
  <2>3. f = g
    <3>1. d[f] # Missing /\ d[g] # Missing
      BY <2>1 DEF Missing
    <3>2. (f = Legacy) <=> (g = Legacy)
      BY <1>8, <2>1, <3>1 DEF Apart
    <3>3. CASE f # Legacy
      <4>1. FileOf[d[f].recs[a].sess] = f
        BY <1>1, <2>1, <3>3 DEF GoodFile
      <4>2. FileOf[d[g].recs[b].sess] = g
        BY <1>1, <2>1, <3>2, <3>3 DEF GoodFile
      <4> QED
        BY <2>1, <2>2, <4>1, <4>2
    <3> QED
      BY <3>2, <3>3
  <2>4. a = b
    <3>1. NoTwinsIn(d[f].recs)
      BY <1>1, <1>8, <2>1 DEF GoodFile, Savable
    <3> QED
      BY <2>1, <2>3, <3>1 DEF NoTwinsIn
  <2>5. place[i] = place[j]
    BY <2>1, <2>3, <2>4
  <2>6. i \in 1 .. Len(place) /\ j \in 1 .. Len(place)
    BY DEF ReadFrom
  <2> QED
    BY <2>5, <2>6 DEF ReadFrom
<1> QED
  BY <1>4, <1>5, <1>7, <1>8 DEF Savable, SameRecords

-----------------------------------------------------------------------------
(* Saving *)

\* A change that is saved keeps the data.
LEMMA CommitKeeps ==
  ASSUME HistoryAssumption, NEW s0, DataInv(s0), historyUp, NEW recs, NEW index, Commit(recs, index),
         Onward(message, message'), GoodSlice(message', s0, cutShort, ordered', recs, index)
  PROVE  DataInv(s0)'
<1>1. /\ records' = recs /\ bySession' = index /\ files' = SavedLayout(files, recs)
      /\ synced' = TRUE /\ historyUp' = historyUp /\ cutShort' = cutShort
  BY DEF Commit
<1>2. Savable(message', s0, cutShort, recs) /\ recs \in Seq(Record) /\ GoodIndex(recs, index)
  BY DEF GoodSlice, Savable
<1>3. GoodFiles(message', s0, cutShort, files') /\ files'[Legacy] = Missing
  <2>1. GoodFiles(message, s0, cutShort, files)
    BY DEF DataInv
  <2> DEFINE e == SavedLayout(files, recs)
  <2>2. e \in PartialLayouts(files, recs) \cup {files, SavedLayout(files, recs)}
    OBVIOUS
  <2> HIDE DEF e
  <2>3. GoodFiles(message', s0, cutShort, e)
    BY <1>2, <2>1, <2>2, GoodLayouts, Zenon
  <2>4. SavedLayout(files, recs)[Legacy] = Missing
    BY <1>2, SavedLegacy
  <2> QED
    BY <1>1, <2>3, <2>4 DEF e
<1>4. LegacyInv'
  BY <1>1, <1>3 DEF LegacyInv, Apart
<1>5. ASSUME NEW s \in Session, OwnFile(s)
      PROVE  IF bySession'[s] = <<>> THEN files'[FileOf[s]] = Missing
             ELSE /\ files'[FileOf[s]].st = "full"
                  /\ ToSet(files'[FileOf[s]].recs) = ToSet(Content(records', s))
  <2>1. files'[FileOf[s]] = IF Has(recs, s) THEN Full(Content(recs, s)) ELSE Missing
    BY <1>1, <1>2, <1>5, SavedOwn
  <2>2. bySession'[s] = <<>> <=> ~Has(recs, s)
    BY <1>1, <1>2, NoneIndexed
  <2> QED
    BY <1>1, <2>1, <2>2 DEF Full
<1>6. SavedIsComplete'
  BY <1>3, <1>5 DEF SavedIsComplete, OwnFile
<1> QED
  BY <1>1, <1>3, <1>4, <1>6 DEF DataInv

\* A change whose save fails keeps the data.
LEMMA RollBackKeeps ==
  ASSUME HistoryAssumption, NEW s0, DataInv(s0), historyUp, NEW recs, RollBack(recs),
         Onward(message, message'), Savable(message', s0, cutShort, recs)
  PROVE  DataInv(s0)'
<1>1. /\ files' \in PartialLayouts(files, recs) /\ synced' = FALSE
      /\ UNCHANGED <<records, bySession, historyUp, ordered, cutShort>>
  BY DEF RollBack
<1>2. GoodFiles(message', s0, cutShort, files') /\ files'[Legacy] \in {files[Legacy], Missing}
  <2>1. GoodFiles(message, s0, cutShort, files)
    BY DEF DataInv
  <2> QED
    BY <1>1, <2>1, GoodLayouts
<1>3. files'[Legacy] = Missing
  BY <1>2 DEF DataInv, LegacyInv
<1>4. LegacyInv'
  BY <1>1, <1>3 DEF LegacyInv, Apart
<1>5. GoodSlice(message', s0, cutShort, ordered, records, bySession)
  BY StaysGood DEF DataInv
<1>6. SavedIsComplete'
  BY <1>1 DEF SavedIsComplete
<1> QED
  BY <1>1, <1>2, <1>4, <1>5, <1>6 DEF DataInv

\* What holds of a process without history.
LEMMA EmptyGood ==
  ASSUME NEW msgs, NEW s0, NEW cut
  PROVE  GoodSlice(msgs, s0, cut, "time", <<>>, NoIndex)
<1>1. NoIndex \in [Session -> Seq(Nat)] /\ \A s \in Session : NoIndex[s] = <<>>
  BY DEF NoIndex
<1>2. GoodIndex(<<>>, NoIndex)
  BY <1>1 DEF GoodIndex, Exact, ExactOf
<1>3. ByTime(<<>>, NoIndex)
  BY <1>1 DEF ByTime
<1>4. Savable(msgs, s0, cut, <<>>) /\ Asked(<<>>)
  BY DEF Savable, AllKnown, NoTwinsIn, Asked
<1> QED
  BY <1>2, <1>3, <1>4 DEF GoodSlice

\* The handlers die with the process.
Died(msgs) ==
  [m \in Message |-> IF msgs[m].stage \in {"received", "running"} THEN [msgs[m] EXCEPT !.stage = "lost"] ELSE msgs[m]]

\* What a crash during a save leaves.
LEMMA DiedIs ==
  ASSUME MessageInv
  PROVE  /\ Onward(message, Died(message))
         /\ Died(message) \in [Message -> [stage : {"new", "received", "running", "done", "lost"},
                                           sess : Session \cup {0}, at : 0 .. MaxTime]]
         /\ \A m \in Message : Died(message)[m].stage # "new" =>
              Died(message)[m].sess \in Session /\ Died(message)[m].at \in 1 .. MaxTime
         /\ \A m \in Message : message[m].stage \in {"received", "running"} =>
              Died(message)[m].stage = "lost" /\ Died(message)[m].sess = message[m].sess
<1> DEFINE M == [stage : {"new", "received", "running", "done", "lost"}, sess : Session \cup {0}, at : 0 .. MaxTime]
<1>1. ASSUME NEW m \in Message
      PROVE  /\ Died(message)[m] \in M
             /\ Died(message)[m].sess = message[m].sess /\ Died(message)[m].at = message[m].at
             /\ IF message[m].stage \in {"received", "running"} THEN Died(message)[m].stage = "lost"
                ELSE Died(message)[m].stage = message[m].stage
  <2>1. message[m] \in M
    BY DEF MessageInv
  <2>2. Died(message)[m] = IF message[m].stage \in {"received", "running"} THEN [message[m] EXCEPT !.stage = "lost"] ELSE message[m]
    BY DEF Died
  <2>3. /\ [message[m] EXCEPT !.stage = "lost"] \in M /\ [message[m] EXCEPT !.stage = "lost"].stage = "lost"
        /\ [message[m] EXCEPT !.stage = "lost"].sess = message[m].sess
        /\ [message[m] EXCEPT !.stage = "lost"].at = message[m].at
    BY <2>1
  <2> HIDE DEF M
  <2> QED
    BY <2>1, <2>2, <2>3
<1>2. Died(message) \in [Message -> M]
  <2>1. Died(message) = [m \in Message |-> Died(message)[m]]
    BY DEF Died
  <2> HIDE DEF M
  <2> QED
    BY <1>1, <2>1, Zenon
<1>3. Onward(message, Died(message))
  BY <1>1 DEF Onward
<1>4. \A m \in Message : Died(message)[m].stage # "new" =>
        Died(message)[m].sess \in Session /\ Died(message)[m].at \in 1 .. MaxTime
  BY <1>1 DEF MessageInv
<1> QED
  BY <1>1, <1>2, <1>3, <1>4

\* A crash during a save keeps the data.
LEMMA DieKeeps ==
  ASSUME HistoryAssumption, NEW s0, MessageInv, DataInv(s0), historyUp, NEW recs, DieSaving(recs),
         Savable(Died(message), s0, cutShort, recs)
  PROVE  MessageInv' /\ DataInv(s0)'
<1>1. /\ files' \in PartialLayouts(files, recs) \cup {files} /\ synced' = FALSE /\ historyUp' = FALSE
      /\ records' = <<>> /\ bySession' = NoIndex /\ ordered' = "time" /\ cutShort' = cutShort
      /\ message' = Died(message)
  BY DEF DieSaving, Died
<1>2. GoodFiles(message', s0, cutShort, files') /\ files'[Legacy] \in {files[Legacy], Missing}
  <2>1. GoodFiles(message, s0, cutShort, files)
    BY DEF DataInv
  <2>2. Onward(message, message')
    BY <1>1, DiedIs
  <2> QED
    BY <1>1, <2>1, <2>2, GoodLayouts
<1>3. files'[Legacy] = Missing
  BY <1>2 DEF DataInv, LegacyInv
<1>4. LegacyInv'
  BY <1>1, <1>3 DEF LegacyInv, Apart
<1>5. GoodSlice(message', s0, cutShort, "time", records', bySession')
  BY <1>1, EmptyGood
<1>6. SavedIsComplete'
  BY <1>1 DEF SavedIsComplete
<1>7. MessageInv'
  BY <1>1, DiedIs DEF MessageInv
<1> QED
  BY <1>1, <1>2, <1>4, <1>5, <1>6, <1>7 DEF DataInv

-----------------------------------------------------------------------------
(* The slices that the operations save *)

\* The next record of a message may be appended: no other like it is there,
\* nor, of a question, an answer.
MayAppend(msgs, r) ==
  /\ r \in Record /\ r.msg \in Message /\ r.sess = msgs[r.msg].sess
  /\ \/ r.role = "user" /\ msgs[r.msg].stage = "received"
     \/ r.role = "assistant" /\ msgs[r.msg].stage = "running"

\* A record appended to a good slice leaves it good.
LEMMA AppendGood ==
  ASSUME HistoryAssumption, NEW msgs, NEW next, NEW s0, NEW cut, NEW ord, NEW recs, NEW index,
         GoodSlice(msgs, s0, cut, ord, recs, index), Onward(msgs, next),
         NEW r, MayAppend(msgs, r), Known(next, s0, r)
  PROVE  LET new == AppendLocked(recs, index, r) IN
         /\ Savable(next, s0, cut, new.recs)
         /\ GoodSlice(next, s0, cut, IF ord = "slice" THEN "none" ELSE ord, new.recs, new.index)
<1> DEFINE new == AppendLocked(recs, index, r)
           more == Append(recs, r)
           n == Len(recs) + 1
<1>1. recs \in Seq(Record) /\ AllKnown(msgs, s0, recs) /\ (~cut => NoTwinsIn(recs)) /\ Asked(recs) /\ GoodIndex(recs, index)
  BY DEF GoodSlice, Savable
<1>2. r \in Record /\ r.msg # 0
  BY DEF MayAppend, HistoryAssumption
<1>3. new.recs = more /\ GoodIndex(new.recs, new.index) /\ (ByTime(recs, index) => ByTime(new.recs, new.index))
  BY <1>1, <1>2, AppendLockedKeeps
<1> HIDE DEF new
<1>4. more \in Seq(Record) /\ Len(more) = n /\ more[n] = r /\ n \in Nat /\ \A i \in 1 .. Len(recs) : more[i] = recs[i]
  BY <1>1, <1>2
<1>5. \A i \in 1 .. n : i \in 1 .. Len(recs) \/ i = n
  BY <1>1
<1> HIDE DEF more
<1>6. \A i \in 1 .. Len(recs) : recs[i].msg = r.msg => recs[i].role # r.role /\ ~(r.role = "user" /\ recs[i].role = "assistant")
  <2> SUFFICES ASSUME NEW i \in 1 .. Len(recs), recs[i].msg = r.msg
               PROVE  recs[i].role # r.role /\ ~(r.role = "user" /\ recs[i].role = "assistant")
    OBVIOUS
  <2>1. Known(msgs, s0, recs[i])
    BY <1>1 DEF AllKnown
  <2>2. msgs[r.msg].stage \notin {"new", "received"} /\ (recs[i].role = "assistant" => msgs[r.msg].stage \in {"done", "lost"})
    BY <1>2, <2>1 DEF Known
  <2> QED
    BY <2>2 DEF MayAppend
<1>7. AllKnown(next, s0, more)
  <2>1. \A i \in 1 .. Len(recs) : Known(next, s0, recs[i])
    BY <1>1, StaysKnown, ElementOfSeq DEF AllKnown
  <2> QED
    BY <1>4, <1>5, <2>1 DEF AllKnown
<1>8. ~cut => NoTwinsIn(more)
  BY <1>1, <1>4, <1>5, <1>6 DEF NoTwinsIn
<1>9. Asked(more)
  <2> SUFFICES ASSUME NEW i \in 1 .. n, NEW j \in 1 .. n, Answers(more[j], more[i]) PROVE i < j
    BY <1>4 DEF Asked
  <2>1. CASE i \in 1 .. Len(recs) /\ j \in 1 .. Len(recs)
    BY <1>1, <1>4, <2>1 DEF Asked
  <2>2. CASE i \in 1 .. Len(recs) /\ j = n
    BY <1>1, <2>2
  <2>3. CASE i = n /\ j \in 1 .. Len(recs)
    BY <1>4, <1>6, <2>3 DEF Answers
  <2>4. CASE i = n /\ j = n
    BY <1>4, <2>4 DEF Answers
  <2> QED
    BY <1>5, <2>1, <2>2, <2>3, <2>4
<1>10. Savable(next, s0, cut, new.recs)
  BY <1>3, <1>4, <1>7, <1>8 DEF Savable
<1> QED
  BY <1>3, <1>9, <1>10 DEF GoodSlice, new

\* Removing sessions from a good slice leaves it good.
LEMMA RemovalGood ==
  ASSUME NEW msgs, NEW s0, NEW cut, NEW ord, NEW recs, NEW index,
         GoodSlice(msgs, s0, cut, ord, recs, index), NEW gone
  PROVE  LET rest == Without(recs, gone) IN GoodSlice(msgs, s0, cut, "slice", rest, BuildSessionIndexes(rest))
<1> DEFINE rest == Without(recs, gone)
<1>1. recs \in Seq(Record) /\ AllKnown(msgs, s0, recs) /\ (~cut => NoTwinsIn(recs)) /\ Asked(recs)
  BY DEF GoodSlice, Savable
<1>2. /\ rest \in Seq(Record)
      /\ \A k \in 1 .. Len(rest) : \E i \in 1 .. Len(recs) : rest[k] = recs[i]
      /\ Asked(rest) /\ (~cut => NoTwinsIn(rest))
  BY <1>1, WithoutKeeps
<1> HIDE DEF rest
<1>3. AllKnown(msgs, s0, rest)
  BY <1>1, <1>2 DEF AllKnown
<1>4. GoodIndex(rest, BuildSessionIndexes(rest)) /\ AsSlice(BuildSessionIndexes(rest))
  BY <1>2, BuiltIndexes
<1> QED
  BY <1>2, <1>3, <1>4 DEF GoodSlice, Savable, rest

\* Records that differ in their pins and touches only.
SameButMarks(recs, marked) ==
  /\ marked \in Seq(Record) /\ Len(marked) = Len(recs)
  /\ \A i \in 1 .. Len(recs) :
       /\ marked[i].msg = recs[i].msg /\ marked[i].role = recs[i].role
       /\ marked[i].sess = recs[i].sess /\ marked[i].at = recs[i].at

\* Changing the marks of a good slice leaves it good.
LEMMA MarkedGood ==
  ASSUME NEW msgs, NEW s0, NEW cut, NEW ord, NEW recs, NEW index,
         GoodSlice(msgs, s0, cut, ord, recs, index), NEW marked, SameButMarks(recs, marked)
  PROVE  GoodSlice(msgs, s0, cut, ord, marked, index)
<1>1. recs \in Seq(Record) /\ AllKnown(msgs, s0, recs) /\ (~cut => NoTwinsIn(recs)) /\ Asked(recs) /\ GoodIndex(recs, index)
  BY DEF GoodSlice, Savable
<1>2. marked \in Seq(Record) /\ Len(marked) = Len(recs)
  BY DEF SameButMarks
<1>3. AllKnown(msgs, s0, marked)
  BY <1>1 DEF SameButMarks, AllKnown, Known
<1>4. ~cut => NoTwinsIn(marked)
  BY <1>1 DEF SameButMarks, NoTwinsIn
<1>5. Asked(marked)
  BY <1>1 DEF SameButMarks, Asked, Answers
<1>6. GoodIndex(marked, index)
  <2>1. index \in [Session -> Seq(Nat)] /\ \A s \in Session : ExactOf(recs, index[s], s)
    BY <1>1 DEF GoodIndex, Exact
  <2>2. ASSUME NEW s \in Session PROVE ExactOf(marked, index[s], s)
    <3>1. ExactOf(recs, index[s], s)
      BY <2>1
    <3>2. Len(marked) = Len(recs) /\ \A i \in 1 .. Len(recs) : marked[i].sess = recs[i].sess
      BY DEF SameButMarks
    <3> QED
      BY <3>1, <3>2 DEF ExactOf
  <2> QED
    BY <2>1, <2>2 DEF GoodIndex, Exact
<1>7. ByTime(recs, index) => ByTime(marked, index)
  <2>1. \A s \in Session : \A k \in 1 .. Len(index[s]) : index[s][k] \in 1 .. Len(recs)
    BY <1>1 DEF GoodIndex, Exact, ExactOf
  <2> QED
    BY <2>1 DEF SameButMarks, ByTime
<1> QED
  BY <1>2, <1>3, <1>4, <1>5, <1>6, <1>7 DEF GoodSlice, Savable

-----------------------------------------------------------------------------
(* The steps *)

\* The invariant at the start.
LEMMA SoundInit ==
  ASSUME HistoryAssumption, HistoryInit
  PROVE  \E s0 \in Session \cup {0} : Sound(s0)
<1>1. MaxTime \in Nat /\ MaxTime >= 1 /\ OldSession \subseteq Session /\ MaxFaults \in Nat /\ MaxIncidents \in Nat
  BY DEF HistoryAssumption
<1>2. CountsInv
  <2>1. clock \in 1 .. MaxTime /\ faults \in 0 .. MaxFaults /\ requests \in 0 .. MaxIncidents
    BY <1>1 DEF HistoryInit
  <2>2. historyUp \in BOOLEAN /\ ordered \in {"time", "slice", "none"} /\ synced \in BOOLEAN /\ cutShort \in BOOLEAN
    BY DEF HistoryInit
  <2> QED
    BY <2>1, <2>2, Zenon DEF CountsInv
<1>3. MessageInv
  BY <1>1 DEF HistoryInit, MessageInv
<1>4. PICK old \in {Missing} \cup {Full(<<NewRecord(0, "user", s, 1)>>) : s \in OldSession} :
        files = [f \in File |-> IF f = Legacy THEN old ELSE Missing]
  BY DEF HistoryInit
<1>5. Legacy \in File
  BY DEF File
<1>6. \A f \in File : f # Legacy => files[f] = Missing
  BY <1>4
<1>7. files[Legacy] = old
  BY <1>4, <1>5
<1>8. Missing.recs = <<>> /\ Missing.st = "missing" /\ Missing \in [st : {"missing", "torn", "full"}, recs : Seq(Record)]
  <2>1. <<>> \in Seq(Record)
    OBVIOUS
  <2> QED
    BY <2>1 DEF Missing
<1>9. PICK s0 \in Session \cup {0} : old = Missing \/ (s0 \in Session /\ old = Full(<<NewRecord(0, "user", s0, 1)>>))
  BY <1>1, <1>4
<1>10. \A f \in File : f # Legacy => GoodFile(message, s0, cutShort, f, Missing)
  BY <1>8 DEF GoodFile, Savable, AllKnown, NoTwinsIn
<1>11. /\ old \in [st : {"missing", "torn", "full"}, recs : Seq(Record)]
       /\ GoodFile(message, s0, cutShort, Legacy, old)
  <2>1. CASE old = Missing
    BY <1>8, <2>1 DEF GoodFile, Savable, AllKnown, NoTwinsIn
  <2>2. CASE s0 \in Session /\ old = Full(<<NewRecord(0, "user", s0, 1)>>)
    <3> DEFINE r == NewRecord(0, "user", s0, 1)
               recs == <<r>>
    <3>1. r \in Record /\ r.msg = 0 /\ r.sess = s0 /\ r.role = "user"
      BY <1>1, <2>2 DEF NewRecord, Record, Role
    <3> HIDE DEF r
    <3>2. recs \in Seq(Record) /\ Len(recs) = 1 /\ recs[1] = r /\ recs # <<>>
      BY <3>1
    <3> HIDE DEF recs
    <3>3. \A i \in 1 .. Len(recs) : i = 1
      BY <3>2
    <3>4. AllKnown(message, s0, recs) /\ NoTwinsIn(recs)
      BY <3>1, <3>2, <3>3 DEF AllKnown, Known, NoTwinsIn
    <3>5. old.st = "full" /\ old.recs = recs /\ old \in [st : {"missing", "torn", "full"}, recs : Seq(Record)]
      BY <2>2, <3>2 DEF Full, recs, r
    <3> QED
      BY <3>2, <3>4, <3>5 DEF GoodFile, Savable
  <2> QED
    BY <1>9, <2>1, <2>2
<1>12. Layout(files)
  <2>1. files = [f \in File |-> files[f]]
    BY <1>4
  <2>2. \A f \in File : files[f] \in [st : {"missing", "torn", "full"}, recs : Seq(Record)]
    BY <1>6, <1>7, <1>8, <1>11
  <2> QED
    BY <2>1, <2>2, Zenon DEF Layout
<1>13. \A f \in File : GoodFile(message, s0, cutShort, f, files[f])
  BY <1>6, <1>7, <1>10, <1>11
<1>14. LegacyInv /\ SavedIsComplete
  BY <1>6 DEF HistoryInit, LegacyInv, Apart, SavedIsComplete
<1>15. GoodSlice(message, s0, cutShort, ordered, records, bySession)
  BY EmptyGood DEF HistoryInit
<1> QED
  BY <1>2, <1>3, <1>12, <1>13, <1>14, <1>15 DEF Sound, DataInv, GoodFiles

\* A step that counts its fault and its request keeps the counts.
LEMMA CountsKept ==
  ASSUME HistoryAssumption, CountsInv,
         \/ faults' = faults
         \/ MayFault /\ faults' = faults + 1,
         \/ UNCHANGED requests
         \/ Request,
         clock' = clock, historyUp' \in BOOLEAN, ordered' \in {"time", "slice", "none"},
         synced' \in BOOLEAN, cutShort' \in BOOLEAN
  PROVE  CountsInv'
<1>1. MaxFaults \in Nat /\ MaxIncidents \in Nat /\ faults \in Nat /\ requests \in Nat
  BY DEF HistoryAssumption, CountsInv
<1>2. faults' \in 0 .. MaxFaults
  BY <1>1 DEF CountsInv, MayFault
<1>3. requests' \in 0 .. MaxIncidents
  BY <1>1 DEF CountsInv, Request
<1> QED
  BY <1>2, <1>3 DEF CountsInv

\* A saved change keeps the counts.
LEMMA CommitCounts ==
  ASSUME HistoryAssumption, CountsInv, UNCHANGED requests \/ Request, NEW recs, NEW index, Commit(recs, index),
         ordered' \in {"time", "slice", "none"}
  PROVE  CountsInv'
BY CountsKept DEF Commit, CountsInv

\* A change that is not saved keeps the counts.
LEMMA RollBackCounts ==
  ASSUME HistoryAssumption, CountsInv, UNCHANGED requests \/ Request, NEW recs, RollBack(recs)
  PROVE  CountsInv'
BY CountsKept DEF RollBack, CountsInv

\* A crash keeps the counts.
LEMMA DieCounts ==
  ASSUME HistoryAssumption, CountsInv, UNCHANGED requests \/ Request, NEW recs, DieSaving(recs)
  PROVE  CountsInv'
BY CountsKept DEF DieSaving, CountsInv

\* Messages that stay as they are only move on.
LEMMA SameOnward == \A msgs : Onward(msgs, msgs)
BY DEF Onward

\* A slice is saved in place of the one in memory, or is not.
LEMMA SavingKeeps ==
  ASSUME HistoryAssumption, NEW s0, Sound(s0), historyUp, UNCHANGED requests \/ Request,
         NEW recs, NEW index, NEW ord \in {"time", "slice", "none"},
         \A next : Onward(message, next) => GoodSlice(next, s0, cutShort, ord, recs, index),
         \/ Commit(recs, index) /\ ordered' = ord /\ UNCHANGED message
         \/ RollBack(recs) /\ UNCHANGED message
         \/ DieSaving(recs)
  PROVE  Sound(s0)'
<1>1. Onward(message, message) /\ Onward(message, Died(message))
  BY SameOnward, DiedIs DEF Sound
<1>2. GoodSlice(message, s0, cutShort, ord, recs, index) /\ Savable(message, s0, cutShort, recs)
      /\ Savable(Died(message), s0, cutShort, recs)
  BY <1>1 DEF GoodSlice
<1>3. CASE Commit(recs, index) /\ ordered' = ord /\ UNCHANGED message
  <2>1. CountsInv'
    BY <1>3, CommitCounts DEF Sound
  <2>2. GoodSlice(message', s0, cutShort, ordered', recs, index) /\ Onward(message, message')
    BY <1>1, <1>2, <1>3
  <2>3. DataInv(s0)'
    BY <1>3, <2>2, CommitKeeps DEF Sound
  <2> QED
    BY <1>3, <2>1, <2>3 DEF Sound, MessageInv
<1>4. CASE RollBack(recs) /\ UNCHANGED message
  <2>1. CountsInv'
    BY <1>4, RollBackCounts DEF Sound
  <2>2. Savable(message', s0, cutShort, recs) /\ Onward(message, message')
    BY <1>1, <1>2, <1>4
  <2>3. DataInv(s0)'
    BY <1>4, <2>2, RollBackKeeps DEF Sound
  <2> QED
    BY <1>4, <2>1, <2>3 DEF Sound, MessageInv
<1>5. CASE DieSaving(recs)
  <2>1. CountsInv'
    BY <1>5, DieCounts DEF Sound
  <2>2. MessageInv' /\ DataInv(s0)'
    BY <1>2, <1>5, DieKeeps DEF Sound
  <2> QED
    BY <2>1, <2>2 DEF Sound
<1> QED
  BY <1>3, <1>4, <1>5

\* The cleanup keeps the invariant.
LEMMA RemoveKeeps ==
  ASSUME HistoryAssumption, NEW s0, Sound(s0), historyUp, Request, NEW gone, RemoveSessions(gone)
  PROVE  Sound(s0)'
<1> DEFINE rest == Without(records, gone)
           index == BuildSessionIndexes(rest)
<1>1. ASSUME NEW next, Onward(message, next)
      PROVE  GoodSlice(next, s0, cutShort, "slice", rest, index)
  <2>1. GoodSlice(next, s0, cutShort, ordered, records, bySession)
    BY <1>1, StaysGood DEF Sound, DataInv
  <2> QED
    BY <2>1, RemovalGood
<1>2. \/ Commit(rest, index) /\ ordered' = "slice" /\ UNCHANGED message
      \/ RollBack(rest) /\ UNCHANGED message
      \/ DieSaving(rest)
  BY DEF RemoveSessions
<1> HIDE DEF rest, index
<1> QED
  BY <1>1, <1>2, SavingKeeps

\* A change of the marks keeps the invariant.
LEMMA MarkedKeeps ==
  ASSUME HistoryAssumption, NEW s0, Sound(s0), NEW s, NEW marked, SameButMarks(records, marked), Marked(s, marked)
  PROVE  Sound(s0)'
<1>1. ASSUME NEW next, Onward(message, next)
      PROVE  GoodSlice(next, s0, cutShort, ordered, marked, bySession)
  <2>1. GoodSlice(next, s0, cutShort, ordered, records, bySession)
    BY <1>1, StaysGood DEF Sound, DataInv
  <2> QED
    BY <2>1, MarkedGood
<1>2. /\ historyUp /\ Request
      /\ \/ Commit(marked, bySession) /\ ordered' = ordered /\ UNCHANGED message
         \/ RollBack(marked) /\ UNCHANGED message
         \/ DieSaving(marked)
  BY DEF Marked
<1>3. ordered \in {"time", "slice", "none"}
  BY DEF Sound, CountsInv
<1> QED
  BY <1>1, <1>2, <1>3, SavingKeeps

\* Pinning keeps the invariant.
LEMMA SetPinnedKeeps ==
  ASSUME HistoryAssumption, NEW s0, Sound(s0), NEW s \in Session, NEW p \in BOOLEAN, SetSessionPinned(s, p)
  PROVE  Sound(s0)'
<1> DEFINE marked == [i \in DOMAIN records |->
                        IF records[i].sess = s THEN [records[i] EXCEPT !.pinned = p] ELSE records[i]]
<1>1. Marked(s, marked)
  BY DEF SetSessionPinned
<1>2. records \in Seq(Record)
  BY DEF Sound, DataInv, GoodSlice, Savable
<1>3. DOMAIN records = 1 .. Len(records) /\ Len(records) \in Nat
  BY <1>2
<1>4. \A i \in 1 .. Len(records) :
        /\ marked[i] \in Record
        /\ marked[i].msg = records[i].msg /\ marked[i].role = records[i].role
        /\ marked[i].sess = records[i].sess /\ marked[i].at = records[i].at
  <2> SUFFICES ASSUME NEW i \in 1 .. Len(records)
               PROVE  /\ marked[i] \in Record
                      /\ marked[i].msg = records[i].msg /\ marked[i].role = records[i].role
                      /\ marked[i].sess = records[i].sess /\ marked[i].at = records[i].at
    OBVIOUS
  <2>1. records[i] \in Record
    BY <1>2
  <2>2. marked[i] = IF records[i].sess = s THEN [records[i] EXCEPT !.pinned = p] ELSE records[i]
    BY <1>3
  <2> HIDE DEF marked
  <2> QED
    BY <2>1, <2>2 DEF Record
<1>5. marked = [i \in 1 .. Len(records) |-> marked[i]]
  BY <1>3
<1> HIDE DEF marked
<1>6. marked \in [1 .. Len(records) -> Record]
  BY <1>4, <1>5, Zenon
<1>7. SameButMarks(records, marked)
  BY <1>3, <1>4, <1>6 DEF SameButMarks
<1> QED
  BY <1>1, <1>7, MarkedKeeps

\* Touching a session keeps the invariant.
LEMMA TouchKeeps ==
  ASSUME HistoryAssumption, NEW s0, Sound(s0), NEW s \in Session, TouchSession(s)
  PROVE  Sound(s0)'
<1> DEFINE latest == bySession[s][Len(bySession[s])]
           marked == [records EXCEPT ![latest].active = clock]
<1>1. Marked(s, marked)
  BY DEF TouchSession
<1>2. records \in Seq(Record) /\ GoodIndex(records, bySession)
  BY DEF Sound, DataInv, GoodSlice, Savable
<1>3. DOMAIN records = 1 .. Len(records) /\ Len(records) \in Nat
  BY <1>2
<1>4. latest \in 1 .. Len(records)
  <2>1. bySession[s] \in Seq(Nat) /\ bySession[s] # <<>>
    BY <1>1, <1>2 DEF Marked, GoodIndex
  <2>2. Len(bySession[s]) \in 1 .. Len(bySession[s])
    BY <2>1
  <2> QED
    BY <1>2, <2>2 DEF GoodIndex, Exact, ExactOf
<1>5. clock \in 0 .. MaxTime
  BY DEF Sound, CountsInv, HistoryAssumption
<1> HIDE DEF latest
<1>6. \A i \in 1 .. Len(records) :
        /\ marked[i] \in Record
        /\ marked[i].msg = records[i].msg /\ marked[i].role = records[i].role
        /\ marked[i].sess = records[i].sess /\ marked[i].at = records[i].at
  <2> SUFFICES ASSUME NEW i \in 1 .. Len(records)
               PROVE  /\ marked[i] \in Record
                      /\ marked[i].msg = records[i].msg /\ marked[i].role = records[i].role
                      /\ marked[i].sess = records[i].sess /\ marked[i].at = records[i].at
    OBVIOUS
  <2>1. records[i] \in Record
    BY <1>2
  <2>2. marked[i] = IF i = latest THEN [records[i] EXCEPT !.active = clock] ELSE records[i]
    BY <1>3
  <2> HIDE DEF marked
  <2> QED
    BY <1>5, <2>1, <2>2 DEF Record
<1>7. marked = [i \in 1 .. Len(records) |-> marked[i]]
  BY <1>2, <1>3
<1> HIDE DEF marked
<1>8. marked \in [1 .. Len(records) -> Record]
  BY <1>6, <1>7, Zenon
<1>9. SameButMarks(records, marked)
  BY <1>3, <1>6, <1>8 DEF SameButMarks
<1> QED
  BY <1>1, <1>9, MarkedKeeps

\* Appending the next record of a message.
LEMMA AppendKeeps ==
  ASSUME HistoryAssumption, NEW s0, Sound(s0), historyUp, NEW m \in Message, NEW r, MayAppend(message, r), r.msg = m,
         NEW next, next = IF r.role = "user" THEN "running" ELSE "done",
         AppendRecord(m, r, next)
  PROVE  Sound(s0)'
<1> DEFINE new == AppendLocked(records, bySession, r)
           passed == [message EXCEPT ![m].stage = next]
           M == [stage : {"new", "received", "running", "done", "lost"}, sess : Session \cup {0}, at : 0 .. MaxTime]
<1>1. /\ UNCHANGED requests
      /\ \/ /\ Commit(new.recs, new.index) /\ message' = passed
            /\ ordered' = IF ordered = "slice" THEN "none" ELSE ordered
         \/ RollBack(new.recs) /\ message' = passed
         \/ DieSaving(new.recs)
  BY DEF AppendRecord
<1>2. message \in [Message -> M] /\ CountsInv /\ MessageInv /\ DataInv(s0)
  BY DEF Sound, MessageInv
<1>3. /\ passed \in [Message -> M]
      /\ passed[m].stage = next /\ passed[m].sess = message[m].sess /\ passed[m].at = message[m].at
      /\ \A l \in Message : l # m => passed[l] = message[l]
  <2>1. next \in {"new", "received", "running", "done", "lost"}
    OBVIOUS
  <2>2. message[m] \in M
    BY <1>2
  <2>3. [message[m] EXCEPT !.stage = next] \in M
    BY <2>1, <2>2
  <2> QED
    BY <1>2, <2>1, <2>2, <2>3
<1>4. message[m].stage \in {"received", "running"} /\ r \in Record /\ r.msg # 0
      /\ r.sess = message[m].sess /\ r.role \in {"user", "assistant"}
      /\ (r.role = "assistant" <=> message[m].stage = "running")
  BY DEF MayAppend, HistoryAssumption
<1> HIDE DEF passed, M
<1>5. Onward(message, passed) /\ Known(passed, s0, r)
  <2>1. Onward(message, passed)
    BY <1>3, <1>4 DEF Onward
  <2>2. Known(passed, s0, r)
    BY <1>3, <1>4 DEF Known
  <2> QED
    BY <2>1, <2>2
<1>6. Onward(message, Died(message)) /\ Known(Died(message), s0, r)
  <2>1. Died(message)[m].stage = "lost" /\ Died(message)[m].sess = message[m].sess /\ Onward(message, Died(message))
    BY <1>2, <1>4, DiedIs
  <2> QED
    BY <1>4, <2>1 DEF Known
<1> DEFINE ord == IF ordered = "slice" THEN "none" ELSE ordered
<1>7. GoodSlice(message, s0, cutShort, ordered, records, bySession)
  BY <1>2 DEF DataInv
<1>8. Savable(passed, s0, cutShort, new.recs) /\ GoodSlice(passed, s0, cutShort, ord, new.recs, new.index)
  BY <1>5, <1>7, AppendGood
<1>9. Savable(Died(message), s0, cutShort, new.recs)
  BY <1>6, <1>7, AppendGood
<1>10. ordered \in {"time", "slice", "none"} /\ ord \in {"time", "slice", "none"}
  BY <1>2 DEF CountsInv
<1> HIDE DEF new
<1>11. CASE Commit(new.recs, new.index) /\ message' = passed /\ ordered' = ord
  <2>1. CountsInv'
    BY <1>1, <1>2, <1>10, <1>11, CommitCounts
  <2>2. GoodSlice(message', s0, cutShort, ordered', new.recs, new.index) /\ Onward(message, message')
    BY <1>5, <1>8, <1>11
  <2>3. DataInv(s0)'
    BY <1>2, <1>11, <2>2, CommitKeeps
  <2>4. MessageInv'
    BY <1>2, <1>3, <1>4, <1>11 DEF MessageInv, M
  <2> QED
    BY <2>1, <2>3, <2>4 DEF Sound
<1>12. CASE RollBack(new.recs) /\ message' = passed
  <2>1. CountsInv'
    BY <1>1, <1>2, <1>12, RollBackCounts
  <2>2. Savable(message', s0, cutShort, new.recs) /\ Onward(message, message')
    BY <1>5, <1>8, <1>12
  <2>3. DataInv(s0)'
    BY <1>2, <1>12, <2>2, RollBackKeeps
  <2>4. MessageInv'
    BY <1>2, <1>3, <1>4, <1>12 DEF MessageInv, M
  <2> QED
    BY <2>1, <2>3, <2>4 DEF Sound
<1>13. CASE DieSaving(new.recs)
  <2>1. CountsInv'
    BY <1>1, <1>2, <1>13, DieCounts
  <2>2. MessageInv' /\ DataInv(s0)'
    BY <1>2, <1>9, <1>13, DieKeeps
  <2> QED
    BY <2>1, <2>2 DEF Sound
<1> QED
  BY <1>1, <1>11, <1>12, <1>13

\* Appending a question keeps the invariant.
LEMMA UserKeeps ==
  ASSUME HistoryAssumption, NEW s0, Sound(s0), NEW m \in Message, PersistUserMessage(m)
  PROVE  Sound(s0)'
<1> DEFINE r == NewRecord(m, "user", message[m].sess, message[m].at)
<1>1. historyUp /\ message[m].stage = "received" /\ AppendRecord(m, r, "running")
  BY DEF PersistUserMessage
<1>2. message[m].sess \in Session /\ message[m].at \in 1 .. MaxTime
  BY <1>1 DEF Sound, MessageInv
<1>3. r \in Record /\ r.msg = m /\ r.role = "user" /\ r.sess = message[m].sess
  BY <1>2 DEF NewRecord, Record, Role, HistoryAssumption
<1> HIDE DEF r
<1>4. MayAppend(message, r)
  BY <1>1, <1>3 DEF MayAppend
<1>5. "running" = IF r.role = "user" THEN "running" ELSE "done"
  BY <1>3
<1> QED
  BY <1>1, <1>3, <1>4, <1>5, AppendKeeps

\* Appending an answer keeps the invariant.
LEMMA AssistantKeeps ==
  ASSUME HistoryAssumption, NEW s0, Sound(s0), NEW m \in Message, PersistAssistantResult(m)
  PROVE  Sound(s0)'
<1> DEFINE t == IF clock < message[m].at THEN message[m].at ELSE clock
           r == NewRecord(m, "assistant", message[m].sess, t)
<1>1. historyUp /\ message[m].stage = "running" /\ AppendRecord(m, r, "done")
  BY DEF PersistAssistantResult
<1>2. message[m].sess \in Session /\ message[m].at \in 1 .. MaxTime /\ clock \in 1 .. MaxTime
  BY <1>1 DEF Sound, MessageInv, CountsInv
<1>3. r \in Record /\ r.msg = m /\ r.role = "assistant" /\ r.sess = message[m].sess
  <2>1. t \in 1 .. MaxTime
    BY <1>2
  <2> HIDE DEF t
  <2> QED
    BY <1>2, <2>1 DEF NewRecord, Record, Role, HistoryAssumption
<1> HIDE DEF r
<1>4. MayAppend(message, r)
  BY <1>1, <1>3 DEF MayAppend
<1>5. "done" = IF r.role = "user" THEN "running" ELSE "done"
  BY <1>3
<1> QED
  BY <1>1, <1>3, <1>4, <1>5, AppendKeeps

\* Nothing but the messages and the counters change.
LEMMA DataStays ==
  ASSUME NEW s0, DataInv(s0), Onward(message, message'),
         UNCHANGED <<records, bySession, files, historyUp, ordered, synced, cutShort>>
  PROVE  DataInv(s0)'
<1>1. GoodSlice(message', s0, cutShort, ordered, records, bySession)
  BY StaysGood DEF DataInv
<1>2. \A f \in File : GoodFile(message', s0, cutShort, f, files[f])
  <2> SUFFICES ASSUME NEW f \in File PROVE GoodFile(message', s0, cutShort, f, files[f])
    OBVIOUS
  <2>1. GoodFile(message, s0, cutShort, f, files[f])
    BY DEF DataInv, GoodFiles
  <2>2. Savable(message', s0, cutShort, files[f].recs)
    BY <2>1, StaysSavable DEF GoodFile
  <2> QED
    BY <2>1, <2>2 DEF GoodFile
<1>3. GoodFiles(message', s0, cutShort, files)
  BY <1>2 DEF DataInv, GoodFiles
<1>4. LegacyInv' /\ SavedIsComplete'
  BY DEF DataInv, LegacyInv, SavedIsComplete, OwnFile
<1> QED
  BY <1>1, <1>3, <1>4 DEF DataInv

\* Receiving a message keeps the invariant.
LEMMA ReceiveKeeps ==
  ASSUME HistoryAssumption, NEW s0, Sound(s0), NEW m \in Message, NEW s \in Session, Receive(m, s)
  PROVE  Sound(s0)'
<1> DEFINE M == [stage : {"new", "received", "running", "done", "lost"}, sess : Session \cup {0}, at : 0 .. MaxTime]
<1>1. /\ message[m].stage = "new"
      /\ message' = [message EXCEPT ![m] = [stage |-> "received", sess |-> s, at |-> clock]]
      /\ UNCHANGED <<clock, records, bySession, files, historyUp, faults, requests, ordered, synced, cutShort>>
  BY DEF Receive
<1>2. message \in [Message -> M] /\ clock \in 1 .. MaxTime /\ MaxTime \in Nat
  BY DEF Sound, MessageInv, CountsInv, HistoryAssumption
<1>3. [stage |-> "received", sess |-> s, at |-> clock] \in M
  BY <1>2
<1> HIDE DEF M
<1>4. message' \in [Message -> M]
  BY <1>1, <1>2, <1>3
<1>5. Onward(message, message')
  BY <1>1, <1>2 DEF Onward
<1>6. MessageInv'
  <2>1. \A l \in Message : message'[l].stage # "new" => message'[l].sess \in Session /\ message'[l].at \in 1 .. MaxTime
    BY <1>1, <1>2 DEF Sound, MessageInv
  <2> QED
    BY <1>4, <2>1 DEF MessageInv, M
<1>7. DataInv(s0)'
  BY <1>1, <1>5, DataStays DEF Sound
<1>8. CountsInv'
  BY <1>1 DEF Sound, CountsInv
<1> QED
  BY <1>6, <1>7, <1>8 DEF Sound

\* The clock keeps the invariant.
LEMMA TickKeeps ==
  ASSUME HistoryAssumption, NEW s0, Sound(s0), Tick
  PROVE  Sound(s0)'
<1>1. /\ clock < MaxTime /\ clock' = clock + 1
      /\ UNCHANGED <<message, records, bySession, files, historyUp, faults, requests, ordered, synced, cutShort>>
  BY DEF Tick
<1>2. clock' \in 1 .. MaxTime
  BY <1>1 DEF Sound, CountsInv, HistoryAssumption
<1>3. CountsInv'
  BY <1>1, <1>2 DEF Sound, CountsInv
<1>4. DataInv(s0)'
  BY <1>1, SameOnward, DataStays DEF Sound
<1> QED
  BY <1>1, <1>3, <1>4 DEF Sound, MessageInv

\* Stopping keeps the invariant.
LEMMA StopKeeps ==
  ASSUME HistoryAssumption, NEW s0, Sound(s0), Stop
  PROVE  Sound(s0)'
<1>1. historyUp /\ UNCHANGED requests /\ DieSaving(records)
  BY DEF Stop
<1>2. Savable(Died(message), s0, cutShort, records)
  BY DiedIs, StaysSavable DEF Sound, DataInv, GoodSlice
<1>3. CountsInv'
  BY <1>1, DieCounts DEF Sound
<1>4. MessageInv' /\ DataInv(s0)'
  BY <1>1, <1>2, DieKeeps DEF Sound
<1> QED
  BY <1>3, <1>4 DEF Sound

\* Loading, with the migration of the old file, keeps the invariant.
LEMMA StartKeeps ==
  ASSUME HistoryAssumption, NEW s0, Sound(s0), Start
  PROVE  Sound(s0)'
<1> DEFINE items == LoadedItems(files)
           read == Loaded(files)
           loaded == Indexed(read)
           moved == files[Legacy].st = "full"
<1>1. /\ ~historyUp
      /\ \A f \in File : files[f].st # "torn"
      /\ \/ /\ historyUp' = TRUE
            /\ records' = loaded.recs /\ bySession' = loaded.index
            /\ files' = IF moved THEN SavedLayout(files, items) ELSE files
            /\ synced' = TRUE
            /\ UNCHANGED <<clock, message, faults, requests, ordered, cutShort>>
         \/ /\ moved
            /\ UNCHANGED requests /\ MayFault /\ faults' = faults + 1
            /\ files' \in PartialLayouts(files, items)
            /\ cutShort' = TRUE
            /\ UNCHANGED <<clock, message, records, bySession, historyUp, ordered, synced>>
  BY DEF Start
<1>2. /\ GoodFiles(message, s0, cutShort, files) /\ Apart(cutShort, files) /\ Layout(files)
      /\ records = <<>> /\ bySession = NoIndex /\ ordered = "time"
  BY <1>1 DEF Sound, DataInv, LegacyInv, GoodFiles
<1>3. /\ items \in Seq(Record) /\ Savable(message, s0, cutShort, items)
      /\ \A f \in File : \A i \in 1 .. Len(files[f].recs) : \E k \in 1 .. Len(items) : items[k] = files[f].recs[i]
      /\ \A k \in 1 .. Len(items) : \E f \in File : \E i \in 1 .. Len(files[f].recs) : items[k] = files[f].recs[i]
  <2>1. items \in Seq(Record) /\ \E place : ReadFrom(files, place, items)
    BY <1>2, ItemsAre
  <2> HIDE DEF items
  <2> QED
    <3>1. PICK place : ReadFrom(files, place, items)
      BY <2>1
    <3>2. Savable(message, s0, cutShort, items) /\ SameRecords(files, items)
      BY <1>2, <2>1, <3>1, ReadSavable
    <3> QED
      BY <2>1, <3>2 DEF SameRecords
<1>4. /\ read \in Seq(Record) /\ Savable(message, s0, cutShort, read)
      /\ \A f \in File : \A i \in 1 .. Len(files[f].recs) : \E k \in 1 .. Len(read) : read[k] = files[f].recs[i]
      /\ \A k \in 1 .. Len(read) : \E f \in File : \E i \in 1 .. Len(files[f].recs) : read[k] = files[f].recs[i]
      /\ \A i, j \in 1 .. Len(read) : i < j => read[i].at <= read[j].at
  <2>1. /\ read \in Seq(Record) /\ \E place : ReadFrom(files, place, read)
        /\ \A i, j \in 1 .. Len(read) : i < j => read[i].at <= read[j].at
    BY <1>2, LoadedAre
  <2> HIDE DEF read
  <2> QED
    <3>1. PICK place : ReadFrom(files, place, read)
      BY <2>1
    <3>2. Savable(message, s0, cutShort, read) /\ SameRecords(files, read)
      BY <1>2, <2>1, <3>1, ReadSavable
    <3> QED
      BY <2>1, <3>2 DEF SameRecords
<1> HIDE DEF items, read
<1>5. loaded.recs = read /\ GoodIndex(read, loaded.index) /\ ByTime(read, loaded.index)
  BY <1>4, IndexedIs
<1> HIDE DEF loaded
<1>6. Asked(read)
  <2> SUFFICES ASSUME NEW i \in 1 .. Len(read), NEW j \in 1 .. Len(read), Answers(read[j], read[i])
               PROVE  i < j
    BY DEF Asked
  <2>1. read[i].at < read[j].at /\ read[i].at \in Nat /\ read[j].at \in Nat
    BY <1>4, RecordHas DEF Answers
  <2>2. i = j => FALSE
    BY <2>1
  <2>3. j < i => FALSE
    BY <1>4, <2>1
  <2> QED
    BY <1>4, <2>2, <2>3
<1>7. /\ message' = message /\ Onward(message, message')
      /\ MessageInv' /\ CountsInv'
  <2>1. message' = message
    BY <1>1
  <2>2. CountsInv'
    <3>1. clock' = clock /\ requests' = requests /\ (faults' = faults \/ (MayFault /\ faults' = faults + 1))
          /\ ordered' = ordered /\ (historyUp' = TRUE \/ historyUp' = historyUp)
          /\ (synced' = TRUE \/ synced' = synced) /\ (cutShort' = TRUE \/ cutShort' = cutShort)
      BY <1>1
    <3>2. historyUp' \in BOOLEAN /\ synced' \in BOOLEAN /\ cutShort' \in BOOLEAN /\ ordered' \in {"time", "slice", "none"}
      BY <3>1, Zenon DEF Sound, CountsInv
    <3>3. CountsInv
      BY DEF Sound
    <3> QED
      BY <3>1, <3>2, <3>3, CountsKept
  <2> QED
    BY <2>1, <2>2, SameOnward DEF Sound, MessageInv
<1>8. CASE /\ historyUp' = TRUE
           /\ records' = loaded.recs /\ bySession' = loaded.index
           /\ files' = IF moved THEN SavedLayout(files, items) ELSE files
           /\ synced' = TRUE
           /\ UNCHANGED <<clock, message, faults, requests, ordered, cutShort>>
  <2>1. GoodSlice(message', s0, cutShort', ordered', records', bySession')
    <3>1. GoodSlice(message, s0, cutShort, "time", read, loaded.index)
      BY <1>4, <1>5, <1>6 DEF GoodSlice
    <3> QED
      BY <1>2, <1>5, <1>8, <3>1
  <2>2. GoodFiles(message', s0, cutShort', files')
    <3> DEFINE e == files'
    <3>1. e \in PartialLayouts(files, items) \cup {files, SavedLayout(files, items)}
      BY <1>8
    <3> HIDE DEF e
    <3>2. GoodFiles(message, s0, cutShort, e)
      BY <1>2, <1>3, <3>1, SameOnward, GoodLayouts
    <3> QED
      BY <1>8, <3>2 DEF e
  <2>3. \A f \in File : GoodFile(message, s0, cutShort, f, files[f])
                     /\ files[f] \in [st : {"missing", "torn", "full"}, recs : Seq(Record)]
    BY <1>2 DEF GoodFiles, Layout
  <2>4. \A f \in File : files[f].st # "full" => files[f] = Missing
    <3> SUFFICES ASSUME NEW f \in File, files[f].st # "full" PROVE files[f] = Missing
      OBVIOUS
    <3>1. files[f].st = "missing" /\ files[f].recs = <<>>
      BY <1>1, <2>3 DEF GoodFile
    <3>2. files[f] = [st |-> files[f].st, recs |-> files[f].recs]
      BY <2>3
    <3> QED
      BY <3>1, <3>2 DEF Missing
  <2>5. Legacy \in File
    BY DEF File
  <2>6. files'[Legacy] = Missing
    <3>1. CASE moved
      <4>1. SavedLayout(files, items)[Legacy] = Missing
        BY <1>3, SavedLegacy
      <4> QED
        BY <1>8, <3>1, <4>1
    <3>2. CASE ~moved
      BY <1>8, <2>4, <2>5, <3>2
    <3> QED
      BY <3>1, <3>2
  <2>7. LegacyInv'
    BY <1>8, <2>6 DEF LegacyInv, Apart
  <2>8. ASSUME NEW s \in Session, OwnFile(s)
        PROVE  IF bySession'[s] = <<>> THEN files'[FileOf[s]] = Missing
               ELSE /\ files'[FileOf[s]].st = "full"
                    /\ ToSet(files'[FileOf[s]].recs) = ToSet(Content(records', s))
    <3> DEFINE f == FileOf[s]
               c == Content(read, s)
    <3>1. f \in File /\ f # Legacy
      BY DEF File, HistoryAssumption
    <3>2. bySession'[s] = <<>> <=> ~Has(read, s)
      <4>1. read \in Seq(Record) /\ GoodIndex(read, loaded.index) /\ bySession' = loaded.index
        BY <1>4, <1>5, <1>8
      <4>2. loaded.index[s] = <<>> <=> ~Has(read, s)
        BY <4>1, NoneIndexed
      <4> QED
        BY <4>1, <4>2
    <3>3. IsContent(c, read, s)
      BY <1>4, ContentIs
    <3> HIDE DEF c
    <3>5. \A x : x \in ToSet(c) <=> x.sess = s /\ \E i \in 1 .. Len(read) : read[i] = x
      BY <3>3, ContentSet
    <3>6. CASE moved
      <4>1. files'[f] = IF Has(items, s) THEN Full(Content(items, s)) ELSE Missing
        BY <1>3, <1>8, <2>8, <3>6, SavedOwn
      <4> DEFINE d == Content(items, s)
      <4>2. IsContent(d, items, s)
        BY <1>3, ContentIs
      <4> HIDE DEF d
      <4>3. \A x : x \in ToSet(d) <=> x.sess = s /\ \E i \in 1 .. Len(items) : items[i] = x
        BY <4>2, ContentSet
      <4>4. \A x : (\E i \in 1 .. Len(items) : items[i] = x) <=> (\E i \in 1 .. Len(read) : read[i] = x)
        <5> SUFFICES ASSUME NEW x
                     PROVE  (\E i \in 1 .. Len(items) : items[i] = x) <=> (\E i \in 1 .. Len(read) : read[i] = x)
          OBVIOUS
        <5>1. ASSUME NEW i \in 1 .. Len(items), items[i] = x PROVE \E k \in 1 .. Len(read) : read[k] = x
          <6>1. PICK g \in File : \E a \in 1 .. Len(files[g].recs) : items[i] = files[g].recs[a]
            BY <1>3
          <6>2. PICK a \in 1 .. Len(files[g].recs) : items[i] = files[g].recs[a]
            BY <6>1
          <6> QED
            BY <1>4, <5>1, <6>2
        <5>2. ASSUME NEW i \in 1 .. Len(read), read[i] = x PROVE \E k \in 1 .. Len(items) : items[k] = x
          <6>1. PICK g \in File : \E a \in 1 .. Len(files[g].recs) : read[i] = files[g].recs[a]
            BY <1>4
          <6>2. PICK a \in 1 .. Len(files[g].recs) : read[i] = files[g].recs[a]
            BY <6>1
          <6>3. \E k \in 1 .. Len(items) : items[k] = files[g].recs[a]
            BY <1>3
          <6> QED
            BY <5>2, <6>2, <6>3
        <5> QED
          BY <5>1, <5>2
      <4>5. ToSet(d) = ToSet(c)
        BY <3>5, <4>3, <4>4
      <4>6. Has(items, s) <=> Has(read, s)
        BY <4>4 DEF Has
      <4> QED
        BY <1>5, <1>8, <3>2, <4>1, <4>5, <4>6 DEF Full, c, d
    <3>7. CASE ~moved
      <4>1. files[Legacy] = Missing /\ files' = files
        BY <1>8, <2>4, <2>5, <3>7
      <4> DEFINE d == files[f].recs
      <4>2. /\ d \in Seq(Record) /\ (files[f].st = "full" <=> d # <<>>)
            /\ \A i \in 1 .. Len(d) : FileOf[d[i].sess] = f /\ d[i].sess \in Session
        <5>1. GoodFile(message, s0, cutShort, f, files[f])
          BY <2>3, <3>1
        <5>2. d \in Seq(Record)
          BY <5>1 DEF GoodFile, Savable
        <5>3. (files[f].st = "full" <=> d # <<>>) /\ \A i \in 1 .. Len(d) : FileOf[d[i].sess] = f
          BY <3>1, <5>1 DEF GoodFile
        <5> HIDE DEF d
        <5>4. \A i \in 1 .. Len(d) : d[i].sess \in Session
          BY <5>2, RecordHas
        <5> QED
          BY <5>2, <5>3, <5>4
      <4>3. \A i \in 1 .. Len(d) : d[i].sess = s
        BY <2>8, <4>2 DEF OwnFile
      <4>4. \A g \in File : \A i \in 1 .. Len(files[g].recs) : files[g].recs[i].sess = s => g = f
        <5> SUFFICES ASSUME NEW g \in File, NEW i \in 1 .. Len(files[g].recs), files[g].recs[i].sess = s
                     PROVE  g = f
          OBVIOUS
        <5>1. g # Legacy
          BY <4>1 DEF Missing
        <5> QED
          BY <2>3, <5>1 DEF GoodFile
      <4>5. \A x : (\E i \in 1 .. Len(d) : d[i] = x) <=> x.sess = s /\ \E i \in 1 .. Len(read) : read[i] = x
        <5> SUFFICES ASSUME NEW x
                     PROVE  (\E i \in 1 .. Len(d) : d[i] = x) <=> x.sess = s /\ \E i \in 1 .. Len(read) : read[i] = x
          OBVIOUS
        <5>1. ASSUME NEW i \in 1 .. Len(d), d[i] = x
              PROVE  x.sess = s /\ \E k \in 1 .. Len(read) : read[k] = x
          BY <1>4, <3>1, <4>3, <5>1
        <5>2. ASSUME NEW k \in 1 .. Len(read), read[k] = x, x.sess = s
              PROVE  \E i \in 1 .. Len(d) : d[i] = x
          <6>1. PICK g \in File : \E i \in 1 .. Len(files[g].recs) : read[k] = files[g].recs[i]
            BY <1>4
          <6>2. PICK i \in 1 .. Len(files[g].recs) : read[k] = files[g].recs[i]
            BY <6>1
          <6>3. g = f
            BY <4>4, <5>2, <6>2
          <6> QED
            BY <5>2, <6>2, <6>3
        <5> QED
          BY <5>1, <5>2
      <4> HIDE DEF d
      <4>6. ToSet(d) = ToSet(c)
        <5>1. \A x : x \in ToSet(d) <=> x \in ToSet(c)
          <6>1. \A x : x \in ToSet(d) <=> \E i \in 1 .. Len(d) : d[i] = x
            BY <4>2 DEF ToSet
          <6> QED
            BY <3>5, <4>5, <6>1
        <5> QED
          BY <5>1
      <4>7. d # <<>> <=> Has(read, s)
        <5>1. d # <<>> <=> \E i \in 1 .. Len(d) : TRUE
          BY <4>2
        <5>2. ASSUME NEW i \in 1 .. Len(d) PROVE Has(read, s)
          BY <4>3, <4>5 DEF Has
        <5>3. ASSUME Has(read, s) PROVE \E i \in 1 .. Len(d) : TRUE
          <6>1. PICK k \in 1 .. Len(read) : read[k].sess = s
            BY <5>3 DEF Has
          <6> QED
            BY <4>5, <6>1
        <5> QED
          BY <5>1, <5>2, <5>3
      <4>8. bySession'[s] = <<>> => files'[f] = Missing
        BY <2>4, <3>1, <3>2, <4>1, <4>2, <4>7
      <4>9. bySession'[s] # <<>> => files'[f].st = "full"
        BY <3>2, <4>1, <4>2, <4>7
      <4>10. ToSet(files'[f].recs) = ToSet(Content(records', s))
        BY <1>5, <1>8, <4>1, <4>6 DEF c, d
      <4> QED
        BY <4>8, <4>9, <4>10
    <3> QED
      BY <3>6, <3>7
  <2>9. SavedIsComplete'
    BY <2>6, <2>8 DEF SavedIsComplete, OwnFile
  <2> QED
    BY <1>7, <2>1, <2>2, <2>7, <2>9 DEF Sound, DataInv
<1>9. CASE /\ moved
           /\ UNCHANGED requests /\ MayFault /\ faults' = faults + 1
           /\ files' \in PartialLayouts(files, items)
           /\ cutShort' = TRUE
           /\ UNCHANGED <<clock, message, records, bySession, historyUp, ordered, synced>>
  <2>1. GoodSlice(message', s0, cutShort', ordered', records', bySession')
    <3>1. GoodSlice(message, s0, TRUE, "time", <<>>, NoIndex)
      BY EmptyGood
    <3> QED
      BY <1>2, <1>9, <3>1
  <2>2. GoodFiles(message', s0, cutShort', files')
    <3> DEFINE e == files'
               cut == TRUE
    <3>1. e \in PartialLayouts(files, items) \cup {files, SavedLayout(files, items)}
      BY <1>9
    <3>2. Savable(message, s0, cut, items)
      BY <1>3 DEF Savable
    <3>3. cutShort => cut
      OBVIOUS
    <3> HIDE DEF e, cut
    <3>4. GoodFiles(message, s0, cut, e)
      BY <1>2, <3>1, <3>2, <3>3, SameOnward, GoodLayouts
    <3> QED
      BY <1>9, <3>4 DEF e, cut
  <2>3. LegacyInv' /\ SavedIsComplete'
    BY <1>1, <1>2, <1>9 DEF LegacyInv, Apart, SavedIsComplete
  <2> QED
    BY <1>7, <2>1, <2>2, <2>3 DEF Sound, DataInv
<1> QED
  BY <1>1, <1>8, <1>9

\* Every step keeps the invariant.
LEMMA SoundStep ==
  ASSUME HistoryAssumption, NEW s0, Sound(s0), [HistoryNext]_historyVars
  PROVE  Sound(s0)'
<1>1. CASE UNCHANGED historyVars
  <2>1. /\ UNCHANGED <<records, bySession, files, historyUp, ordered, synced, cutShort>>
        /\ UNCHANGED <<message, clock, faults, requests>>
    BY <1>1 DEF historyVars
  <2>2. DataInv(s0)'
    BY <2>1, SameOnward, DataStays DEF Sound
  <2> QED
    BY <2>1, <2>2 DEF Sound, CountsInv, MessageInv
<1>2. CASE \E m \in Message : \E s \in Session : Receive(m, s)
  BY <1>2, ReceiveKeeps
<1>3. CASE \E m \in Message : PersistUserMessage(m)
  BY <1>3, UserKeeps
<1>4. CASE \E m \in Message : PersistAssistantResult(m)
  BY <1>4, AssistantKeeps
<1>5. CASE \E s \in Session : DeleteSession(s)
  <2>1. PICK s \in Session : DeleteSession(s)
    BY <1>5
  <2> QED
    BY <2>1, RemoveKeeps DEF DeleteSession
<1>6. CASE \E s \in Session : \E p \in BOOLEAN : SetSessionPinned(s, p)
  BY <1>6, SetPinnedKeeps
<1>7. CASE \E s \in Session : TouchSession(s)
  BY <1>7, TouchKeeps
<1>8. CASE CleanupInactiveSessions({})
  BY <1>8, RemoveKeeps DEF CleanupInactiveSessions
<1>9. CASE Start
  BY <1>9, StartKeeps
<1>10. CASE Stop
  BY <1>10, StopKeeps
<1>11. CASE Tick
  BY <1>11, TickKeeps
<1> QED
  BY <1>1, <1>2, <1>3, <1>4, <1>5, <1>6, <1>7, <1>8, <1>9, <1>10, <1>11 DEF HistoryNext

-----------------------------------------------------------------------------
(* What the invariant says *)

\* The bisection finds the records of a span.
LEMMA SpanFound ==
  ASSUME NEW recs \in Seq(Record), NEW index, GoodIndex(recs, index), ByTime(recs, index), NEW s \in Session,
         NEW from \in 1 .. MaxTime, NEW to \in 1 .. MaxTime, from <= to
  PROVE  ToSet(Between(recs, index[s], from, to)) =
           {i \in 1 .. Len(recs) : recs[i].sess = s /\ recs[i].at \in from .. to}
<1> DEFINE ix == index[s]
           late == [k \in DOMAIN ix |-> recs[ix[k]].at >= from]
           past == [k \in DOMAIN ix |-> recs[ix[k]].at > to]
           first == SearchFirst(late)
           final == SearchFirst(past) - 1
           n == Len(ix)
<1>1. from \in Nat /\ to \in Nat
  OBVIOUS
<1>2. ix \in Seq(Nat) /\ n \in Nat /\ DOMAIN ix = 1 .. n
  BY DEF GoodIndex
<1>3. ExactOf(recs, ix, s) /\ \A i, j \in 1 .. n : i < j => recs[ix[i]].at <= recs[ix[j]].at
  BY DEF GoodIndex, Exact, ByTime
<1>4. Between(recs, ix, from, to) = SubSeq(ix, first, final)
  <2>1. Between(recs, ix, from, to) = IF to < from THEN <<>> ELSE SubSeq(ix, first, final)
    BY Zenon DEF Between
  <2>2. ~(to < from)
    BY <1>1
  <2> HIDE DEF first, final, ix
  <2> QED
    BY <2>1, <2>2
<1> HIDE DEF ix
<1>5. \A k \in 1 .. n : ix[k] \in 1 .. Len(recs) /\ ix[k] \in Nat /\ recs[ix[k]] \in Record
  BY <1>2, <1>3 DEF ExactOf
<1>6. \A k \in 1 .. n : recs[ix[k]].at \in Nat
  BY <1>5, RecordHas
<1> HIDE DEF n
<1>7. /\ \A k \in 1 .. n : late[k] = (recs[ix[k]].at >= from) /\ past[k] = (recs[ix[k]].at > to)
      /\ late \in [1 .. n -> BOOLEAN] /\ past \in [1 .. n -> BOOLEAN]
  <2>1. \A k \in 1 .. n : (recs[ix[k]].at >= from) \in BOOLEAN /\ (recs[ix[k]].at > to) \in BOOLEAN
    OBVIOUS
  <2>2. \A k \in 1 .. n : late[k] = (recs[ix[k]].at >= from) /\ past[k] = (recs[ix[k]].at > to)
    BY <1>2
  <2>3. late = [k \in 1 .. n |-> late[k]] /\ past = [k \in 1 .. n |-> past[k]]
    BY <1>2
  <2> HIDE DEF late, past
  <2>4. \A k \in 1 .. n : late[k] \in BOOLEAN /\ past[k] \in BOOLEAN
    BY <2>1, <2>2, Zenon
  <2> QED
    BY <2>2, <2>3, <2>4, Zenon
<1> HIDE DEF late, past
<1>8. /\ \A i, j \in 1 .. n : i < j /\ late[i] => late[j]
      /\ \A i, j \in 1 .. n : i < j /\ past[i] => past[j]
  <2> SUFFICES ASSUME NEW i \in 1 .. n, NEW j \in 1 .. n, i < j
               PROVE  (late[i] => late[j]) /\ (past[i] => past[j])
    OBVIOUS
  <2>1. recs[ix[i]].at <= recs[ix[j]].at /\ recs[ix[i]].at \in Nat /\ recs[ix[j]].at \in Nat
    BY <1>3, <1>6 DEF n
  <2>2. /\ recs[ix[i]].at >= from => recs[ix[j]].at >= from
        /\ recs[ix[i]].at > to => recs[ix[j]].at > to
    <3> DEFINE a == recs[ix[i]].at
               b == recs[ix[j]].at
    <3>1. a <= b /\ a \in Nat /\ b \in Nat
      BY <2>1
    <3> HIDE DEF a, b
    <3>2. (a >= from => b >= from) /\ (a > to => b > to)
      BY <1>1, <3>1
    <3> QED
      BY <3>2 DEF a, b
  <2> QED
    BY <1>7, <2>2, Zenon
<1>9. /\ first \in 1 .. n + 1 /\ \A k \in 1 .. n : late[k] <=> first <= k
      /\ final + 1 \in 1 .. n + 1 /\ final \in 0 .. n /\ \A k \in 1 .. n : past[k] <=> final + 1 <= k
  <2>1. first \in 1 .. n + 1 /\ \A k \in 1 .. n : late[k] <=> first <= k
    BY <1>2, <1>7, <1>8, SearchFinds DEF n
  <2> DEFINE end == SearchFirst(past)
  <2>2. end \in 1 .. n + 1 /\ \A k \in 1 .. n : past[k] <=> end <= k
    BY <1>2, <1>7, <1>8, SearchFinds DEF n
  <2> HIDE DEF end
  <2>3. end - 1 + 1 = end /\ end - 1 \in 0 .. n
    BY <1>2, <2>2 DEF n
  <2> QED
    BY <2>1, <2>2, <2>3 DEF end
<1> HIDE DEF first, final
<1>10. \A k \in 1 .. n : (first <= k /\ k <= final) <=> recs[ix[k]].at \in from .. to
  <2> SUFFICES ASSUME NEW k \in 1 .. n PROVE (first <= k /\ k <= final) <=> recs[ix[k]].at \in from .. to
    OBVIOUS
  <2>1. (first <= k <=> recs[ix[k]].at >= from) /\ (final + 1 <= k <=> recs[ix[k]].at > to)
    BY <1>7, <1>9, Zenon
  <2>2. recs[ix[k]].at \in Nat /\ final \in Nat /\ k \in Nat
    BY <1>2, <1>6, <1>9 DEF n
  <2> QED
    BY <1>1, <2>1, <2>2
<1> DEFINE part == SubSeq(ix, first, final)
<1>11. /\ part \in Seq(Nat) /\ Len(part) = (IF first <= final THEN final - first + 1 ELSE 0)
       /\ \A k \in 1 .. final - first + 1 : part[k] = ix[first + k - 1]
  <2>1. first \in Int /\ final \in Int /\ \A k \in first .. final : ix[k] \in Nat
    BY <1>2, <1>5, <1>9 DEF n
  <2> QED
    BY <2>1, SubSeqProperties
<1> HIDE DEF part
<1>12. \A x : x \in ToSet(part) <=> \E k \in 1 .. n : first <= k /\ k <= final /\ ix[k] = x
  <2> SUFFICES ASSUME NEW x
               PROVE  x \in ToSet(part) <=> \E k \in 1 .. n : first <= k /\ k <= final /\ ix[k] = x
    OBVIOUS
  <2>1. x \in ToSet(part) <=> \E l \in 1 .. Len(part) : part[l] = x
    BY <1>11 DEF ToSet
  <2>2. ASSUME NEW l \in 1 .. Len(part), part[l] = x
        PROVE  \E k \in 1 .. n : first <= k /\ k <= final /\ ix[k] = x
    <3>1. first <= final /\ l \in 1 .. final - first + 1 /\ first + l - 1 \in 1 .. n
          /\ first <= first + l - 1 /\ first + l - 1 <= final
      BY <1>2, <1>9, <1>11 DEF n
    <3> QED
      BY <1>11, <2>2, <3>1
  <2>3. ASSUME NEW k \in 1 .. n, first <= k, k <= final, ix[k] = x
        PROVE  \E l \in 1 .. Len(part) : part[l] = x
    <3>1. k - first + 1 \in 1 .. final - first + 1 /\ first <= final /\ first + (k - first + 1) - 1 = k
      BY <1>2, <1>9, <2>3 DEF n
    <3> QED
      BY <1>11, <2>3, <3>1
  <2> QED
    BY <2>1, <2>2, <2>3
<1>13. \A x : x \in ToSet(part) <=> x \in {i \in 1 .. Len(recs) : recs[i].sess = s /\ recs[i].at \in from .. to}
  <2> SUFFICES ASSUME NEW x
               PROVE  x \in ToSet(part) <=> x \in 1 .. Len(recs) /\ recs[x].sess = s /\ recs[x].at \in from .. to
    OBVIOUS
  <2>1. x \in ToSet(part) <=> \E k \in 1 .. n : ix[k] = x /\ recs[ix[k]].at \in from .. to
    BY <1>10, <1>12
  <2>2. x \in 1 .. Len(recs) /\ recs[x].sess = s <=> \E k \in 1 .. n : ix[k] = x
    BY <1>3 DEF ExactOf, n
  <2> QED
    BY <2>1, <2>2
<1>14. ToSet(part) = {i \in 1 .. Len(recs) : recs[i].sess = s /\ recs[i].at \in from .. to}
  BY <1>13
<1> QED
  BY <1>4, <1>14 DEF part, ix

\* The invariant implies HistoryIsSound.
LEMMA SoundIsSound ==
  ASSUME HistoryAssumption, NEW s0, Sound(s0)
  PROVE  HistoryIsSound
<1>1. /\ GoodSlice(message, s0, cutShort, ordered, records, bySession)
      /\ GoodFiles(message, s0, cutShort, files) /\ CountsInv /\ MessageInv /\ SavedIsComplete
  BY DEF Sound, DataInv
<1>2. /\ records \in Seq(Record) /\ GoodIndex(records, bySession) /\ Asked(records)
      /\ (ordered = "time" => ByTime(records, bySession)) /\ (ordered = "slice" => AsSlice(bySession))
      /\ (~cutShort => NoTwinsIn(records))
  BY <1>1 DEF GoodSlice, Savable
<1>3. HistoryTypeOK
  BY <1>1, <1>2 DEF HistoryTypeOK, CountsInv, MessageInv, GoodFiles, Layout, GoodIndex
<1>4. IndexIsExact
  BY <1>2 DEF IndexIsExact, Indexes, Position, GoodIndex, Exact, ExactOf
<1>5. ListedInOrder
  BY <1>2 DEF ListedInOrder, Indexes, ByTime
<1>6. SpanIsExact
  BY <1>2, SpanFound DEF SpanIsExact, Position
<1>7. QuestionFirst
  <2>1. ASSUME NEW i \in Position, NEW j \in Position, Answers(records[j], records[i]) PROVE i < j
    BY <1>2, <2>1 DEF Position, Asked
  <2>2. ASSUME ordered # "none", NEW s \in Session, NEW i \in Indexes(s), NEW j \in Indexes(s),
               Answers(records[bySession[s][j]], records[bySession[s][i]])
        PROVE  i < j
    <3> DEFINE a == bySession[s][i]
               b == bySession[s][j]
    <3>1. a \in 1 .. Len(records) /\ b \in 1 .. Len(records) /\ i \in Nat /\ j \in Nat
      BY <1>2 DEF GoodIndex, Exact, ExactOf, Indexes
    <3>2. a < b
      BY <2>1, <2>2, <3>1 DEF Position
    <3>3. records[a].at < records[b].at /\ records[a].at \in Nat /\ records[b].at \in Nat
      BY <1>2, <2>2, <3>1, RecordHas, ElementOfSeq DEF Answers
    <3>4. i = j => FALSE
      BY <3>1, <3>2
    <3>5. j < i /\ ordered = "slice" => FALSE
      <4>1. ASSUME j < i, ordered = "slice" PROVE b < a
        BY <1>2, <4>1 DEF AsSlice, Indexes
      <4> QED
        BY <3>1, <3>2, <4>1
    <3>6. j < i /\ ordered = "time" => FALSE
      <4>1. ASSUME j < i, ordered = "time" PROVE records[b].at <= records[a].at
        BY <1>2, <4>1 DEF ByTime, Indexes
      <4> HIDE DEF a, b
      <4> QED
        BY <3>3, <4>1
    <3>7. ordered = "time" \/ ordered = "slice"
      BY <1>1, <2>2 DEF CountsInv
    <3> QED
      BY <3>1, <3>4, <3>5, <3>6, <3>7
  <2> QED
    BY <2>1, <2>2 DEF QuestionFirst, Answers
<1>8. NoTwins
  BY <1>2 DEF NoTwins, NoTwinsIn, Position
<1> QED
  BY <1>1, <1>3, <1>4, <1>5, <1>6, <1>7, <1>8 DEF HistoryIsSound

\* The cleanup removes the inactive sessions only.
LEMMA CleanupSpares ==
  ASSUME HistoryAssumption, NEW s0, Sound(s0), NEW s \in Session, Vanishes(s), CleanupInactiveSessions({})
  PROVE  /\ \A i \in Position : records[i].sess = s => ~records[i].pinned
         /\ ordered = "time" => \A i \in Position :
              records[i].sess = s =>
                records[i].at + InactiveFor < clock /\ records[i].active + InactiveFor < clock
<1> DEFINE gone == {t \in Session : Inactive(t, {})}
           rest == Without(records, gone)
           ix == bySession[s]
<1>1. /\ records \in Seq(Record) /\ GoodIndex(records, bySession)
      /\ (ordered = "time" => ByTime(records, bySession))
      /\ clock \in Nat /\ InactiveFor \in Nat /\ MaxTime \in Nat
  BY DEF Sound, CountsInv, DataInv, GoodSlice, Savable, HistoryAssumption
<1>2. bySession[s] # <<>> /\ bySession'[s] = <<>> /\ historyUp'
  BY DEF Vanishes
<1>3. RemoveSessions(gone)
  BY DEF CleanupInactiveSessions
<1>4. bySession' = BuildSessionIndexes(rest)
  <2>1. CASE Commit(rest, BuildSessionIndexes(rest))
    BY <2>1 DEF Commit
  <2>2. CASE RollBack(rest)
    BY <1>2, <2>2 DEF RollBack
  <2>3. CASE DieSaving(rest)
    BY <1>2, <2>3 DEF DieSaving
  <2> QED
    BY <1>3, <2>1, <2>2, <2>3 DEF RemoveSessions
<1> HIDE DEF gone
<1>5. /\ rest \in Seq(Record)
      /\ \A i \in 1 .. Len(records) : records[i].sess \notin gone => \E k \in 1 .. Len(rest) : rest[k] = records[i]
  BY <1>1, WithoutKeeps
<1> HIDE DEF rest
<1>6. \A k \in 1 .. Len(rest) : rest[k].sess # s
  <2> DEFINE index == BuildSessionIndexes(rest)
  <2>1. GoodIndex(rest, index)
    BY <1>5, BuiltIndexes
  <2>2. index[s] = <<>>
    BY <1>2, <1>4
  <2> HIDE DEF index
  <2>3. index[s] = <<>> <=> ~Has(rest, s)
    BY <1>5, <2>1, NoneIndexed
  <2> QED
    BY <2>2, <2>3 DEF Has
<1>7. ix \in Seq(Nat) /\ ix # <<>> /\ ExactOf(records, ix, s)
  BY <1>1, <1>2 DEF GoodIndex, Exact
<1> HIDE DEF ix
<1>8. \A i \in 1 .. Len(records) : records[i].sess = s <=> \E k \in 1 .. Len(ix) : ix[k] = i
  BY <1>7 DEF ExactOf
<1>9. s \in gone
  <2>1. 1 \in 1 .. Len(ix)
    BY <1>7
  <2>2. ix[1] \in 1 .. Len(records) /\ records[ix[1]].sess = s
    BY <1>7, <1>8, <2>1 DEF ExactOf
  <2> QED
    BY <1>5, <1>6, <2>2
<1>10. ~Pinned(records, ix) /\ LastActive(records, ix) + InactiveFor < clock
  BY <1>9 DEF gone, Inactive, ix
<1>11. \A i \in 1 .. Len(records) : records[i].sess = s => ~records[i].pinned
  BY <1>8, <1>10 DEF Pinned
<1>12. \A k \in 1 .. Len(ix) : /\ ix[k] \in 1 .. Len(records) /\ records[ix[k]].at \in 0 .. MaxTime
                              /\ records[ix[k]].active \in 0 .. MaxTime
  <2>1. \A k \in 1 .. Len(ix) : ix[k] \in 1 .. Len(records)
    BY <1>7 DEF ExactOf
  <2>2. \A k \in 1 .. Len(ix) : records[ix[k]] \in Record
    BY <1>1, <2>1
  <2> QED
    BY <1>1, <2>1, <2>2, RecordHas
<1>13. Len(ix) \in 1 .. Len(ix)
  BY <1>7
<1> DEFINE touched == {records[ix[k]].active : k \in 1 .. Len(ix)} \cup {LastRecord(records, ix).at}
           latest == LastActive(records, ix)
<1>14. touched \in SUBSET (0 .. MaxTime) /\ touched # {}
  BY <1>12, <1>13 DEF LastRecord
<1>15. latest \in touched /\ \A u \in touched : u <= latest
  <2>1. latest = CHOOSE t \in touched : \A u \in touched : u <= t
    BY DEF LastActive
  <2> HIDE DEF touched, latest
  <2>2. \E t \in touched : \A u \in touched : u <= t
    BY <1>1, <1>14, LargestOf
  <2> QED
    BY <2>1, <2>2
<1> HIDE DEF latest
<1>16. latest \in Nat /\ latest + InactiveFor < clock
  BY <1>1, <1>10, <1>14, <1>15 DEF latest
<1>17. ASSUME ordered = "time", NEW k \in 1 .. Len(ix)
       PROVE  records[ix[k]].at <= records[ix[Len(ix)]].at
  <2>1. CASE k = Len(ix)
    BY <1>12, <2>1
  <2>2. CASE k < Len(ix)
    BY <1>1, <1>13, <1>17, <2>2 DEF ByTime, ix
  <2> QED
    BY <1>13, <2>1, <2>2
<1>18. ASSUME ordered = "time", NEW i \in 1 .. Len(records), records[i].sess = s
       PROVE  records[i].at + InactiveFor < clock /\ records[i].active + InactiveFor < clock
  <2>1. PICK k \in 1 .. Len(ix) : ix[k] = i
    BY <1>8, <1>18
  <2>2. records[i].active \in touched /\ records[ix[Len(ix)]].at \in touched
    BY <2>1 DEF LastRecord
  <2> HIDE DEF touched
  <2>3. records[i].active <= latest /\ records[ix[Len(ix)]].at <= latest
    BY <1>15, <2>2
  <2>4. records[i].at <= records[ix[Len(ix)]].at
    BY <1>17, <1>18, <2>1
  <2>5. records[i].at \in Nat /\ records[i].active \in Nat /\ records[ix[Len(ix)]].at \in Nat
    BY <1>12, <1>13, <2>1
  <2>6. clock \in Nat /\ InactiveFor \in Nat
    BY <1>1
  <2> DEFINE a == records[i].at
             b == records[i].active
             c == records[ix[Len(ix)]].at
  <2>7. a \in Nat /\ b \in Nat /\ c \in Nat /\ a <= c /\ c <= latest /\ b <= latest
    BY <2>3, <2>4, <2>5
  <2> HIDE DEF a, b, c
  <2>8. a + InactiveFor < clock /\ b + InactiveFor < clock
    BY <1>16, <2>6, <2>7
  <2> QED
    BY <2>8 DEF a, b
<1> QED
  BY <1>11, <1>18 DEF Position

\* The old file, if there was one, holds a record of one session.
HistoryInv == \E s0 \in Session \cup {0} : Sound(s0)

\* The invariant holds in every reachable state.
LEMMA HistoryInvariant == HistorySpec => []HistoryInv
<1>1. HistoryInit => HistoryInv
  BY SoundInit, HistoryAssumption DEF HistoryInv
<1>2. HistoryInv /\ [HistoryNext]_historyVars => HistoryInv'
  <2> SUFFICES ASSUME HistoryInv, [HistoryNext]_historyVars PROVE HistoryInv'
    OBVIOUS
  <2>1. PICK s0 \in Session \cup {0} : Sound(s0)
    BY DEF HistoryInv
  <2>2. Sound(s0)'
    BY <2>1, SoundStep, HistoryAssumption
  <2> QED
    BY <2>2 DEF HistoryInv
<1> QED
  BY <1>1, <1>2, PTL DEF HistorySpec

\* Through late appends, removals, failing saves, crashes and loads the session
\* history keeps one record of each message and role, its index names the
\* records of each session exactly and in the order it was built in, a range
\* asked for by the bisection is the records of the range, and what is saved is
\* what is in memory.
THEOREM HistoryIsSoundAlways == HistorySpec => []HistoryIsSound
<1>1. HistoryInv => HistoryIsSound
  BY SoundIsSound, HistoryAssumption DEF HistoryInv
<1> QED
  BY <1>1, HistoryInvariant, PTL

\* The cleanup of inactive sessions takes no session that is pinned and, unless
\* the indexes were rebuilt in the order of the slice, none with a record or a
\* touch in the inactivity span.
THEOREM CleanupSparesTheActiveAlways == HistorySpec => CleanupSparesTheActive
<1> DEFINE Spares ==
      \A s \in Session :
        Vanishes(s) /\ CleanupInactiveSessions({}) =>
          /\ \A i \in Position : records[i].sess = s => ~records[i].pinned
          /\ ordered = "time" => \A i \in Position :
               records[i].sess = s =>
                 records[i].at + InactiveFor < clock /\ records[i].active + InactiveFor < clock
<1>1. HistoryInv /\ [HistoryNext]_historyVars => [Spares]_historyVars
  <2>1. HistoryInv => Spares
    BY CleanupSpares, HistoryAssumption DEF HistoryInv
  <2> QED
    BY <2>1
<1>2. CleanupSparesTheActive <=> [][Spares]_historyVars
  BY DEF CleanupSparesTheActive
<1> QED
  BY <1>1, <1>2, HistoryInvariant, PTL DEF HistorySpec


-----------------------------------------------------------------------------
(* The scheduler's jobs *)

\* A whole number of units is at least one.
LEMMA SomeUnits ==
  ASSUME NEW i \in Nat \ {0}, NEW unit \in Nat \ {0}, i % unit = 0
  PROVE  i \div unit \in Nat \ {0}
<1>1. i = (unit * (i \div unit)) + (i % unit)
  OBVIOUS
<1>2. i \div unit \in Int /\ i \div unit >= 0
  OBVIOUS
<1>3. i \div unit # 0
  BY <1>1
<1> QED
  BY <1>2, <1>3

\* What a cron expression says when it was built from an interval.
LEMMA BuiltIsRead ==
  ASSUME NEW n \in Nat \ {0}, NEW unit \in {"minute", "hour", "day"}
  PROVE  LET s == Every(unit, n)
         IN  Parsed(Built(s)) = s /\ Built(s) # NoCron /\ s # NoSpec /\ s.mode = "every"
<1> DEFINE s == Every(unit, n)
<1>1. s = [mode |-> "every", unit |-> unit, n |-> n] /\ s.mode = "every" /\ s.unit = unit /\ s.n = n
  BY DEF Every
<1>2. s # NoSpec
  BY <1>1 DEF NoSpec
<1>3. Star # Num(0) /\ Star # Step(n) /\ Step(n) # Num(0) /\ Num(0) # Star
      /\ Step(n).kind = "step" /\ Step(n).n = n /\ Num(0).kind = "num" /\ Star.kind = "star" /\ Star # Step(0)
  BY DEF Star, Num, Step
<1>4. /\ IsStep(Step(n)) /\ ~IsStep(Num(0)) /\ ~IsStep(Star)
      /\ \A max : ~IsNum(Step(n), max) /\ ~IsNum(Star, max)
  BY <1>3 DEF IsStep, IsNum, Star
<1> HIDE DEF s
<1>5. CASE unit = "minute"
  <2> DEFINE c == Cron(Step(n), Star, Star, Star)
  <2>1. Built(s) = c
    BY <1>1, <1>5 DEF Built
  <2>2. /\ c.minute = Step(n) /\ c.hour = Star /\ c.day = Star /\ c.month = Star /\ c.weekday = Star
    BY DEF Cron
  <2> HIDE DEF c
  <2>3. c # NoCron
    BY <1>3, <2>2 DEF NoCron, Cron
  <2>4. Parsed(c) = Every("minute", n)
    BY <1>3, <1>4, <2>2 DEF Parsed, EveryMinute
  <2> QED
    BY <1>1, <1>2, <1>5, <2>1, <2>3, <2>4 DEF s
<1>6. CASE unit = "hour"
  <2> DEFINE c == Cron(Num(0), Step(n), Star, Star)
  <2>1. Built(s) = c
    BY <1>1, <1>6 DEF Built, HourCron
  <2>2. /\ c.minute = Num(0) /\ c.hour = Step(n) /\ c.day = Star /\ c.month = Star /\ c.weekday = Star
    BY DEF Cron
  <2> HIDE DEF c
  <2>3. c # NoCron
    BY <1>3, <2>2 DEF NoCron, Cron
  <2>4. Parsed(c) = Every("hour", n)
    BY <1>3, <1>4, <2>2 DEF Parsed, EveryMinute
  <2> QED
    BY <1>1, <1>2, <1>6, <2>1, <2>3, <2>4 DEF s
<1>7. CASE unit = "day"
  <2> DEFINE c == Cron(Num(0), Num(0), Step(n), Star)
  <2>1. Built(s) = c
    BY <1>1, <1>7 DEF Built
  <2>2. /\ c.minute = Num(0) /\ c.hour = Num(0) /\ c.day = Step(n) /\ c.month = Star /\ c.weekday = Star
    BY DEF Cron
  <2> HIDE DEF c
  <2>3. c # NoCron
    BY <1>3, <2>2 DEF NoCron, Cron
  <2>4. Parsed(c) = Every("day", n)
    BY <1>3, <1>4, <2>2 DEF Parsed, EveryMinute
  <2> QED
    BY <1>1, <1>2, <1>7, <2>1, <2>3, <2>4 DEF s
<1> QED
  BY <1>5, <1>6, <1>7

\* What is made of an interval is nothing, or some units.
LEMMA IntervalIs ==
  ASSUME CalendarAssumption, NEW i \in Nat \ {0}, FromInterval(i) # NoSpec
  PROVE  \E unit \in {"minute", "hour", "day"}, n \in Nat \ {0} : FromInterval(i) = Every(unit, n)
<1>1. MinuteTicks \in Nat \ {0} /\ HourMinutes \in Nat \ {0} /\ DayHours \in Nat \ {0}
  BY DEF CalendarAssumption
<1>2. HourTicks \in Nat \ {0}
  BY <1>1 DEF HourTicks
<1>3. DayTicks \in Nat \ {0}
  BY <1>1, <1>2 DEF DayTicks
<1>4. i % MinuteTicks = 0
  BY DEF FromInterval
<1>5. CASE i % DayTicks = 0
  <2>1. FromInterval(i) = Every("day", i \div DayTicks)
    BY <1>4, <1>5 DEF FromInterval
  <2> QED
    BY <1>3, <1>5, <2>1, SomeUnits
<1>6. CASE i % HourTicks = 0 /\ i % DayTicks # 0
  <2>1. FromInterval(i) = Every("hour", i \div HourTicks)
    BY <1>4, <1>6 DEF FromInterval
  <2> QED
    BY <1>2, <1>6, <2>1, SomeUnits
<1>7. CASE i % HourTicks # 0 /\ i % DayTicks # 0
  <2>1. FromInterval(i) = Every("minute", i \div MinuteTicks)
    BY <1>4, <1>7 DEF FromInterval
  <2> QED
    BY <1>1, <1>4, <2>1, SomeUnits
<1> QED
  BY <1>5, <1>6, <1>7

\* Normalizing twice is normalizing once.
LEMMA NormalizedIsKept ==
  ASSUME CalendarAssumption, NEW j \in Submitted, Normalized(j) # Invalid
  PROVE  Normalized(Normalized(j)) = Normalized(j)
<1>1. j \in [mode : STRING, cron : CronExpression, interval : Int]
  BY DEF CalendarAssumption
<1> HIDE DEF CronExpression
<1> DEFINE legacy == FromInterval(j.interval)
           k == Normalized(j)
<1>2. CASE j.cron = NoCron /\ j.interval <= 0
  <2>1. Normalized(j) = Invalid
    BY <1>1, <1>2 DEF Normalized
  <2> QED
    BY <2>1
<1>3. CASE j.cron = NoCron /\ j.interval > 0 /\ legacy = NoSpec
  <2>1. Normalized(j) = j
    BY <1>1, <1>3 DEF Normalized
  <2> QED
    BY <2>1
<1>4. CASE j.cron = NoCron /\ j.interval > 0 /\ legacy # NoSpec
  <2>1. j.interval \in Nat \ {0}
    BY <1>1, <1>4
  <2>2. PICK unit \in {"minute", "hour", "day"}, n \in Nat \ {0} : legacy = Every(unit, n)
    BY <1>4, <2>1, IntervalIs
  <2> DEFINE s == Every(unit, n)
             c == Built(s)
  <2>3. Parsed(c) = s /\ c # NoCron /\ s # NoSpec /\ s.mode = "every"
    BY BuiltIsRead
  <2>4. k = [j EXCEPT !.cron = Built(legacy), !.mode = legacy.mode]
    BY <1>1, <1>4 DEF Normalized
  <2> HIDE DEF s, c, k, legacy
  <2>5. legacy = s /\ Built(legacy) = c
    BY <2>2 DEF s, c
  <2>6. k = [j EXCEPT !.cron = c, !.mode = "every"]
    BY <2>3, <2>4, <2>5
  <2>7. k.cron = c /\ k.mode = "every" /\ k.interval = j.interval
    BY <1>1, <2>6
  <2>8. DOMAIN k = {"mode", "cron", "interval"} /\ k = [x \in DOMAIN k |-> k[x]]
    BY <1>1, <2>6
  <2>9. Normalized(k) = ModeOfCron(k, s)
    <3>1. k.cron # NoCron /\ Parsed(k.cron) = s /\ s # NoSpec /\ k.mode \in {"", s.mode}
      BY <2>3, <2>7
    <3> QED
      BY <3>1 DEF Normalized
  <2>10. ModeOfCron(k, s) = [k EXCEPT !.mode = "every", !.interval = j.interval]
    BY <1>4, <2>3, <2>7 DEF ModeOfCron
  <2>11. [k EXCEPT !.mode = "every", !.interval = j.interval] = k
    BY <2>7, <2>8
  <2> QED
    BY <2>9, <2>10, <2>11 DEF k
<1>5. CASE j.cron # NoCron
  <2> DEFINE s == Parsed(j.cron)
             i == IF j.interval > 0 \/ s.mode # "every" THEN j.interval ELSE ToInterval(s)
  <2>1. ~(s = NoSpec \/ j.mode \notin {"", s.mode})
    BY <1>5 DEF Normalized
  <2>2. k = ModeOfCron(j, s)
    BY <1>5, <2>1 DEF Normalized
  <2>3. k = [j EXCEPT !.mode = s.mode, !.interval = i]
    BY <2>2 DEF ModeOfCron
  <2> HIDE DEF s, i, k
  <2>4. k.cron = j.cron /\ k.mode = s.mode /\ k.interval = i
    BY <1>1, <2>3
  <2>5. Normalized(k) = ModeOfCron(k, s)
    <3>1. k.cron # NoCron /\ Parsed(k.cron) = s /\ s # NoSpec /\ k.mode \in {"", s.mode}
      BY <1>5, <2>1, <2>4 DEF s
    <3> QED
      BY <3>1 DEF Normalized
  <2>6. (IF k.interval > 0 \/ s.mode # "every" THEN k.interval ELSE ToInterval(s)) = i
    BY <2>4 DEF i
  <2>7. ModeOfCron(k, s) = [k EXCEPT !.mode = s.mode, !.interval = i]
    BY <2>6 DEF ModeOfCron
  <2>8. [k EXCEPT !.mode = s.mode, !.interval = i] = k
    BY <1>1, <2>3
  <2> QED
    BY <2>5, <2>7, <2>8 DEF k
<1> QED
  BY <1>1, <1>2, <1>3, <1>4, <1>5

\* A job that was accepted is accepted again, unchanged, whenever the store is loaded
\* or its next run is computed (Job.Normalize): it never keeps the program from starting.
THEOREM StoredJobIsKeptAlways == ASSUME CalendarAssumption PROVE SchedSpec => []StoredJobIsKept
<1> DEFINE Inv == given \in Submitted /\ job = Normalized(given)
<1>1. SchedInit => Inv
  BY DEF SchedInit
<1>2. Inv /\ [SchedNext]_schedVars => Inv'
  BY DEF SchedNext, Arm, SetBack, Fire, schedVars
<1>3. Inv => StoredJobIsKept
  BY NormalizedIsKept DEF StoredJobIsKept
<1> QED
  BY <1>1, <1>2, <1>3, PTL DEF SchedSpec
=============================================================================
