------------------------------ MODULE SessionTitles ------------------------------
(***************************************************************************)
(* The title of a chat.  It starts as "New", follows the inputs while they *)
(* say more than the title does, and belongs to whoever named the chat or  *)
(* to the command line tool as soon as that names its thread.  A restart   *)
(* reads it back, from records of older versions too, and may repair it.   *)
(***************************************************************************)
EXTENDS Integers, Sequences, FiniteSets, SequencesExt, FiniteSetsExt

CONSTANTS
  Prompts,          \* what users write and tools name: sequences of clauses
  OldRecords,       \* records of older versions, without some of the flags
  IdText,           \* the id of the chat as a title
  TitleLength,      \* the longest title
  MaxInputs,        \* bound: inputs
  MaxTitleRestarts  \* bound: restarts

VARIABLES
  title,                   \* what the session list shows
  auto, manual, external,  \* may follow the inputs; named by a user; named by the tool
  score,                   \* how much the title says
  prompts,                 \* the inputs of the turns, in order
  turning,                 \* a turn is running
  origin,                  \* where the title came from
  titleRestarts

titleVars == <<title, auto, manual, external, score, prompts, turning, origin, titleRestarts>>

-----------------------------------------------------------------------------
(* Texts.  A clause has the kinds of words it contains, its length, and    *)
(* what follows a connector in it; a text has those of its clauses.        *)

Word == {"verb", "repo", "action", "technical", "sign", "constraint", "again"}

SubClauses == [words : SUBSET Word, len : Nat, rest : {<<>>}]
Clauses    == [words : SUBSET Word, len : Nat, rest : Seq(SubClauses)]

ASSUME TitlesAssumption ==
  /\ {TitleLength, MaxInputs, MaxTitleRestarts} \subseteq Nat /\ TitleLength >= 3
  /\ Prompts \subseteq Seq(Clauses) /\ \A r \in OldRecords : r.score \in Nat

Words(text)  == UNION {text[n].words : n \in DOMAIN text}
Length(text) == LET upTo[n \in 0 .. Len(text)] == IF n = 0 THEN 0 ELSE upTo[n - 1] + text[n].len
                IN  upTo[Len(text)]

NewTitle == <<[words |-> {}, len |-> 3, rest |-> <<>>]>>
Dots     == [words |-> {"sign"}, len |-> 3, rest |-> <<>>]

Bootstrap(text) == {"verb", "repo"} \subseteq Words(text)
FollowUp(text)  == Len(text) = 1 /\ "again" \in Words(text)
Supplemental(text) == "constraint" \in Words(text)

\* trimSessionBootstrapPrefix: "pull the repository, then ..." is about what follows.
WithoutBootstrap(text) ==
  IF text = <<>> \/ ~Bootstrap(<<Head(text)>>) THEN text
  ELSE IF Head(text).rest # <<>> THEN Head(text).rest \o Tail(text)
  ELSE IF Len(text) > 1 THEN Tail(text) ELSE text

When(condition, points) == IF condition THEN points ELSE 0
AtLeastZero(n) == IF n < 0 THEN 0 ELSE n

\* scoreSessionTitle
Score(text) ==
  IF text = <<>> THEN 0
  ELSE LET length == Length(text)
       IN  AtLeastZero(1 + When(length >= 6, 1) + When(length >= 10, 1)
             + When("action" \in Words(text), 2) + When("technical" \in Words(text), 2)
             + When("sign" \in Words(text), 1)
             - When(Bootstrap(text), 4) - When(FollowUp(text), 3) - When(length <= 4, 2))

Stable == 5

\* truncateSessionTitle; a cut falls between clauses.
Truncated(text) ==
  IF Length(text) <= TitleLength THEN text
  ELSE LET fits == {n \in 0 .. Len(text) : Length(SubSeq(text, 1, n)) <= TitleLength - 3}
       IN  Append(SubSeq(text, 1, Max(fits)), Dots)

\* buildAutoSessionTitle
BuiltTitle(text) ==
  LET said == WithoutBootstrap(text)
      points == Score(said)
  IN  IF points = 0 THEN [title |-> Truncated(text), score |-> 0, auto |-> TRUE]
      ELSE [title |-> Truncated(said), score |-> points, auto |-> points < Stable]

Default(text) == text \in {NewTitle, IdText}

\* inferAutoSessionTitleState
InferredAuto(text) ==
  IF text = <<>> \/ Default(text) THEN [auto |-> TRUE, score |-> 0]
  ELSE LET points == Score(WithoutBootstrap(text))
       IN  [score |-> points,
            auto |-> points < Stable /\ (WithoutBootstrap(text) # text \/ Bootstrap(text) \/ FollowUp(text))]

\* inferManualSessionTitleState
InferredManual(text, isAuto, points) ==
  /\ ~isAuto /\ text \notin {<<>>, IdText} /\ points = 0
  /\ ~InferredAuto(text).auto /\ InferredAuto(text).score = 0

-----------------------------------------------------------------------------
(* The title. *)

Untouched == [title |-> title, auto |-> auto, score |-> score]

\* nextAutoSessionTitle
TakesOver(built) ==
  \/ Default(title) /\ built.title # title
  \/ /\ ~Default(title) \/ built.title = title
     /\ ~(score > 0 /\ Supplemental(built.title))
     /\ \/ built.score > score
        \/ built.score = score /\ Length(built.title) > Length(title) + 4

HasName == manual   \* mutant: the tool's name is not held
GivenName   == manual \/ external

Followed(text) == IF ~GivenName /\ TakesOver(BuiltTitle(text)) THEN BuiltTitle(text) ELSE Untouched

IsNow(t) == title' = t.title /\ auto' = t.auto /\ score' = t.score

Nameless == /\ title = NewTitle /\ auto = TRUE /\ manual = FALSE /\ score = 0
            /\ origin = "default"

\* Create, with a title or without; RecoverSession; or the record of an older version.
TitlesInit ==
  /\ prompts = <<>> /\ turning = FALSE /\ titleRestarts = 0 /\ external = FALSE
  /\ \/ Nameless
     \/ /\ title \in Prompts /\ auto = FALSE /\ manual = TRUE /\ score = 0
        /\ origin = "user"
     \/ /\ title \in Prompts /\ auto = InferredAuto(title).auto /\ score = InferredAuto(title).score
        /\ manual = InferredManual(title, auto, score)
        /\ origin = "unknown"
     \/ \E r \in OldRecords :
          /\ title = r.title
          /\ auto   = IF r.auto = {} THEN InferredAuto(r.title).auto ELSE TRUE \in r.auto
          /\ score  = IF r.auto = {} THEN InferredAuto(r.title).score ELSE r.score
          /\ manual = IF r.auto = {} THEN FALSE ELSE InferredManual(r.title, auto, score)
          /\ origin = "unknown"

\* An input starts a turn, and the title may follow it.
TitledInput(text) ==
  /\ ~turning /\ Len(prompts) < MaxInputs
  /\ IsNow(Followed(text))
  /\ origin' = IF title' = title THEN origin ELSE "input"
  /\ prompts' = Append(prompts, text) /\ turning' = TRUE
  /\ UNCHANGED <<manual, external, titleRestarts>>

\* applyExternalThreadTitleLocked: while a turn runs, the tool may name its thread.
Name(text) ==
  /\ turning
  /\ title' = text /\ auto' = FALSE /\ score' = 0 /\ external' = TRUE
  /\ origin' = "tool"
  /\ UNCHANGED <<manual, prompts, turning, titleRestarts>>

EndTurn == /\ turning /\ turning' = FALSE
           /\ UNCHANGED <<title, auto, manual, external, score, prompts, origin, titleRestarts>>

\* repairSupplementalConstraintAutoSessionTitle: the first turn that says something
\* else gives the title.
Better(n) == LET built == BuiltTitle(prompts[n])
             IN  ~Supplemental(built.title) /\ built.score > 0 /\ built.title # title
Repairable == ~GivenName /\ Supplemental(title) /\ \E n \in DOMAIN prompts : Better(n)
Repaired == BuiltTitle(prompts[Min({n \in DOMAIN prompts : Better(n)})])

\* A restart restores the record, in which every flag is written down.
Restart ==
  /\ titleRestarts < MaxTitleRestarts /\ titleRestarts' = titleRestarts + 1
  /\ turning' = FALSE
  /\ \/ Repairable /\ IsNow(Repaired) /\ manual' = FALSE /\ origin' = "input"
     \/ ~Repairable /\ UNCHANGED <<title, auto, score, manual, origin>>
  /\ UNCHANGED <<external, prompts>>

TitlesNext == \/ \E text \in Prompts : TitledInput(text) \/ Name(text)
              \/ EndTurn \/ Restart

TitlesSpec == TitlesInit /\ [][TitlesNext]_titleVars

-----------------------------------------------------------------------------
(* Properties. *)

\* Every variable has its type.
TitlesTypeOK ==
  /\ {auto, manual, external, turning} \subseteq BOOLEAN
  /\ score \in 0 .. 8 /\ origin \in {"default", "user", "input", "tool", "unknown"}
  /\ Words(title) \subseteq Word /\ Length(title) <= TitleLength + 3
  /\ titleRestarts \in 0 .. MaxTitleRestarts

\* A name is kept: what a user called the chat when it was created, or what the tool
\* last called it, gives way to nothing but the tool's next name, through every later
\* input and every restart.
NamesAreKept ==
  [][(origin \in {"user", "tool"} /\ title' # title) => (origin' = "tool")]_titleVars

\* A title that follows the inputs says as much as any of them did, but for those that
\* only add a constraint, and until a restart repairs it.  (Unless one of them gave the
\* chat its id for a title, which counts as none and gives way to any other.)
TitleSaysTheMost ==
  /\ origin = "input" /\ titleRestarts = 0
  /\ \A n \in DOMAIN prompts : BuiltTitle(prompts[n]).title # IdText
  => \A n \in DOMAIN prompts : LET built == BuiltTitle(prompts[n])
                               IN  built.score <= score \/ Supplemental(built.title)

\* The title of a chat is a name it was given, or says what it is about.
TitlesAreKept == NamesAreKept /\ []TitleSaysTheMost

=============================================================================
