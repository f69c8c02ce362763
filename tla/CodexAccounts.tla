--------------------------- MODULE CodexAccounts ---------------------------
(***************************************************************************)
(* The codex accounts: internal/codex/application/service.go, the store in *)
(* internal/codex/infrastructure/localfile/store.go and the handlers of    *)
(* internal/interfaces/web/server.go.                                      *)
(*                                                                         *)
(* The program keeps the credentials of several accounts as records and    *)
(* makes one of them active by writing it to the auth.json the command     *)
(* line tool reads.  The provider rotates a credential when it is          *)
(* refreshed, by this program or by the tool, and accepts the newest only. *)
(* The store has a lock for one call; nothing guards auth.json, and every  *)
(* handler works with records it read some steps ago.                      *)
(***************************************************************************)
EXTENDS Naturals, FiniteSets

CONSTANTS
  Ident,         \* the accounts at the provider
  AccountName,   \* names of records, in the order of their list: 1 .. n
  CodexRequest,  \* requests under way at once
  Asks,          \* the requests that are made: kinds of CodexKind
  MaxGen,        \* bound: refreshes of one credential
  MaxAsked,      \* bound: requests
  MaxCodexFaults \* bound: calls of the file system that fail

CodexKind == {"accounts", "status", "switch", "import", "login"}
ASSUME CodexAssumption ==
  /\ AccountName \subseteq Nat \ {0} /\ Asks \subseteq CodexKind /\ MaxGen \in Nat /\ MaxAsked \in Nat
  /\ MaxCodexFaults \in Nat
  /\ "none" \notin Ident /\ "empty" \notin Ident      \* they mark an auth.json without an account

Cred == [who : Ident, gen : 0 .. MaxGen]
NoCred == [who |-> "none", gen |-> 0]
Empty == [who |-> "empty", gen |-> 0]       \* an auth.json that is being written
AuthContent == Cred \cup {NoCred, Empty}
Unnamed == 0
Names == AccountName \cup {Unnamed}

VARIABLES
  accountRecords,  \* <root>/accounts: the credential saved under a name, or NoCred
  live,            \* auth.json of the active home
  aside,           \* auth.json.bak, while a switch replaces auth.json
  draft,           \* auth.json.tmp
  backups,         \* <root>/backups
  newestAuth,      \* at the provider: the generation it accepts
  ask,             \* the requests
  asked,           \* how many there were
  codexFaults      \* how many calls of the file system failed

codexVars == <<accountRecords, live, aside, draft, backups, newestAuth, ask, asked, codexFaults>>
authFile == <<live, aside, draft>>

Nothing == [at |-> "idle", kind |-> "none", name |-> Unnamed, cred |-> NoCred, overwrite |-> FALSE,
            copies |-> [n \in AccountName |-> NoCred], todo |-> {}, managed |-> Unnamed,
            seen |-> NoCred, file |-> "none", cancelled |-> FALSE, alone |-> TRUE]

\* r takes a step; what it changes makes the others' reads stale
\* (that the backup file goes changes nothing anyone has read).
Unseen ==
  /\ UNCHANGED <<accountRecords, live, draft, newestAuth>>
  /\ aside' \in {aside, NoCred}
Beside(a) == [a EXCEPT !.alone = @ /\ (Unseen \/ a.at = "idle")]
RequestGoes(r, a) ==
  ask' = [q \in CodexRequest |-> IF q = r THEN a ELSE Beside(ask[q])]
\* The file a request has open is renamed or removed by r, which goes on.
Renamed(r, at, to) ==
  ask' = [q \in CodexRequest |->
            IF q = r THEN [ask[q] EXCEPT !.at = at]
            ELSE [Beside(ask[q]) EXCEPT !.file = to[@], !.alone = @ /\ to[ask[q].file] = ask[q].file]]
Goto(r, at) == RequestGoes(r, [ask[r] EXCEPT !.at = at])
Leaves(r) == RequestGoes(r, Nothing)

Usable(c) == c \in Cred
Stored == {n \in AccountName : accountRecords[n] # NoCred}
Least(S) == CHOOSE n \in S : \A m \in S : n <= m
NewerThan(c, d) == c.gen > d.gen

\* Opening, writing and renaming a file may fail; removing one does not.
Works == UNCHANGED codexFaults
Fails == codexFaults < MaxCodexFaults /\ codexFaults' = codexFaults + 1

\* Store.Save with overwrite, and without it.  When it fails the record is what
\* it was, or it is gone: it was moved to a backup file, which no list reads,
\* and could not be moved back.
Save(n, c) == accountRecords' = [accountRecords EXCEPT ![n] = c]
SaveFailed(n) == accountRecords' \in {accountRecords, [accountRecords EXCEPT ![n] = NoCred]}
Taken(n) == n \in Stored

(***************************************************************************)
(* Quota queries: QueryQuota with refreshTokens                            *)
(***************************************************************************)

\* What a query of credential c comes to: what it saves, NoCred for nothing.
\* The credential still serves, it is refreshed, or the provider refuses it;
\* when the quota cannot be fetched the refreshed credential is dropped.
Queried(c, saves) ==
  \/ saves \in {c, NoCred} /\ UNCHANGED newestAuth
  \/ /\ Usable(c) /\ c.gen = newestAuth[c.who] /\ c.gen < MaxGen
     /\ newestAuth' = [newestAuth EXCEPT ![c.who] = @ + 1]
     /\ saves \in {[c EXCEPT !.gen = @ + 1], NoCred}

(***************************************************************************)
(* GET of the accounts: ListStatuses, then RuntimeStatus                   *)
(***************************************************************************)

\* store.List
ListRecords(r) ==
  /\ ask[r].at = "list"
  /\ UNCHANGED <<accountRecords, authFile, backups, newestAuth, asked, codexFaults>>
  /\ RequestGoes(r, [ask[r] EXCEPT !.at = "current", !.copies = accountRecords, !.todo = Stored])

\* Current: the live account, and the record it belongs to: the one with the
\* same content, or the first of the same account.
ManagedBy(c) ==
  LET same == {n \in Stored : accountRecords[n] = c}
      kin == {n \in Stored : accountRecords[n].who = c.who}
  IN IF same # {} THEN Least(same) ELSE IF kin # {} THEN Least(kin) ELSE Unnamed
ReadCurrent(r) ==
  /\ ask[r].at \in {"current", "runtime"}
  /\ UNCHANGED <<accountRecords, authFile, backups, newestAuth, asked, codexFaults>>
  /\ IF live = Empty
     THEN Leaves(r)
     ELSE RequestGoes(r, [ask[r] EXCEPT
            !.at = IF @ = "current" THEN "records" ELSE "quota",
            !.seen = live,
            !.managed = IF live = NoCred THEN Unnamed ELSE ManagedBy(live)])

\* One record of the list: its quota ...
QueryRecord(r) ==
  /\ ask[r].at = "records" /\ ask[r].todo # {}
  /\ UNCHANGED <<accountRecords, authFile, backups, asked, codexFaults>>
  /\ LET n == Least(ask[r].todo) IN
       \E c \in AuthContent :
         /\ Queried(ask[r].copies[n], c)
         /\ IF c = NoCred
            THEN RequestGoes(r, [ask[r] EXCEPT !.todo = @ \ {n}])
            ELSE RequestGoes(r, [ask[r] EXCEPT !.at = "save", !.cred = c])
\* ... and the record saved with the plan and the refreshed credential.  The
\* list goes on without what it could not save.
SaveRecord(r) ==
  /\ ask[r].at = "save"
  /\ UNCHANGED <<authFile, backups, newestAuth, asked>>
  /\ LET n == Least(ask[r].todo) IN
       /\ \/ Works /\ Save(n, ask[r].cred)
          \/ Fails /\ SaveFailed(n)
       /\ RequestGoes(r, [ask[r] EXCEPT !.at = "records", !.todo = @ \ {n}, !.cred = NoCred])

\* populateCurrentQuota: the list has the managed record's quota; RuntimeStatus
\* passes no list, so it queries the live credential.
AfterRecords(r) ==
  /\ ask[r].at = "records" /\ ask[r].todo = {}
  /\ UNCHANGED <<accountRecords, authFile, backups, newestAuth, asked, codexFaults>>
  /\ IF ask[r].managed = Unnamed THEN Goto(r, "quota")
     ELSE IF ask[r].kind = "accounts" THEN RequestGoes(r, [ask[r] EXCEPT !.at = "runtime", !.kind = "status"])
     ELSE Leaves(r)
\* What follows the live quota: RuntimeStatus after the list of a GET.
Then(a) ==
  IF a.kind = "accounts" THEN [Nothing EXCEPT !.at = "runtime", !.kind = "status", !.alone = a.alone]
  ELSE Nothing
QueryLive(r) ==
  /\ ask[r].at = "quota"
  /\ UNCHANGED <<accountRecords, authFile, backups, asked, codexFaults>>
  /\ IF ask[r].seen = NoCred \/ ~Usable(live)
     THEN UNCHANGED newestAuth /\ RequestGoes(r, Then(ask[r]))
     ELSE \E c \in AuthContent :
            /\ Queried(live, c)
            /\ IF newestAuth' = newestAuth \/ c = NoCred
               THEN RequestGoes(r, Then(ask[r]))
               ELSE RequestGoes(r, [ask[r] EXCEPT !.at = "truncate", !.cred = c])
\* os.WriteFile of the refreshed credential: the file is emptied, then written;
\* a switch in between has replaced the file.  Either may fail, and the answer
\* has the error.
TruncateLive(r) ==
  /\ ask[r].at = "truncate"
  /\ UNCHANGED <<accountRecords, aside, draft, backups, newestAuth, asked>>
  /\ \/ Works /\ live' = Empty /\ RequestGoes(r, [ask[r] EXCEPT !.at = "fill", !.file = "live"])
     \/ Fails /\ UNCHANGED live /\ RequestGoes(r, Then(ask[r]))
FillLive(r) ==
  /\ ask[r].at = "fill"
  /\ UNCHANGED <<accountRecords, draft, backups, newestAuth, asked>>
  /\ \/ /\ Works
        /\ live' = IF ask[r].file = "live" THEN ask[r].cred ELSE live
        /\ aside' = IF ask[r].file = "aside" THEN ask[r].cred ELSE aside
     \/ Fails /\ UNCHANGED <<live, aside>>
  /\ RequestGoes(r, Then(ask[r]))

(***************************************************************************)
(* POST of a switch: Switch, then ListStatuses                             *)
(***************************************************************************)

LoadRecord(r) ==
  /\ ask[r].at = "load"
  /\ UNCHANGED <<accountRecords, authFile, backups, newestAuth, asked, codexFaults>>
  /\ IF Taken(ask[r].name)
     THEN RequestGoes(r, [ask[r] EXCEPT !.at = "compare", !.cred = accountRecords[ask[r].name]])
     ELSE Leaves(r)

\* The live credential is the record's, a newer one of the same account, or
\* another one, which is backed up first.
SameCredential(c, d) == c = d
Adopts(c, d) == c.who = d.who /\ NewerThan(c, d)
NotBackedUp(c) == backups
BackedUp(c) == backups \cup ({c} \ {NoCred, Empty})
CompareLive(r) ==
  /\ ask[r].at = "compare"
  /\ UNCHANGED <<accountRecords, authFile, newestAuth, asked>>
  /\ LET c == ask[r].cred
         next == [ask[r] EXCEPT !.seen = live]
     IN IF Usable(live) /\ (SameCredential(live, c) \/ Adopts(live, c))
        THEN /\ RequestGoes(r, [next EXCEPT !.at = "switched", !.cred = live])
             /\ Works /\ UNCHANGED backups
        ELSE \/ Works /\ backups' = BackedUp(live) /\ RequestGoes(r, [next EXCEPT !.at = "draft"])
             \/ Fails /\ live # NoCred /\ UNCHANGED backups /\ Goto(r, "failed")

\* WriteFileWithBackup, one file operation at a time.  A draft that could not be
\* written stays as it is; when a rename fails it is removed.
WriteDraft(r) ==
  /\ ask[r].at = "draft"
  /\ UNCHANGED <<accountRecords, live, aside, backups, newestAuth, asked>>
  /\ \/ Works /\ draft' = ask[r].cred /\ Goto(r, "move")
     \/ Fails /\ draft' \in {draft, Empty} /\ Goto(r, "failed")
MoveAside(r) ==
  /\ ask[r].at = "move"
  /\ UNCHANGED <<accountRecords, backups, newestAuth, asked>>
  /\ \/ /\ Works /\ aside' = live /\ live' = NoCred /\ UNCHANGED draft
        /\ Renamed(r, "put", [none |-> "none", live |-> "aside", aside |-> "gone", gone |-> "gone"])
     \/ /\ Fails /\ live # NoCred /\ aside' = NoCred /\ draft' = NoCred /\ UNCHANGED live
        /\ Renamed(r, "failed", [none |-> "none", live |-> "live", aside |-> "gone", gone |-> "gone"])
\* The draft is put in place, or, when that fails or another switch has taken the
\* draft, the backup file, which may fail in turn and leaves no auth.json.
Put(r) ==
  /\ ask[r].at = "put"
  /\ UNCHANGED <<accountRecords, backups, newestAuth, asked>>
  /\ draft' = NoCred
  /\ \/ /\ Works /\ draft # NoCred
        /\ live' = draft /\ UNCHANGED aside
        /\ Renamed(r, "tidy", [none |-> "none", live |-> "gone", aside |-> "aside", gone |-> "gone"])
     \/ /\ Fails \/ (Works /\ draft = NoCred)
        /\ aside # NoCred /\ live' = aside /\ aside' = NoCred
        /\ Renamed(r, "failed", [none |-> "none", live |-> "gone", aside |-> "live", gone |-> "gone"])
     \/ /\ Fails \/ (Works /\ draft = NoCred /\ aside = NoCred)
        /\ UNCHANGED <<live, aside>> /\ Goto(r, "failed")
Tidy(r) ==
  /\ ask[r].at = "tidy"
  /\ UNCHANGED <<accountRecords, live, draft, backups, newestAuth, asked, codexFaults>>
  /\ aside' = NoCred
  /\ Renamed(r, "switched", [none |-> "none", live |-> "live", aside |-> "gone", gone |-> "gone"])
SaveSwitched(r) ==
  /\ ask[r].at = "switched"
  /\ UNCHANGED <<authFile, backups, newestAuth, asked>>
  /\ \/ Works /\ Save(ask[r].name, ask[r].cred) /\ Goto(r, "answer")
     \/ Fails /\ SaveFailed(ask[r].name) /\ Goto(r, "failed")
AnswerSwitch(r) ==
  /\ ask[r].at = "answer"
  /\ UNCHANGED <<accountRecords, authFile, backups, newestAuth, asked, codexFaults>>
  /\ RequestGoes(r, [Nothing EXCEPT !.at = "list", !.kind = "switch", !.alone = ask[r].alone])

(***************************************************************************)
(* POST of an account, and a login that ends with one: AddFromRaw          *)
(***************************************************************************)

\* resolveRecordName: a name that is free when it is looked for.
ResolveName(r) ==
  /\ ask[r].at = "name"
  /\ UNCHANGED <<accountRecords, authFile, backups, newestAuth, asked, codexFaults>>
  /\ IF ask[r].name = Unnamed /\ AccountName = Stored
     THEN Leaves(r)                        \* bound: no name is left
     ELSE RequestGoes(r, [ask[r] EXCEPT !.at = "add",
                     !.name = IF @ = Unnamed THEN Least(AccountName \ Stored) ELSE @])

\* Store.Save looks again, under its lock; what it cannot save it reports.
Declined(a) == ~a.overwrite /\ Taken(a.name)
Add(r) ==
  /\ ask[r].at = "add"
  /\ UNCHANGED <<authFile, backups, newestAuth, asked>>
  /\ IF Declined(ask[r]) THEN Works /\ UNCHANGED accountRecords
     ELSE \/ Works /\ Save(ask[r].name, ask[r].cred)
          \/ Fails /\ SaveFailed(ask[r].name)
  /\ Leaves(r)

\* StartLoginSession has answered; the goroutine runs the login command with
\* the context of the request.
RunLogin(r) ==
  /\ ask[r].at = "starting"
  /\ UNCHANGED <<accountRecords, authFile, backups, newestAuth, asked, codexFaults>>
  /\ Goto(r, "running")
\* The handler returns: the context is cancelled.
EndOfRequest(r) ==
  /\ ask[r].at \in {"starting", "running"} /\ ~ask[r].cancelled
  /\ UNCHANGED <<accountRecords, authFile, backups, newestAuth, asked, codexFaults>>
  /\ RequestGoes(r, [ask[r] EXCEPT !.cancelled = TRUE])
\* The user completes the login, or the command fails by itself.
LoggedIn(r) ==
  /\ ask[r].at = "running"
  /\ UNCHANGED <<accountRecords, authFile, backups, newestAuth, asked, codexFaults>>
  /\ \/ \E i \in Ident : RequestGoes(r, [ask[r] EXCEPT !.at = "name", !.cred = [who |-> i, gen |-> newestAuth[i]]])
     \/ Goto(r, "failed")
\* exec.CommandContext kills the command of a cancelled context.
KilledWithRequest(r) ==
  /\ ask[r].at = "running" /\ ask[r].cancelled
  /\ UNCHANGED <<accountRecords, authFile, backups, newestAuth, asked, codexFaults>>
  /\ Goto(r, "killed")
Over(r) ==
  /\ ask[r].at \in {"failed", "killed"}
  /\ UNCHANGED <<accountRecords, authFile, backups, newestAuth, asked, codexFaults>>
  /\ Leaves(r)

(***************************************************************************)
(* The requests                                                            *)
(***************************************************************************)

FirstStep == [accounts |-> "list", status |-> "runtime", switch |-> "load",
              import |-> "name", login |-> "starting"]
\* ensureNameAvailable refuses a login for a name that is taken.
Ask(r) ==
  /\ ask[r] = Nothing /\ asked < MaxAsked /\ asked' = asked + 1
  /\ UNCHANGED <<accountRecords, authFile, backups, newestAuth, codexFaults>>
  /\ \E k \in Asks, n \in Names, o \in BOOLEAN, i \in Ident :
       /\ k = "switch" => n # Unnamed /\ ~o
       /\ k \in {"accounts", "status"} => n = Unnamed /\ ~o
       /\ n = Unnamed => ~o
       /\ k = "login" => n = Unnamed \/ o \/ ~Taken(n)
       /\ RequestGoes(r, [Nothing EXCEPT
            !.at = FirstStep[k], !.kind = k, !.name = n, !.overwrite = o,
            !.cred = IF k = "import" THEN [who |-> i, gen |-> newestAuth[i]] ELSE NoCred])

\* The command line tool refreshes the credential it uses.
ToolRefreshes ==
  /\ Usable(live) /\ live.gen = newestAuth[live.who] /\ live.gen < MaxGen
  /\ UNCHANGED <<accountRecords, aside, draft, backups, asked, codexFaults>>
  /\ newestAuth' = [newestAuth EXCEPT ![live.who] = @ + 1]
  /\ live' = [live EXCEPT !.gen = @ + 1]
  /\ ask' = [q \in CodexRequest |-> Beside(ask[q])]

CodexInit ==
  /\ newestAuth = [i \in Ident |-> 0]
  /\ LET c == {NoCred} \cup {[who |-> i, gen |-> 0] : i \in Ident}
     IN accountRecords \in [AccountName -> c] /\ live \in c
  /\ aside = NoCred /\ draft = NoCred /\ backups = {}
  /\ ask = [r \in CodexRequest |-> Nothing] /\ asked = 0 /\ codexFaults = 0

CodexRequestStep(r) ==
  \/ ListRecords(r) \/ ReadCurrent(r) \/ QueryRecord(r) \/ SaveRecord(r) \/ AfterRecords(r)
  \/ QueryLive(r) \/ TruncateLive(r) \/ FillLive(r)
  \/ LoadRecord(r) \/ CompareLive(r) \/ WriteDraft(r) \/ MoveAside(r) \/ Put(r) \/ Tidy(r)
  \/ SaveSwitched(r) \/ AnswerSwitch(r) \/ ResolveName(r) \/ Add(r)
  \/ RunLogin(r) \/ EndOfRequest(r) \/ KilledWithRequest(r) \/ Over(r)
CodexNext ==
  \/ ToolRefreshes
  \/ \E r \in CodexRequest : Ask(r) \/ CodexRequestStep(r) \/ LoggedIn(r)
CodexSpec == CodexInit /\ [][CodexNext]_codexVars

(***************************************************************************)
(* Properties                                                              *)
(***************************************************************************)

\* The types; a record is never the empty file a reader may meet.
CodexTypeOK ==
  /\ accountRecords \in [AccountName -> Cred \cup {NoCred}]
  /\ {live, aside, draft} \subseteq AuthContent /\ backups \subseteq Cred
  /\ newestAuth \in [Ident -> 0 .. MaxGen]
  /\ \A r \in CodexRequest : ask[r].cred \in AuthContent /\ ask[r].name \in Names

\* The credential the provider accepts is somewhere; a backup file of auth.json
\* counts while a switch may still put it back.
Held(i) ==
  [who |-> i, gen |-> newestAuth[i]] \in
    {accountRecords[n] : n \in AccountName} \cup {live, draft} \cup backups
    \cup {c \in {aside} : \E r \in CodexRequest : ask[r].at \in {"put", "tidy"}}
    \cup {ask[r].cred : r \in {q \in CodexRequest : ask[q].at \in {"save", "truncate", "fill"}}}

\* A switch that was overtaken and is replacing auth.json: its temporary and
\* its backup file may have the only copy of what it did not back up.
Overtaken(r) == ask[r].at \in {"move", "put", "tidy"} /\ ~ask[r].alone

\* A query could not save what it got: the code reports it and keeps nothing.
NotSaved(r, i) ==
  /\ ask[r].at \in {"save", "truncate", "fill"} /\ ask[r].cred.who = i
  /\ Fails

\* A step never drops the only copy of a credential the provider accepts
\* (service.go 404-618), unless the request was overtaken by another writer,
\* it meets the files of a switch that was, it replaces a record on request,
\* the refresh itself got no quota, or the request cannot write the very
\* credential it queried (442-444, 497-499).  A switch and an import that fail
\* at whichever write lose nothing.
HeldUnlessRaced ==
  [][\A i \in Ident : Held(i) /\ ~Held(i)' =>
       \/ newestAuth'[i] # newestAuth[i]
       \/ \E r \in CodexRequest :
            ask'[r].at # ask[r].at /\ (~ask[r].alone \/ ask[r].overwrite \/ NotSaved(r, i))
       \/ \E r \in CodexRequest : Overtaken(r)]_codexVars

\* An import or a login never replaces a record unless asked to, whoever took
\* its name since it was looked for (service.go 333-357, store.go 42-64).
NothingReplacedUnasked ==
  [][\A n \in AccountName, r \in CodexRequest :
       ask[r].at = "add" /\ ask'[r].at # "add" /\ accountRecords[n] # NoCred /\ accountRecords'[n] # accountRecords[n]
         => ask[r].overwrite]_codexVars

\* A switch that is answered, and that nobody overtook, has made the account
\* of the record active with the newest credential of the two, and the record
\* has it too (service.go 565-618).
SwitchTakesEffect ==
  \A r \in CodexRequest : ask[r].at = "answer" /\ ask[r].alone =>
    /\ live = accountRecords[ask[r].name] /\ live = ask[r].cred
    /\ ask[r].seen.who = live.who => ~NewerThan(ask[r].seen, live)

\* How the accounts come through requests that overlap and writes that fail:
\* what is lost is lost in the ways HeldUnlessRaced names, and only then.
AccountsAreKept ==
  HeldUnlessRaced /\ NothingReplacedUnasked /\ []SwitchTakesEffect /\ []CodexTypeOK

=============================================================================
