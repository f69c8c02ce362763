----------------------------- MODULE MCRecords -----------------------------
(* What overlapping requests submit and rewrite, and failures and crashes  *)
(* cut: the session history, the codex accounts, the model providers and   *)
(* the schedules of jobs, each part on a small instance.  As in            *)
(* MCSessions, a behaviour is one of a single part.                        *)
EXTENDS SessionHistory, CodexAccounts, ModelProviders, Schedule

VARIABLE part

CONSTANTS i1, i2, p1, p2, p3, n1, n2, k1

\* Records of two sessions; the ids of answers order against their questions.
MCRank == [x \in (Message \cup {0}) \X Role |-> IF x[2] = "user" THEN x[1] ELSE 10 - x[1]]
MCFileOf == <<1, 2>>

\* Bound on the states: the first message is one of the first session.
FirstIsOfOne == message[1].sess # 2

MCNames == 1 .. 2

\* The handlers of either part are all alike.
Handlers == Permutations(CodexRequest) \cup Permutations(LlmRequest)

\* A registry whose default is its only provider with a key, or the other one.
Prov(i, n, k, f) == [id |-> i, name |-> n, key |-> k, on |-> TRUE, flag |-> f]
MCRegistries ==
  {Holds(<<Prov(p1, n1, NoKey, TRUE), Prov(p2, n2, k1, FALSE)>>, p1),
   Holds(<<Prov(p1, n1, k1, FALSE), Prov(p2, n2, k1, TRUE)>>, p2)}

\* Two zones that keep their offset, and one that changes it either way.
MCZones ==
  {[before |-> o, after |-> o, at |-> 0] : o \in {0, 3}}
    \cup {[before |-> 0, after |-> 4, at |-> 30], [before |-> 4, after |-> 0, at |-> 30]}

\* What the page builds, and expressions it does not build.
Specs ==
  {Every(u, n) : u \in {"minute", "hour", "day"}, n \in 1 .. 4}
    \cup {Daily(1, 0), Daily(1, 2), Weekly(1, 1, 0)}
Crons ==
  {Built(s) : s \in Specs} \cup {Cron(Num(0), Num(1), Star, Num(w)) : w \in 1 .. 3}
    \cup {Cron(Num(3), Num(1), Star, Star), Cron(Star, Star, Star, Star),
          Cron(Num(1), Num(0), Step(2), Star)}
MCSubmitted ==
  {[mode |-> "", cron |-> NoCron, interval |-> i] : i \in 0 .. 38}
    \cup {[mode |-> m, cron |-> c, interval |-> i] : m \in {"", "daily"}, c \in Crons, i \in {0, 7}}

\* Each account has its own record, and the second is the active one.
Init ==
  /\ part \in {"history", "accounts", "providers", "schedule"}
  /\ HistoryInit
  /\ accountRecords = <<[who |-> i1, gen |-> 0], [who |-> i2, gen |-> 0]>>
  /\ live = [who |-> i2, gen |-> 0] /\ CodexInit
  /\ ProvidersInit /\ (part # "providers" => stored = NoRegistry)
  /\ part # "schedule" => /\ given = [mode |-> "", cron |-> NoCron, interval |-> 1]
                          /\ zone = [before |-> 0, after |-> 0, at |-> 0]
                          /\ wallClock = 1
  /\ SchedInit

Next ==
  \/ part = "history" /\ HistoryNext /\ UNCHANGED <<part, codexVars, llmVars, schedVars>>
  \/ part = "accounts" /\ CodexNext /\ UNCHANGED <<part, historyVars, llmVars, schedVars>>
  \/ part = "providers" /\ ProvidersNext /\ UNCHANGED <<part, historyVars, codexVars, schedVars>>
  \/ part = "schedule" /\ SchedNext /\ UNCHANGED <<part, historyVars, codexVars, llmVars>>

Spec == Init /\ [][Next]_<<part, historyVars, codexVars, llmVars, schedVars>>
=============================================================================
