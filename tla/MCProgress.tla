----------------------------- MODULE MCProgress -----------------------------
(* What must come to an end or catch up: the turns of a chat, a page that    *)
(* follows the feed of updates, the requests that start and stop workspace  *)
(* services, a call of the app-server, the runners of the scheduler, each   *)
(* part on a small instance.  As in MCSessions, a behaviour is one of a      *)
(* single part.                                                              *)
EXTENDS MCChatRuntime, UpdateBroker, WorkspaceServices, AppServer, JobManager

VARIABLE part

CONSTANTS o1, o2

\* A behaviour of the chat keeps to one of these: every operation on one prompt,
\* two prompts that overlap deletions, and two that overlap the stop.
ChatInstances ==
  [chat1 |-> [ops |-> {"open", "inputRepo", "retry", "delete", "stop"}, prompts |-> 1],
   chat2 |-> [ops |-> {"open", "inputRepo", "retry", "delete"}, prompts |-> 2],
   chat3 |-> [ops |-> {"input", "stop"}, prompts |-> 2]]
IsChat == part \in DOMAIN ChatInstances
KeepsTo(i) ==
  /\ sent' <= i.prompts
  /\ rootDone' => "stop" \in i.ops
  /\ \A r \in Proc : g'[r].op \in i.ops \cup {"none"}

MCPort == [c \in Managed |-> 1]

MCKey == [i \in JobId |-> IF i = "J" THEN "j" ELSE i]
MCStored ==
  {[i \in JobId |-> NoJob],
   [i \in JobId |->
      IF i \in {BuiltinJob, RetiredJob}
      THEN [ver |-> 0, enabled |-> TRUE, builtin |-> TRUE, there |-> TRUE] ELSE NoJob]}

ProgressInit ==
  /\ part \in DOMAIN ChatInstances \cup {"feed", "services", "call", "jobs"}
  /\ IF part = "chat3" THEN Created ELSE Init
  /\ BrokerInit
  /\ WsInit /\ (part # "services" => entries = [s \in Service |-> Unbound])
  /\ CallInit /\ (part # "call" => manner = "polite")
  /\ JobInit /\ (part # "jobs" => jobStore = Stored([i \in JobId |-> NoJob]))

ProgressNext ==
  \/ /\ IsChat /\ Next /\ KeepsTo(ChatInstances[part])
     /\ UNCHANGED <<part, brokerVars, wsVars, callVars, jobVars>>
  \/ part = "feed" /\ BrokerNext /\ UNCHANGED <<part, vars, wsVars, callVars, jobVars>>
  \/ part = "services" /\ WsNext /\ UNCHANGED <<part, vars, brokerVars, callVars, jobVars>>
  \/ part = "call" /\ CallNext /\ UNCHANGED <<part, vars, brokerVars, wsVars, jobVars>>
  \/ part = "jobs" /\ JobNext /\ UNCHANGED <<part, vars, brokerVars, wsVars, callVars>>

\* The fairness of each part, in the behaviours of that part.
ProgressSpec ==
  /\ ProgressInit /\ [][ProgressNext]_<<part, vars, brokerVars, wsVars, callVars, jobVars>>
  /\ \A r \in Proc : WF_vars(IsChat /\ (Serve(r) \/ Persist(r)) /\ KeepsTo(ChatInstances[part]))
  /\ \A o \in Owner : WF_brokerVars(part = "feed" /\ Ask(o))
  /\ \A r \in WebRequest : WF_wsVars(part = "services" /\ Step(r))
  /\ WF_callVars(part = "call" /\ CallStep) /\ WF_callVars(part = "call" /\ ServerAnswers)
  /\ WF_callVars(part = "call" /\ Ends) /\ WF_callVars(part = "call" /\ DeadlinePasses)
  /\ \A n \in Runner :
       WF_jobVars(part = "jobs" /\ RunnerLeaves(n)) /\ WF_jobVars(part = "jobs" /\ FinishJob(n))
=============================================================================
