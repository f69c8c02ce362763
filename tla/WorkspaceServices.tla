-------------------------- MODULE WorkspaceServices --------------------------
(***************************************************************************)
(* The workspace services: the registry and the gateway of                 *)
(* internal/interfaces/web/workspace_service.go and the processes of       *)
(* workspace_service_runtime.go.                                           *)
(*                                                                         *)
(* A registration binds a service to a directory with a built page, to an  *)
(* upstream, or to a command that the program runs on a port.  The         *)
(* registry has a lock of its own for every call, so a handler works with  *)
(* what it read some time ago; the process manager keeps its lock while it *)
(* starts a process and probes the port, and what answers the probe is     *)
(* whatever listens there.                                                 *)
(***************************************************************************)
EXTENDS Naturals, FiniteSets

CONSTANTS
  Service,       \* a session and a service id
  Managed,       \* registrations with a start command
  Plain,         \* the other ones: an upstream or a directory
  PortOf,        \* the port of a managed registration
  Forking,       \* commands whose children may outlive them
  WebRequest,    \* requests: PUT, DELETE, or one for a service's host
  MaxProcesses,  \* bound: processes started
  MaxBegun,      \* bound: requests
  MaxWsFaults    \* bound: failing writes, failing starts and crashes

Config == Managed \cup Plain
Unbound == "unbound"
Nobody == "none"
ASSUME WsAssumption ==
  /\ Managed \cap Plain = {} /\ Unbound \notin Config \cup Service /\ Forking \subseteq Managed
  /\ Nobody \notin WebRequest
  /\ DOMAIN PortOf = Managed /\ MaxProcesses \in Nat /\ MaxBegun \in Nat /\ MaxWsFaults \in Nat

Port == {PortOf[c] : c \in Managed}
WsProcess == 1 .. MaxProcesses
NoProcess == 0

VARIABLES
  entries,    \* workspaceServiceRegistry.entries
  wsFile,     \* workspace-services.json: "torn" or the entries
  processes,  \* workspaceServiceProcessManager.processes
  commands,   \* the processes, numbered as they were started
  launched,   \* how many there are
  listener,   \* the process that listens on a port
  holder,     \* the request that holds the manager's lock, or "none"
  request,
  begun,  \* how many requests there were
  wsFaults,
             \* history of the run, read by the properties only
  promised,  \* the binding the last answer promised
  unclear,   \* services whose last change failed to be saved, overlapped
             \* another one, or was cut by a crash
  astray     \* services last started with a binding that was replaced

wsVars == <<entries, wsFile, processes, commands, launched, listener, holder, request, begun,
            wsFaults, promised, unclear, astray>>
manager == <<processes, commands, launched, listener, holder>>
history == <<promised, unclear, astray, begun>>

IsManaged(c) == c \in Managed
NoProc == [service |-> Unbound, cfg |-> Unbound, alive |-> FALSE, ours |-> FALSE, reaped |-> TRUE]
NoRequest == [at |-> "idle", kind |-> "none", service |-> Unbound, cfg |-> Unbound, prev |-> Unbound,
         mine |-> NoProcess, alone |-> TRUE]
TornFile == [torn |-> TRUE, entries |-> [s \in Service |-> Unbound]]
WholeRegistry(es) == [torn |-> FALSE, entries |-> es]

(***************************************************************************)
(* The registry                                                            *)
(***************************************************************************)

\* persistLocked succeeds, or it fails and leaves the file as it was or cut.
Persists(es) == wsFile' = WholeRegistry(es) /\ UNCHANGED wsFaults
PersistFails ==
  /\ wsFaults < MaxWsFaults /\ wsFaults' = wsFaults + 1
  /\ wsFile' \in {wsFile, TornFile}

Bound(s, c) == [entries EXCEPT ![s] = c]

Become(r, req) == request' = [request EXCEPT ![r] = req]
Finish(r) == Become(r, NoRequest)

\* What the answer of a change tells its sender.
Promise(req, c) ==
  /\ promised' = [promised EXCEPT ![req.service] = c]
  /\ unclear' = IF req.alone THEN unclear \ {req.service} ELSE unclear \cup {req.service}
NoPromise(req) ==
  /\ unclear' = IF req.alone THEN unclear ELSE unclear \cup {req.service}
  /\ UNCHANGED promised
Lose(req) == unclear' = unclear \cup {req.service} /\ UNCHANGED promised
RequestAt(r, at) == request[r].at = at

\* The requests for a service that have begun and not ended.
Others(r, s) == {o \in WebRequest \ {r} : request[o].service = s /\ request[o].kind # "visit"}

\* A request begins; two changes of a service that overlap are not alone.
Enter(r, req) ==
  /\ begun < MaxBegun /\ begun' = begun + 1
  /\ request' = [o \in WebRequest |->
       IF o = r THEN [req EXCEPT !.alone = Others(r, req.service) = {}]
       ELSE IF o \in Others(r, req.service) /\ req.kind # "visit" THEN [request[o] EXCEPT !.alone = FALSE]
       ELSE request[o]]

\* PUT: ResolveService for the way back.
BeginPut(r, s, c) ==
  /\ RequestAt(r, "idle")
  /\ Enter(r, [NoRequest EXCEPT !.at = "upsert", !.kind = "put", !.service = s, !.cfg = c,
                           !.prev = entries[s]])
  /\ UNCHANGED <<entries, wsFile, wsFaults, manager, promised, unclear, astray>>

\* Upsert: an entry that is not saved is taken out again.
Upsert(r) ==
  /\ RequestAt(r, "upsert")
  /\ LET req == request[r]
     IN \/ /\ Persists(Bound(req.service, req.cfg))
           /\ entries' = Bound(req.service, req.cfg)
           /\ IF IsManaged(req.cfg)
              THEN Become(r, [req EXCEPT !.at = "lock"]) /\ UNCHANGED <<promised, unclear>>
              ELSE Finish(r) /\ Promise(req, req.cfg)
        \/ PersistFails /\ UNCHANGED entries /\ Finish(r) /\ NoPromise(req)
  /\ UNCHANGED <<astray, begun, manager>>

\* Where a failed start leads: what this request found is bound again.
Undone(req) == Bound(req.service, req.prev)

\* The registration is put back; an error is ignored, and a Delete that is not
\* saved has taken the entry out all the same.
RollBack(r) ==
  /\ RequestAt(r, "rollback")
  /\ \/ /\ Persists(Undone(request[r])) /\ entries' = Undone(request[r])
        /\ NoPromise(request[r])
     \/ /\ PersistFails /\ Lose(request[r])
        /\ entries' = IF request[r].prev = Unbound THEN Undone(request[r]) ELSE entries
  /\ astray' = astray \cup {request[r].service}   \* a visitor may have started it
  /\ Finish(r) /\ UNCHANGED <<begun, manager>>

\* DELETE: ResolveService, then Stop when it is bound.
BeginDelete(r, s) ==
  /\ RequestAt(r, "idle") /\ entries[s] # Unbound
  /\ Enter(r, [NoRequest EXCEPT !.at = IF IsManaged(entries[s]) THEN "stop" ELSE "delete",
                           !.kind = "delete", !.service = s, !.cfg = entries[s]])
  /\ UNCHANGED <<entries, wsFile, wsFaults, manager, promised, unclear, astray>>

\* Delete: the entry is out of memory even when that is not saved.
DeleteEntry(r) ==
  /\ RequestAt(r, "delete")
  /\ LET s == request[r].service
     IN IF entries[s] = Unbound
        THEN NoPromise(request[r]) /\ UNCHANGED <<entries, wsFile, wsFaults>>
        ELSE /\ entries' = Bound(s, Unbound)
             /\ \/ Persists(Bound(s, Unbound)) /\ Promise(request[r], Unbound)
                \/ PersistFails /\ Lose(request[r])
  /\ Finish(r) /\ UNCHANGED <<astray, begun, manager>>

\* A request for the service's host: public pages and directories are served
\* from disk, a managed service is started when it does not run.
Visit(r, s) ==
  /\ RequestAt(r, "idle") /\ IsManaged(entries[s])
  /\ Enter(r, [NoRequest EXCEPT !.at = "lock", !.kind = "visit", !.service = s, !.cfg = entries[s]])
  /\ UNCHANGED <<entries, wsFile, wsFaults, manager, promised, unclear, astray>>

(***************************************************************************)
(* The process manager                                                     *)
(***************************************************************************)

PortAnswers(c) == listener[PortOf[c]] # NoProcess

PortFreed(p) == [port \in Port |-> IF listener[port] = p THEN NoProcess ELSE listener[port]]

\* SIGTERM, 200 ms, SIGKILL: it is dead and its port free, unless a child of it
\* goes on listening.
Kill(p) ==
  /\ commands' = [commands EXCEPT ![p].alive = FALSE]
  /\ listener' \in {PortFreed(p)} \cup (IF commands[p].cfg \in Forking THEN {listener} ELSE {})

KillNone == UNCHANGED <<commands, listener>>
KeepRunning(p) == KillNone

\* stopProcessLocked of the one that is replaced.
KillReplaced(p) == Kill(p)

\* sameManagedWorkspaceServiceConfig
SameConfig(p, c) == p # NoProcess /\ commands[p].cfg = c

StillHeld == holder
Released == Nobody

Fresh(s, c) == [service |-> s, cfg |-> c, alive |-> TRUE, ours |-> TRUE, reaped |-> FALSE]

\* EnsureStarted takes the lock.  A process of the same configuration whose
\* port answers is used; any other one of this service is stopped first.
EnsureStarted(r) ==
  /\ RequestAt(r, "lock") /\ holder = Nobody
  /\ LET req == request[r]
         current == processes[req.service]
         same == SameConfig(current, req.cfg)
     IN
     /\ \/ /\ same /\ PortAnswers(req.cfg)
           /\ Become(r, [req EXCEPT !.at = "running", !.mine = current])
           /\ UNCHANGED manager
        \/ /\ current # NoProcess   \* another configuration, or a bad answer
           /\ KillReplaced(current)
           /\ processes' = [processes EXCEPT ![req.service] = NoProcess]
           /\ holder' = r /\ Become(r, [req EXCEPT !.at = "start"])
           /\ UNCHANGED launched
        \/ /\ current = NoProcess
           /\ holder' = r /\ Become(r, [req EXCEPT !.at = "start"])
           /\ UNCHANGED <<processes, commands, launched, listener>>
     /\ astray' = IF entries[req.service] = req.cfg THEN astray \ {req.service}
                  ELSE astray \cup {req.service}
  /\ UNCHANGED <<entries, wsFile, wsFaults, promised, unclear, begun>>

FailedAt(req) == IF req.kind = "put" THEN [req EXCEPT !.at = "rollback", !.mine = NoProcess] ELSE NoRequest

\* startProcessLocked: the command is started, or cannot be.
StartProcess(r) ==
  /\ RequestAt(r, "start") /\ holder = r
  /\ LET req == request[r]
     IN \/ /\ launched < MaxProcesses /\ launched' = launched + 1
           /\ commands' = [commands EXCEPT ![launched + 1] = Fresh(req.service, req.cfg)]
           /\ Become(r, [req EXCEPT !.at = "probe", !.mine = launched + 1])
           /\ UNCHANGED <<processes, listener, holder, wsFaults>>
        \/ /\ wsFaults < MaxWsFaults \/ launched = MaxProcesses
           /\ wsFaults' = IF wsFaults < MaxWsFaults THEN wsFaults + 1 ELSE wsFaults
           /\ Become(r, FailedAt(req)) /\ holder' = Released
           /\ UNCHANGED <<processes, commands, launched, listener>>
  /\ UNCHANGED <<entries, wsFile, history>>

\* waitUntilHealthy: something answers on the port.
ProbeAnswered(r) ==
  /\ RequestAt(r, "probe") /\ PortAnswers(request[r].cfg)
  /\ processes' = [processes EXCEPT ![request[r].service] = request[r].mine]
  /\ holder' = Nobody /\ Become(r, [request[r] EXCEPT !.at = "running"])
  /\ UNCHANGED <<entries, wsFile, wsFaults, commands, launched, listener, history>>

\* No probe before the deadline had a good answer, and the process is stopped.
ProbeTimesOut(r) ==
  /\ RequestAt(r, "probe")
  /\ Kill(request[r].mine)
  /\ holder' = Released /\ Become(r, FailedAt(request[r]))
  /\ UNCHANGED <<entries, wsFile, wsFaults, processes, launched, history>>

\* The answer of a PUT, or the request is passed on to the upstream.
Respond(r) ==
  /\ RequestAt(r, "running") /\ Finish(r)
  /\ IF request[r].kind = "put" THEN Promise(request[r], request[r].cfg) ELSE UNCHANGED <<promised, unclear>>
  /\ UNCHANGED <<entries, wsFile, wsFaults, astray, begun, manager>>

\* Stop
Stop(r) ==
  /\ RequestAt(r, "stop") /\ holder = Nobody
  /\ LET current == processes[request[r].service]
     IN IF current = NoProcess THEN UNCHANGED manager
        ELSE /\ Kill(current)
             /\ processes' = [processes EXCEPT ![request[r].service] = NoProcess]
             /\ UNCHANGED <<launched, holder>>
  /\ Become(r, [request[r] EXCEPT !.at = "delete"])
  /\ UNCHANGED <<entries, wsFile, wsFaults, history>>

IsCurrent(p) == processes[commands[p].service] = p

\* waitForExit: the entry goes unless it is another process by now.
Reap(p) ==
  /\ commands[p].ours /\ ~commands[p].alive /\ ~commands[p].reaped /\ holder = Nobody
  /\ commands' = [commands EXCEPT ![p] = IF \E port \in Port : listener[port] = p
                                 THEN [@ EXCEPT !.reaped = TRUE] ELSE NoProc]
  /\ processes' = IF IsCurrent(p) THEN [processes EXCEPT ![commands[p].service] = NoProcess] ELSE processes
  /\ UNCHANGED <<entries, wsFile, wsFaults, request, launched, listener, holder, history>>

(***************************************************************************)
(* The started commands, and the program's own end                         *)
(***************************************************************************)

\* A started command binds its port, or finds it taken and gives up.
Listen(p) ==
  /\ commands[p].alive /\ \A port \in Port : listener[port] # p
  /\ LET port == PortOf[commands[p].cfg]
     IN IF listener[port] = NoProcess THEN listener' = [listener EXCEPT ![port] = p] /\ UNCHANGED commands
        ELSE commands' = [commands EXCEPT ![p].alive = FALSE] /\ UNCHANGED listener
  /\ UNCHANGED <<entries, wsFile, wsFaults, request, processes, launched, holder,
                 history>>

\* It dies by itself, at any time.
ProcessDies(p) ==
  /\ commands[p].alive /\ wsFaults < MaxWsFaults /\ wsFaults' = wsFaults + 1
  /\ Kill(p)
  /\ UNCHANGED <<entries, wsFile, request, processes, launched, holder,
                 history>>

\* The program crashes and starts again: the registry is loaded, and the
\* commands go on without their parent.  A file that cannot be read leaves the
\* program without a registry, so this is not followed any further.
WsCrash ==
  /\ wsFaults < MaxWsFaults /\ wsFaults' = wsFaults + 1
  /\ ~wsFile.torn /\ entries' = wsFile.entries
  /\ processes' = [s \in Service |-> NoProcess] /\ holder' = Nobody
  /\ commands' = [p \in WsProcess |-> [commands[p] EXCEPT !.ours = FALSE]]
  /\ request' = [r \in WebRequest |-> NoRequest]
  /\ unclear' = unclear \cup {request[r].service : r \in {q \in WebRequest : request[q].kind \in {"put", "delete"}}}
  /\ UNCHANGED <<wsFile, launched, listener, promised, astray, begun>>

\* The program starts with the registry of an earlier one.
WsInit ==
  /\ entries \in [Service -> Config \cup {Unbound}] /\ wsFile = WholeRegistry(entries)
  /\ processes = [s \in Service |-> NoProcess] /\ commands = [p \in WsProcess |-> NoProc]
  /\ launched = 0 /\ listener = [port \in Port |-> NoProcess] /\ holder = Nobody
  /\ request = [r \in WebRequest |-> NoRequest] /\ wsFaults = 0
  /\ promised = entries /\ unclear = {} /\ astray = {} /\ begun = 0

Step(r) ==
  \/ Upsert(r) \/ RollBack(r) \/ DeleteEntry(r) \/ Respond(r)
  \/ EnsureStarted(r) \/ StartProcess(r) \/ ProbeAnswered(r) \/ ProbeTimesOut(r) \/ Stop(r)

WsNext ==
  \/ \E r \in WebRequest, s \in Service :
       (\E c \in Config : BeginPut(r, s, c)) \/ BeginDelete(r, s) \/ Visit(r, s)
  \/ \E r \in WebRequest : Step(r)
  \/ \E p \in WsProcess : Listen(p) \/ ProcessDies(p) \/ Reap(p)
  \/ WsCrash

\* The server goes on with every request.  Requests are bounded, and so are
\* those before one at the lock of the manager.
WsFairness == \A r \in WebRequest : WF_wsVars(Step(r))

WsSpec == WsInit /\ [][WsNext]_wsVars /\ WsFairness

(***************************************************************************)
(* Properties                                                              *)
(***************************************************************************)

OursAlive(p) == commands[p].alive /\ commands[p].ours
Changing(s) == \E r \in WebRequest : request[r].service = s /\ request[r].kind # "visit"

\* Everything has its type, and what the manager keeps for a service is a
\* process of that service.
WsTypeOK ==
  /\ entries \in [Service -> Config \cup {Unbound}]
  /\ wsFile \in [torn : BOOLEAN, entries : [Service -> Config \cup {Unbound}]]
  /\ processes \in [Service -> 0 .. MaxProcesses] /\ launched \in 0 .. MaxProcesses
  /\ \A s \in Service : processes[s] # NoProcess => commands[processes[s]].service = s
  /\ commands \in [WsProcess -> [service : Service \cup {Unbound}, cfg : Managed \cup {Unbound},
                           alive : BOOLEAN, ours : BOOLEAN, reaped : BOOLEAN]]
  /\ listener \in [Port -> 0 .. MaxProcesses] /\ holder \in WebRequest \cup {Nobody}
  /\ \A r \in WebRequest :
       /\ request[r].at \in {"idle", "upsert", "lock", "start", "probe", "running", "rollback",
                             "stop", "delete"}
       /\ request[r].at \in {"start", "probe"} <=> holder = r
  /\ wsFaults \in 0 .. MaxWsFaults

\* Of the processes this program started, one that lives is the one the manager
\* keeps for its service or the one being probed: none is forgotten, however
\* starts, failing starts, restarts, deaths and their late notices interleave.
NoProcessIsForgotten ==
  \A p \in WsProcess : OursAlive(p) =>
    \/ processes[commands[p].service] = p
    \/ holder # Nobody /\ request[holder].mine = p

\* What the answers of the API promised is bound in memory and, if it can be
\* read, in the file, once the changes of the service are over: a PUT whose
\* process does not start leaves what it found.  Except after changes that
\* overlapped, were not saved or were cut by a crash.
AcknowledgedIsBound ==
  \A s \in Service \ unclear : ~Changing(s) =>
    entries[s] = promised[s] /\ (wsFile.torn \/ wsFile.entries[s] = promised[s])

\* A service that is bound to a command and runs, runs that command, unless the
\* last visitor had looked up a binding that was replaced before its start.
RunsWhatIsBound ==
  \A s \in Service \ (unclear \cup astray) :
    ~Changing(s) /\ IsManaged(entries[s]) =>
      \A p \in WsProcess : OursAlive(p) /\ commands[p].service = s => commands[p].cfg = entries[s]

\* A start is taken for a success because of an answer of the started process,
\* not of its predecessor: another listener is of another service with the same
\* port, of an earlier program, or a child that outlived its command.
AnsweredByItself ==
  [][\A r \in WebRequest : ProbeAnswered(r) =>
       LET p == listener[PortOf[request[r].cfg]]
       IN \/ p = request[r].mine \/ ~commands[p].ours
          \/ commands[p].service # request[r].service \/ commands[p].cfg \in Forking]_wsVars

\* Every request ends, the ones that wait for the manager's lock included: when
\* there are no new ones, none is left.
RequestsEnd == []<>(\A r \in WebRequest : request[r].at = "idle")

\* What runs for a service is what is bound to it, and nothing else runs.
ServicesRunAsBound ==
  WsTypeOK /\ NoProcessIsForgotten /\ AcknowledgedIsBound /\ RunsWhatIsBound

\* A request gets its answer, and a start that it reports is the one it made.
RequestsAreAnswered == RequestsEnd /\ AnsweredByItself

=============================================================================
