----------------------------- MODULE AppServer -----------------------------
(***************************************************************************)
(* One call of the codex app-server: appServerCall in                      *)
(* internal/codex/application/service.go.  It serves the models, the       *)
(* configuration and the skill catalog, and runs at the start of the       *)
(* program.                                                                *)
(*                                                                         *)
(* Five parties are at work: the caller, which writes a request to an      *)
(* unbuffered pipe and scans another one for the answer; two goroutines    *)
(* of os/exec that copy between these pipes and the process; the process;  *)
(* and the goroutine that waits for the process and for both copiers       *)
(* before it closes the pipes.  A deadline kills the process only.         *)
(***************************************************************************)
EXTENDS Naturals

CONSTANT Manners    \* how the process may behave
ASSUME MannersAssumption ==
  Manners \subseteq {"polite",     \* answers, and leaves when its input ends
                     "refuses",    \* answers with errors
                     "unstarted",  \* cannot be started
                     "absent",     \* ends without an answer
                     "mute",       \* reads and never answers
                     "chatty"}     \* writes lines that nobody asked for

Initialize == 1
Initialized == 2    \* a notification
Wanted == 3
Unasked == 4        \* a line that answers nothing

VARIABLES
  caller,     \* what appServerCall does
  toSend,     \* the request in the caller's pipe, 0 for none
  stdin,      \* the copier of the input: "reads", "writes", "done"
  stdinOpen,  \* the caller has not closed its pipe
  server,     \* the process: "up" or "down"
  manner,
  received,  \* requests that reached the process
  line,      \* the line it has written and nobody copied yet, 0 for none
  answered,
  stdout,   \* the copier of the output: "reads", "writes", "done"
  copied,   \* the line it has
  outOpen,  \* the pipe the caller scans is open
  late,     \* the deadline has passed
  waited    \* the command's Run has returned

callVars == <<caller, toSend, stdin, stdinOpen, server, manner, received, line, answered,
              stdout, copied, outOpen, late, waited>>

\* A command that does not start ends the copiers before they begin.
CallInit ==
  /\ manner \in Manners
  /\ server = (IF manner = "unstarted" THEN "down" ELSE "up")
  /\ stdin = (IF manner = "unstarted" THEN "done" ELSE "reads") /\ stdout = stdin
  /\ caller = "write1" /\ toSend = 0 /\ stdinOpen = TRUE
  /\ received = 0 /\ line = 0 /\ answered = 0
  /\ copied = 0 /\ outOpen = TRUE /\ late = FALSE /\ waited = FALSE

(***************************************************************************)
(* The caller                                                              *)
(***************************************************************************)

\* json.Encode into the pipe: it blocks until the copier takes the request,
\* and fails once the reader is closed.
Request == [write1 |-> Initialize, write2 |-> Initialized, write3 |-> Wanted]
Writes ==
  /\ caller \in DOMAIN Request /\ toSend = 0 /\ ~waited
  /\ toSend' = Request[caller]
  /\ UNCHANGED <<caller, stdinOpen, stdin, server, manner, received, line, answered, stdout, copied, outOpen, late, waited>>
WriteFails ==
  /\ caller \in DOMAIN Request /\ waited
  /\ caller' = "failed" /\ toSend' = 0 /\ stdinOpen' = FALSE
  /\ UNCHANGED <<stdin, server, manner, received, line, answered, stdout, copied, outOpen, late, waited>>

\* The scanner gets a line, or the end of the pipe.  An answer to initialize
\* lets it go on; after the answer it wants the caller closes its own pipe and
\* waits for the command, reading no more.
StillOpen == TRUE
OpenAfterAnswer == FALSE
Reads ==
  /\ caller \in {"read1", "read2"}
  /\ \/ /\ stdout = "writes" /\ copied # 0
        /\ copied' = 0 /\ stdout' = "reads"
        /\ \/ /\ caller = "read1" /\ copied = Initialize
              /\ caller' = IF manner = "refuses" THEN "failed" ELSE "write2"
              /\ stdinOpen' = (manner # "refuses")
           \/ caller = "read2" /\ copied = Wanted /\ caller' = "wait" /\ stdinOpen' = OpenAfterAnswer
           \/ copied \notin {Initialize, Wanted} /\ UNCHANGED <<caller, stdinOpen>>
     \/ /\ ~outOpen
        /\ caller' = "wait" /\ stdinOpen' = (caller = "read1")
        /\ UNCHANGED <<copied, stdout>>
  /\ UNCHANGED <<toSend, stdin, server, manner, received, line, answered, outOpen, late, waited>>
Waits ==
  /\ caller = "wait" /\ waited
  /\ caller' = "done" /\ stdinOpen' = FALSE
  /\ UNCHANGED <<toSend, stdin, server, manner, received, line, answered, stdout, copied, outOpen, late, waited>>

(***************************************************************************)
(* The copiers and the process                                             *)
(***************************************************************************)

\* Taking the request unblocks the caller, which goes on to write or to read.
CopiesIn ==
  \/ /\ stdin = "reads" /\ toSend # 0
     /\ stdin' = "writes"
     /\ caller' = [write1 |-> "read1", write2 |-> "write3", write3 |-> "read2"][caller]
     /\ UNCHANGED <<toSend, received>>
  \/ /\ stdin = "writes"
     /\ toSend' = 0
     /\ IF server = "up" THEN received' = toSend /\ stdin' = "reads"
        ELSE stdin' = "done" /\ UNCHANGED received
     /\ UNCHANGED caller
  \/ /\ stdin = "reads" /\ toSend = 0 /\ ~stdinOpen
     /\ stdin' = "done" /\ UNCHANGED <<toSend, caller, received>>
CopyIn ==
  /\ CopiesIn
  /\ UNCHANGED <<stdinOpen, server, manner, line, answered, stdout, copied, outOpen, late, waited>>

\* The process: it answers what it received, leaves at the end of its input,
\* or before it reads anything.
ServerAnswers ==
  /\ server = "up" /\ line = 0 /\ manner \in {"polite", "refuses", "chatty"}
  /\ \/ \E n \in {Initialize, Wanted} :
          /\ answered < n /\ n <= received /\ (n = Wanted => answered = Initialize)
          /\ answered' = n /\ line' = n
     \/ manner = "chatty" /\ line' = Unasked /\ UNCHANGED answered
  /\ UNCHANGED <<caller, toSend, stdin, stdinOpen, server, manner, received, stdout, copied, outOpen, late, waited>>
Ends ==
  /\ server = "up" /\ server' = "down"
  /\ \/ stdin = "done" /\ manner # "mute"
     \/ manner = "absent"
     \/ late                                \* killed by the context
  /\ UNCHANGED <<caller, toSend, stdin, stdinOpen, manner, received, line, answered, stdout, copied, outOpen, late, waited>>

CopiesOut ==
  \/ stdout = "reads" /\ line # 0 /\ copied' = line /\ line' = 0 /\ stdout' = "writes"
  \/ stdout = "reads" /\ line = 0 /\ server = "down" /\ stdout' = "done" /\ UNCHANGED <<copied, line>>
CopyOut ==
  /\ CopiesOut
  /\ UNCHANGED <<caller, toSend, stdin, stdinOpen, server, manner, received, answered, outOpen, late, waited>>

\* exec.Cmd.Wait: the process has ended and both copiers have.
AllEnded == server = "down" /\ stdin = "done" /\ stdout = "done"
RunReturns ==
  /\ ~waited /\ AllEnded
  /\ waited' = TRUE /\ outOpen' = FALSE
  /\ UNCHANGED <<caller, toSend, stdin, stdinOpen, server, manner, received, line, answered, stdout, copied, late>>

\* The ten seconds pass, or the request is cancelled.
DeadlinePasses ==
  /\ ~late /\ late' = TRUE
  /\ UNCHANGED <<caller, toSend, stdin, stdinOpen, server, manner, received, line, answered, stdout, copied, outOpen, waited>>

CallStep == Writes \/ WriteFails \/ Reads \/ Waits \/ CopyIn \/ CopyOut \/ RunReturns
CallNext == CallStep \/ ServerAnswers \/ Ends \/ DeadlinePasses
CallFairness == WF_callVars(CallStep) /\ WF_callVars(ServerAnswers) /\ WF_callVars(Ends) /\ WF_callVars(DeadlinePasses)
CallSpec == CallInit /\ [][CallNext]_callVars /\ CallFairness

(***************************************************************************)
(* Properties                                                              *)
(***************************************************************************)

CallOver == caller \in {"done", "failed"}

\* The pipes and the parties fit together: what the caller waits for was asked.
CallTypeOK ==
  /\ caller \in {"write1", "read1", "write2", "write3", "read2", "wait", "done", "failed"}
  /\ stdin \in {"reads", "writes", "done"} /\ stdout \in {"reads", "writes", "done"}
  /\ answered <= received
  /\ copied # 0 <=> stdout = "writes"

\* Once it has its answer and has closed its pipe, a call ends, whatever the
\* deadline does meanwhile (service.go 1136-1263), unless the process still
\* writes to a pipe that is not read any more.
AnsweredCallsEnd ==
  (caller = "wait" /\ manner # "chatty" ~> CallOver) /\ []CallTypeOK

=============================================================================
