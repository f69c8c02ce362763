----------------------------- MODULE TurnLedger -----------------------------
(***************************************************************************)
(* What a chat session promises about its turns, with no goroutines, locks *)
(* or files: a list of prompts with their outcomes, to which at most one   *)
(* running turn is added at a time.                                        *)
(***************************************************************************)
EXTENDS Integers, Sequences

CONSTANTS
  Prompt,    \* what clients ask for
  FirstLife  \* the session before anybody created it

VARIABLES
  turns,   \* the turns of the session, oldest first
  life,    \* which incarnation of the session this is
  halted   \* the process was told to stop

ledger == <<turns, life, halted>>

Outcome == {"completed", "failed", "interrupted"}

Running(i)   == turns[i].st = "running"
NoneRunning  == \A i \in DOMAIN turns : ~Running(i)

Becomes(i, st) == turns' = [turns EXCEPT ![i].st = st]

Init == turns = <<>> /\ life = FirstLife /\ halted = FALSE

Begin == /\ NoneRunning
         /\ \E n \in Prompt : turns' = Append(turns, [prompt |-> n, st |-> "running"])
         /\ UNCHANGED <<life, halted>>

Settle == /\ \E i \in DOMAIN turns, out \in Outcome : Running(i) /\ Becomes(i, out)
          /\ UNCHANGED <<life, halted>>

\* Only the last turn that did not complete is run again.
Rerun == /\ NoneRunning
         /\ \E i \in DOMAIN turns :
              /\ turns[i].st # "completed"
              /\ \A j \in DOMAIN turns : j > i => turns[j].st = "completed"
              /\ Becomes(i, "running")
         /\ UNCHANGED <<life, halted>>

Halt == ~halted /\ halted' = TRUE /\ UNCHANGED <<turns, life>>

\* A turn that was interrupted when the process was told to stop may still
\* report how it ended.
Revise == /\ halted
          /\ \E i \in DOMAIN turns, out \in Outcome : Becomes(i, out)
          /\ UNCHANGED <<life, halted>>

\* The session is deleted, restored, or loaded after a restart: nothing of what
\* comes back is running.
Reload == /\ life' # life
          /\ \A i \in DOMAIN turns' : turns'[i].st \in Outcome
          /\ halted' \in {halted, FALSE}

Next == Begin \/ Settle \/ Rerun \/ Halt \/ Revise \/ Reload

Spec == Init /\ [][Next]_ledger

=============================================================================
