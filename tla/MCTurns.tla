------------------------------- MODULE MCTurns -------------------------------
(* Two instances of ChatRuntime in one run: every step keeps to the          *)
(* operations, objects and prompts of one of them.                           *)
EXTENDS MCChatRuntime

\* turns: three prompts of one session object; stop: two prompts, but deletions,
\* a second object and the stop of the process.
Instances ==
  [turns |-> [ops |-> {"none", "open", "input", "inputRepo", "retry", "read"},
              obj |-> 1, prompts |-> 3],
   stop  |-> [ops |-> {"none", "open", "inputRepo", "retry", "delete", "stop"},
              obj |-> 2, prompts |-> 2]]

KeepsTo(i) ==
  /\ used' <= i.obj /\ sent' <= i.prompts
  /\ rootDone' => "stop" \in i.ops
  /\ \A r \in Proc : g'[r].op \in i.ops

\* Bound on the steps: with deletions, or with all the prompts, two saves that
\* overlap are the last thing.
KeepsToOne ==
  \/ KeepsTo(Instances.turns) /\ (overlapped => sent' < Instances.turns.prompts)
  \/ KeepsTo(Instances.stop) /\ SavesApart
=============================================================================
