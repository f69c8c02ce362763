---------------------------- MODULE MCChatRuntime ----------------------------
(* Instances of ChatRuntime for TLC. *)
EXTENDS ChatRuntime, TLC

CONSTANTS r1, r2

Symmetry == Permutations(Requests)

\* Bound of the runs that combine many requests: two saves that overlap are
\* the last thing that happens.  The other runs go on from there.
SavesApart == ~overlapped

\* The session was created and saved some time ago; Spec reaches this state.
Created ==
  /\ sess = 1 /\ used = 1
  /\ heap = [o \in Obj |-> NewSession]
  /\ disk = Full(NoRecord) /\ tmp = Missing
  /\ g = [r \in Proc |-> Idle]
  /\ rootDone = FALSE
  /\ feed = [n \in Prompt |-> "none"]
  /\ sent = 0 /\ restarts = 0 /\ acked = {} /\ gone = "no" /\ overlapped = FALSE

CreatedSpec == Created /\ [][Next]_vars
=============================================================================
