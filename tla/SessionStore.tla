---------------------------- MODULE SessionStore ----------------------------
(***************************************************************************)
(* What the guest agent promises of a session, whatever happens to its     *)
(* processes: a pair is in force; a new pair replaces it whole, first on   *)
(* trial, then for good, or the old pair returns whole; and only the pair  *)
(* in force is ever reported as serving.  The one exception is a way back  *)
(* that itself fails.                                                      *)
(***************************************************************************)
CONSTANTS
  Pairs,       \* the pairs of a configuration and a module plan
  NoPair       \* no pair

VARIABLES
  force,       \* the pair in force
  back,        \* the pair to go back to, while the pair in force is on trial
  torn,        \* a way back has failed, and no pair was in force for good since
  told         \* the pair last reported as serving

vars == <<force, back, torn, told>>

Init == force \in Pairs /\ back = NoPair /\ torn = FALSE /\ told = NoPair

\* Every answer reports nothing, or the pair now in force.
Report == told' \in {NoPair, force'}

\* A new pair is put on trial, or is in force for good at once.
Begin == /\ back = NoPair
         /\ force' \in Pairs /\ back' = force /\ UNCHANGED torn
         /\ Report
Switch == /\ back = NoPair
          /\ force' \in Pairs /\ back' = NoPair /\ torn' = FALSE
          /\ Report

\* The trial ends: the new pair stays, or the old one returns.
Commit == /\ back # NoPair
          /\ back' = NoPair /\ torn' = FALSE /\ UNCHANGED force
          /\ Report
Abandon == /\ back # NoPair
           /\ force' = back /\ back' = NoPair /\ UNCHANGED torn
           /\ Report

\* The old pair could not be put back: nothing is promised of the pair.
Tear == /\ force' \in Pairs /\ back' = NoPair /\ torn' = TRUE
        /\ Report

\* Nothing but an answer.
Answer == UNCHANGED <<force, back, torn>> /\ Report

Next == Begin \/ Switch \/ Commit \/ Abandon \/ Tear \/ Answer

Spec == Init /\ [][Next]_vars
=============================================================================
