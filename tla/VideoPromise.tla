---------------------------- MODULE VideoPromise ----------------------------
(***************************************************************************)
(* What an encode loop promises to those who watch: the pictures rendered  *)
(* are numbered, and the access units that leave the loop show some of     *)
(* them, each at most once and in the order in which they were rendered.   *)
(* The promise ends when a picture has been overwritten before it was      *)
(* read: from then on a unit may show any picture rendered so far.         *)
(***************************************************************************)
EXTENDS Naturals

VARIABLES
  made,    \* pictures rendered
  units,   \* access units sent
  shown,   \* the picture in the latest of them, 0 before the first
  torn     \* a picture was overwritten before it was read

vars == <<made, units, shown, torn>>

Init == made = 0 /\ units = 0 /\ shown = 0 /\ torn = FALSE

Make == made' \in Nat /\ made' > made /\ UNCHANGED <<units, shown, torn>>

Tear == torn' = TRUE /\ UNCHANGED <<made, units, shown>>

Show ==
  /\ units' = units + 1
  /\ shown' \in IF torn THEN 1 .. made ELSE shown + 1 .. made
  /\ UNCHANGED <<made, torn>>

Spec == Init /\ [][Make \/ Tear \/ Show]_vars
=============================================================================
