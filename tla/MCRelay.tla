------------------------------ MODULE MCRelay ------------------------------
(* Model-checking instance of Relay: three connections, one code, two Room  *)
(* objects (one the first publisher asked for, one a resurrection).         *)
EXTENDS Relay, TLC

(* Connections of one role are interchangeable, and so are Room objects. *)
Symmetry == Permutations(Publishers) \cup Permutations(Subscribers) \cup Permutations(Rooms)
=============================================================================
