----------------------------- MODULE MCSession -----------------------------
(* Model-checking instance of Session.                                      *)
EXTENDS Session

=============================================================================
