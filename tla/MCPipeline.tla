----------------------------- MODULE MCPipeline -----------------------------
(* Pipeline on small channels. *)
EXTENDS Pipeline
=============================================================================
