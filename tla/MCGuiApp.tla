------------------------------ MODULE MCGuiApp ------------------------------
(* The desktop application with a few clicks. *)
EXTENDS GuiApp
=============================================================================
