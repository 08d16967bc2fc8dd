------------------------------ MODULE MCServer ------------------------------
(* An instance of Server for model checking. *)
EXTENDS Server
=============================================================================
