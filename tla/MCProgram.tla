----------------------------- MODULE MCProgram -----------------------------
(***************************************************************************)
(* Three addresses, of which the second never answers; a file of two       *)
(* blocks and a write buffer that holds one; two jobs on an executor; two  *)
(* children on two loops, with a pid each or with one that is reused; two  *)
(* servers on two hosts of two addresses each, or on one path; and three   *)
(* records for start_tls().                                                *)
(***************************************************************************)
EXTENDS Program

MCMarks == <<1, 0>>
=============================================================================
