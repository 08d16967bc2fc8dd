----------------------------- MODULE MCDatagram -----------------------------
(* Instances of Datagram for model checking. *)
EXTENDS Datagram
=============================================================================
