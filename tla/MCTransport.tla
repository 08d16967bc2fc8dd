---------------------------- MODULE MCTransport ----------------------------
(***************************************************************************)
(* Transport for TLC.  Batches of one buffer, a single buffer of one byte, *)
(* and a vector that does not fit a batch.                                 *)
(***************************************************************************)
EXTENDS Transport

MCStream  == {"stream"}
MCKinds   == {"stream", "pipe_write"}
MCVectors == {[n |-> 1, size |-> 1], [n |-> 2, size |-> 1]}
MCLimits  == {[low |-> 0, high |-> 0], [low |-> 1, high |-> 1]}
MCBoth    == BOOLEAN
MCPlain   == {FALSE}
MCByte    == {[n |-> 1, size |-> 1]}
OneLimit  == {[low |-> 0, high |-> 0]}
============================================================================
