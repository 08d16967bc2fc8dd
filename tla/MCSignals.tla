----------------------------- MODULE MCSignals -----------------------------
(***************************************************************************)
(* Two loops and two signals; two of the calls raise.                      *)
(***************************************************************************)
EXTENDS Signals, TLC

Symmetry == Permutations(Loops) \cup Permutations(Sigs)
=============================================================================
