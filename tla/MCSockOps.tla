------------------------------ MODULE MCSockOps -----------------------------
(* Instances of SockOps for model checking. *)
EXTENDS SockOps

Symmetry == Permutations(Handles) \cup Permutations(Ops)

=============================================================================
