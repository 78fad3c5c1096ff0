-------------------------- MODULE MCFencedResource --------------------------
(* Instances of FencedResource for TLC. *)
EXTENDS FencedResource, TLC

Symmetry == Permutations(Proc)

=============================================================================
