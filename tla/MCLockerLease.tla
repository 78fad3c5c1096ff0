--------------------------- MODULE MCLockerLease ---------------------------
(* Instances of LockerLease for TLC. *)
EXTENDS LockerLease, TLC

Symmetry == Permutations(Proc)

=============================================================================
