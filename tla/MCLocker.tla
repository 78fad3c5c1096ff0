------------------------------ MODULE MCLocker ------------------------------
(* Instances of Locker for TLC. *)
EXTENDS Locker, TLC

\* Processes differ by nothing but their name: sound for the invariants.
Symmetry == Permutations(Proc)

=============================================================================
