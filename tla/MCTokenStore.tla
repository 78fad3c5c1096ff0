-------------------------- MODULE MCTokenStore --------------------------
(* Instances of TokenStore for TLC. *)
EXTENDS TokenStore, TLC

Symmetry == Permutations(Proc)

AllTTLs == {"whole", "submilli", "none"}
WholeTTLs == {"whole"}

=============================================================================
