------------------------------ MODULE MCCache ------------------------------
(* Instances of Cache for TLC. *)
EXTENDS Cache, TLC

CONSTANTS c1, c2, h1, w1

\* The callers share a process, and so a singleflight group.
OneHost == (c1 :> h1) @@ (c2 :> h1)

\* Callers are alike (not for the run with liveness).
Symmetry == Permutations({c1, c2})

=============================================================================
