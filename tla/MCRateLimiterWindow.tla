-------------------------- MODULE MCRateLimiterWindow --------------------------
(* Instances of RateLimiterWindow for TLC. *)
EXTENDS RateLimiterWindow, TLC

Symmetry == Permutations(Client)

\* Clocks that agree with Redis's or lag by a millisecond.
Lagging == {-1, 0}

=============================================================================
