--------------------------- MODULE MCRateLimiter ---------------------------
(***************************************************************************)
(* RateLimiter with the bounds of the cfg files.  Goroutines are alike.    *)
(***************************************************************************)
EXTENDS RateLimiter, TLC

Symmetry == Permutations(Handlers) \cup Permutations(Clients)
=============================================================================
