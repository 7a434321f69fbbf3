------------------------------- MODULE MCLimiter -------------------------------
(***************************************************************************)
(* Instances of RateLimiter for TLC.  The callers are interchangeable.     *)
(***************************************************************************)
EXTENDS RateLimiter, TLC

CallerSymmetry == Permutations(Callers)

===============================================================================
