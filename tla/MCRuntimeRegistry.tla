------------------------ MODULE MCRuntimeRegistry ------------------------
(* TLC instance of RuntimeRegistry: callers are interchangeable.           *)
EXTENDS RuntimeRegistry, TLC

CallerSymmetry == Permutations(Callers)
==========================================================================
