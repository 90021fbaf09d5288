------------------------ MODULE MCPasskeyCeremony ------------------------
(* TLC instance of PasskeyCeremony: instances and tokens are               *)
(* interchangeable.                                                        *)
EXTENDS PasskeyCeremony, TLC

Symmetry == Permutations(Instances) \cup Permutations(Tokens)
==========================================================================
