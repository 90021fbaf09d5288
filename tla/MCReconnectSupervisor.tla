---------------------- MODULE MCReconnectSupervisor ----------------------
(* TLC instance of ReconnectSupervisor: threads are interchangeable.       *)
EXTENDS ReconnectSupervisor, TLC

ThreadSymmetry == Permutations(Threads)
==========================================================================
