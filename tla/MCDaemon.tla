------------------------------ MODULE MCDaemon ------------------------------
(* Daemon on a few requests and connections.                               *)
EXTENDS Daemon, TLC

Symmetry == Permutations(Reqs) \cup Permutations(Conns)
=============================================================================
