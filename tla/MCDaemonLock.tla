---------------------------- MODULE MCDaemonLock ----------------------------
(* DaemonLock on a few processes, with the mutants its runs are tested on. *)
EXTENDS DaemonLock, TLC

Symmetry == Permutations(Procs)
=============================================================================
