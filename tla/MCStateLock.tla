---------------------------- MODULE MCStateLock ------------------------------
(* Small instances of StateLock: the bounds are the sizes of Daemons and   *)
(* Pids, given in the configurations.                                      *)
EXTENDS StateLock, TLC

Symmetry == Permutations(Daemons) \cup Permutations(Pids)
=============================================================================
