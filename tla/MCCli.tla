-------------------------------- MODULE MCCli ----------------------------------
(* For TLC: the two shells are interchangeable, and so are the addresses. *)
EXTENDS Cli, TLC
Alike == Permutations(Procs) \cup Permutations(Addrs)
===============================================================================
