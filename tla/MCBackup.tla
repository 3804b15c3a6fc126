------------------------------ MODULE MCBackup ------------------------------
(* Backup for TLC: two processes, two ordinary files and a sensitive one.    *)
EXTENDS Backup, TLC

CONSTANTS p1, p2, memory, env, policy, v1, v2

MCFiles == <<memory, env, policy>>

Symmetry == Permutations(Proc) \cup Permutations(Version)
============================================================================
