---------------------------- MODULE MCMembership ----------------------------
(* Instances of Membership for TLC.                                        *)
EXTENDS Membership, TLC

Symmetric == Permutations(Exec) \cup Permutations(Job) \cup Permutations(Handlers)
=============================================================================
