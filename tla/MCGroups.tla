------------------------------ MODULE MCGroups ------------------------------
(* Instances of Groups for TLC.                                            *)
EXTENDS Groups, TLC

GroupsSymmetric == Permutations(Dispatchers) \cup Permutations(Id) \cup Permutations(Group)
=============================================================================
