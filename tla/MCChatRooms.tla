----------------------------- MODULE MCChatRooms -----------------------------
(* Instances of ChatRooms for TLC. *)
EXTENDS ChatRooms, TLC

CONSTANT n1, n2

MCPublicNames == [r \in {0} |-> n1]
Symmetry == Permutations(Users)
=============================================================================
