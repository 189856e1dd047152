-------------------------- MODULE MCCharacterSaves --------------------------
(* Instances of CharacterSaves for TLC. *)
EXTENDS CharacterSaves, TLC

(* Users are alike, and so are accounts. *)
Symmetry == Permutations(Users) \cup Permutations(Accounts)
=============================================================================
