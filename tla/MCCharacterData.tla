-------------------------- MODULE MCCharacterData --------------------------
(* Instances of CharacterData for TLC.                                     *)
EXTENDS CharacterData

BoundedSeqs(S, n) == UNION {[1..m -> S] : m \in 0..n}

(* Every character there is, and every junk of up to four bytes after a    *)
(* header: runs that go past the end of a character, zeros without a       *)
(* count, and uploads that stop short.                                     *)
MCCharacters == [1..CharacterSize -> Byte]
MCJunk == {<<1>> \o d : d \in BoundedSeqs(Byte, 4)}

MCGarbage == {<<>>, <<0>>, <<1, 0>>}

(* As many keys as there may be, and one too many. *)
MCMetas == {<<<<11, 21>>, <<12, 22>>>>, <<<<11, 21>>, <<12, 22>>, <<13, 23>>>>}
=============================================================================
