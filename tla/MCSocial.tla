------------------------------ MODULE MCSocial ------------------------------
(* Instances of Social for TLC.                                            *)
EXTENDS Social

CONSTANTS a1, a2, a3, h1, h2

(* Two accounts have one handle, the third its own.                        *)
MCHandle == [a \in Accounts |-> IF a = a1 THEN h1 ELSE h2]

Symmetry == Permutations(Users) \cup Permutations({a2, a3})

(* No guard reads the histories, and what a step does to Owed it does      *)
(* whatever shown and dropped are: of these two, the properties need only  *)
(* what is Owed.                                                           *)
OwedView ==
    <<m_users, accountId, lists, tables, unsure, [v \in Users |-> Owed(v)]>>
=============================================================================
