---------------------------- MODULE GameLifecycle ----------------------------
(***************************************************************************)
(* What the matchmaking promises a client that looks at the game list: a   *)
(* game is announced once, in the order of the ids; it is closed until its *)
(* host can be reached, then open until it goes; and a game that is gone   *)
(* stays gone.  How a game is found, who is in it and which thread moves   *)
(* it are left to GameSessions.                                            *)
(***************************************************************************)
EXTENDS Integers

CONSTANT Games   \* the ids a server can give out, integers

VARIABLE phase

Phases == {"unborn", "closed", "open", "gone"}
TypeOK == phase \in [Games -> Phases]

Init == phase = [g \in Games |-> "unborn"]

(* An older game has been announced before a younger one. *)
Announce(g) ==
    /\ phase[g] = "unborn"
    /\ \A h \in Games : h < g => phase[h] # "unborn"
    /\ phase' = [phase EXCEPT ![g] = "closed"]

OpenGame(g) ==
    /\ phase[g] = "closed"
    /\ phase' = [phase EXCEPT ![g] = "open"]

End(g) ==
    /\ phase[g] \in {"closed", "open"}
    /\ phase' = [phase EXCEPT ![g] = "gone"]

Next == \E g \in Games : Announce(g) \/ OpenGame(g) \/ End(g)

Spec == Init /\ [][Next]_phase
=============================================================================
