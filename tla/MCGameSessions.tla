--------------------------- MODULE MCGameSessions ---------------------------
(* Instances of GameSessions for TLC. *)
EXTENDS GameSessions, TLC

CONSTANTS Norrath, Arms   \* the users of the one game and of the other

MCTypeOf == [u \in Norrath \cup Arms |-> IF u \in Norrath THEN CON ELSE RTA]
MCUsers == Norrath \cup Arms

(* Counts that clients report, one of which is below what a game can have. *)
FewCounts == {-1, 1}

(* Users of one game are alike. *)
Symmetry == Permutations(Norrath) \cup Permutations(Arms)

(* What a step or a property of the passing runs can still read: not the   *)
(* session that no list and no thread holds (its shared_ptr is destroyed), *)
(* not the fields of a user that is destroyed, not which of the ids off    *)
(* the list a user points at, not who left a seat other than the host's,   *)
(* not the type of a game that is listed, not the address copied for the   *)
(* clients' lists.                                                         *)
Held == listed \cup {lobby.id, disc.id}
Destroyed(u) == status[u] = "removed" /\ ~Live(u)
ViewSeats(g) ==
    [s \in SeatNumbers |-> IF s = 1 \/ Live(g.seat[s]) THEN g.seat[s] ELSE NoUser]
ViewGame(i) ==
    [game[i] EXCEPT !.seat = ViewSeats(game[i]), !.hostAddr = FALSE,
                    !.type = IF i \in listed \/ game[i].kind = RTA THEN "Public" ELSE @]
View ==
    << status, pinned, listed, next, lobby, disc,
       [u \in Users |-> IF Destroyed(u) THEN NoSession ELSE sessionId[u]],
       [u \in Users |-> isHost[u] /\ ~Destroyed(u)],
       [u \in Users |-> addrKnown[u] /\ ~Destroyed(u)],
       [u \in Users |-> IF gameId[u] \in listed \cup {lobby.id} THEN gameId[u] ELSE NoId],
       [i \in Ids |-> IF i \in Held /\ i # NoId THEN ViewGame(i) ELSE NoGame] >>
=============================================================================
