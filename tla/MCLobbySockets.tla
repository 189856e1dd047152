--------------------------- MODULE MCLobbySockets ---------------------------
(* Instances of LobbySockets for TLC. *)
EXTENDS LobbySockets, TLC

CONSTANTS c1, c2

(* One client that is its own friend, or each the friend of the others. *)
MCFriends ==
    [c \in Clients |-> IF Clients = {c} THEN {c} ELSE Clients \ {c}]

Symmetry == Permutations(Clients)

(* A connection that was dropped is never read, written or sent to again:  *)
(* only whether its user still is there can matter.                        *)
Dropped(c) == c \notin listed /\ forced[c] /\ lobby.client # c
Of(f, default) == [c \in Clients |-> IF Dropped(c) THEN default ELSE f[c]]
View ==
    << Of(link, "shut"), listed, user, Of(wait, TRUE), forced,
       Of(packets, <<>>), Of(inbox, <<>>), Of(readBuf, <<>>), Of(handled, <<>>),
       Of(pending, 0), Of(ahead, 0), Of(unread, 0), lobby, notices, main,
       IF main = "stopped" THEN <<>> ELSE <<stopList \subseteq listed, (stopList \cap listed) \ told>> >>
=============================================================================
