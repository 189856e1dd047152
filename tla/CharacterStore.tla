--------------------------- MODULE CharacterStore ---------------------------
(***************************************************************************)
(* What the server promises a client that is logged in and uploads a       *)
(* character: the upload is open until it is stored or given up, and one   *)
(* that was given up - for a newer one, for another login, by a restart -  *)
(* is never stored.  It is stored as a whole, alone and once, and a row is *)
(* written over for the account it belongs to only.  How chunks become a   *)
(* character, and who uploads what for whom, is left to CharacterSaves.    *)
(***************************************************************************)
CONSTANTS Uploads, Rows, Accounts

VARIABLES
    phase, \* of each upload; "unborn" if no client that is logged in began it
    shelf  \* the rows: their account and the uploads they are made of

vars == <<phase, shelf>>

Phases == {"unborn", "open", "stored", "over"}
Empty == [uploads |-> {}]
TypeOK ==
    /\ phase \in [Uploads -> Phases]
    /\ shelf \in [Rows -> [account : Accounts, uploads : SUBSET Uploads] \cup {Empty}]

Init ==
    /\ phase = [n \in Uploads |-> "unborn"]
    /\ shelf = [c \in Rows |-> Empty]

(* A client begins an upload; one it was in the middle of is given up. *)
Begin(n, older) ==
    /\ phase[n] = "unborn"
    /\ phase' = [m \in Uploads |-> IF m = n THEN "open"
                                   ELSE IF m = older /\ phase[m] = "open" THEN "over"
                                   ELSE phase[m]]
    /\ UNCHANGED shelf

GiveUp(given) ==
    /\ \A n \in given : phase[n] = "open"
    /\ phase' = [n \in Uploads |-> IF n \in given THEN "over" ELSE phase[n]]
    /\ UNCHANGED shelf

Put(c, a, uploads) ==
    /\ shelf[c] = Empty \/ shelf[c].account = a
    /\ shelf' = [shelf EXCEPT ![c] = [account |-> a, uploads |-> uploads]]

Store(n, c, a) ==
    /\ phase[n] = "open"
    /\ phase' = [phase EXCEPT ![n] = "stored"]
    /\ Put(c, a, {n})

(* Clients that are not logged in share what they upload, and nothing is   *)
(* promised to them; but it does not mix with what the others upload.      *)
StoreNameless(c, a) ==
    /\ UNCHANGED phase
    /\ Put(c, a, {})

Next ==
    \/ \E n, older \in Uploads : Begin(n, older)
    \/ \E given \in SUBSET Uploads : GiveUp(given)
    \/ \E c \in Rows, a \in Accounts :
          \/ StoreNameless(c, a)
          \/ \E n \in Uploads : Store(n, c, a)

Spec == Init /\ [][Next]_vars
=============================================================================
