---------------------------- MODULE GameSessions ----------------------------
(***************************************************************************)
(* The matchmaking core: GameSessionManager's list of game sessions, the   *)
(* fields of the users that point into it, the lobby thread that runs the  *)
(* request handlers and the discovery thread that handles one UDP          *)
(* handshake at a time.                                                    *)
(*                                                                         *)
(* The two threads share the sessions and the users.  m_dataMutex guards   *)
(* only the lists, so a handler of the lobby is one step as long as the    *)
(* discovery thread could not tell the difference, and is cut into one     *)
(* step per field where it could (creating a game, being pointed at one).  *)
(* The discovery thread reads one shared thing per step.                   *)
(*                                                                         *)
(* A std::string or an integer written by one thread and read by the other *)
(* without a lock is read here as its old or its new value.                *)
(***************************************************************************)
EXTENDS Integers, FiniteSets

CONSTANTS
    Users,      \* RealmUser objects, one per connection accepted for a game
    TypeOf,     \* the game each of them plays: m_gameType of the listener
    Names,      \* the names a client can give a game
    Stages,     \* the stage a public game of Champions of Norrath adds to it
    EmptyName,  \* the name of no character
    NoUser,     \* nullptr, an empty weak_ptr
    NoSession,  \* the m_sessionId of a user that has not logged in
    Seats,      \* the size of GameSession::m_members
    MaxGames,   \* bound: how many games are created
    Counts      \* bound: the player counts a client reports

CON == "CON"
RTA == "RTA"

ASSUME UsersAssumption ==
    /\ IsFiniteSet(Users)
    /\ NoUser \notin Users
    /\ NoSession \notin Users
    /\ TypeOf \in [Users -> {CON, RTA}]
ASSUME NamesAssumption == EmptyName \notin Names
ASSUME SeatsAssumption == Seats \in 1..126
ASSUME MaxGamesAssumption == MaxGames \in Nat
ASSUME CountsAssumption == Counts \subseteq -128..127   \* %hhd

Ids == 0..(MaxGames - 1)
NoId == -1
SeatNumbers == 1..Seats

(* What is left of a number in the int8_t that counts the players. *)
Int8 == -128..127
AsInt8(n) == ((n + 128) % 256) - 128

VARIABLES
    status,     \* "absent", then "online" while in m_users, then "removed"
    sessionId,  \* m_sessionId: NoSession, or a value no other user has
    isHost,     \* m_isHost
    gameId,     \* m_gameId
    addrKnown,  \* m_discoveryAddr is not empty
    pinned,     \* removed users some save task still holds
    game,       \* every session ever created, by m_gameId
    listed,     \* the ids in m_gameSessionList[ 0 ] and [ 1 ]
    next,       \* m_uniqueGameIndex
    lobby,      \* where the lobby thread is in a handler
    disc        \* where the discovery thread is in ProcessPacket

userVars == <<status, sessionId, isHost, gameId, addrKnown, pinned>>
gameVars == <<game, listed, next>>
vars == <<userVars, gameVars, lobby, disc>>

----------------------------------------------------------------------------
(* A public game of Champions of Norrath is listed as "name [stage]".      *)
BareName(n) == <<n>>
PublicName(n, stage) == <<n, stage>>
GameNames == {BareName(n) : n \in Names \cup {EmptyName}}
                \cup {PublicName(n, s) : n \in Names, s \in Stages}

GameRecord ==
    [kind : {CON, RTA}, type : {"Public", "Private"}, name : GameNames,
     state : {"NotReady", "Open", "Started"},
     seat : [SeatNumbers -> Users \cup {NoUser}],
     current : Int8, max : Int8, hostAddr : BOOLEAN]

(* An id that is not in use yet. *)
NoGame == [state |-> "Unborn"]

NewGame(kind, type, name) ==
    [kind |-> kind, type |-> type, name |-> name, state |-> "NotReady",
     seat |-> [s \in SeatNumbers |-> NoUser],
     current |-> 0, max |-> Seats, hostAddr |-> FALSE]

LobbyIdle == [pc |-> "idle", user |-> NoUser, id |-> NoId]
DiscIdle == [pc |-> "idle", user |-> NoUser, host |-> NoUser, id |-> NoId]

CreatePcs == {"setGameId", "seatHost", "list"}
LobbyPcs == {"idle", "reclear", "enter", "guest"} \cup CreatePcs
OpenPcs == {"openCheck", "openCopy", "publish", "announce"}
JoinPcs == {"joinState", "joinOwner", "joinAddr", "introduce", "terminate"}
DiscPcs == {"idle", "record", "branch", "openFind", "joinFind"}
              \cup OpenPcs \cup JoinPcs

UsersOK ==
    /\ status \in [Users -> {"absent", "online", "removed"}]
    /\ sessionId \in [Users -> Users \cup {NoSession}]
    /\ isHost \in [Users -> BOOLEAN]
    /\ gameId \in [Users -> Ids \cup {NoId}]
    /\ addrKnown \in [Users -> BOOLEAN]
    /\ pinned \subseteq Users

GamesOK ==
    /\ next \in 0..MaxGames
    /\ game \in [Ids -> GameRecord \cup {NoGame}]
    /\ \A i \in Ids : i < next => game[i] \in GameRecord
    /\ listed \subseteq {i \in Ids : i < next}

LobbyOK ==
    /\ lobby \in [pc : LobbyPcs, user : Users \cup {NoUser}, id : Ids \cup {NoId}]
    /\ lobby.pc # "idle" => lobby.user \in Users /\ lobby.id \in Ids /\ lobby.id < next

DiscOK ==
    /\ disc \in [pc : DiscPcs, user : Users \cup {NoUser},
                 host : Users \cup {NoUser}, id : Ids \cup {NoId}]
    /\ disc.pc # "idle" => disc.user \in Users
    /\ disc.id # NoId => disc.id < next
    /\ disc.pc \in OpenPcs \cup JoinPcs => disc.id \in Ids
    /\ disc.pc \in {"joinAddr", "introduce"} => disc.host \in Users

TypeOK == UsersOK /\ GamesOK /\ LobbyOK /\ DiscOK

Init ==
    /\ status = [u \in Users |-> "absent"]
    /\ sessionId = [u \in Users |-> NoSession]
    /\ isHost = [u \in Users |-> FALSE]
    /\ gameId = [u \in Users |-> NoId]
    /\ addrKnown = [u \in Users |-> FALSE]
    /\ pinned = {}
    /\ game = [i \in Ids |-> NoGame]
    /\ listed = {}
    /\ next = 0
    /\ lobby = LobbyIdle
    /\ disc = DiscIdle

----------------------------------------------------------------------------
(* A weak_ptr to u locks while m_users, a save task or a local variable of *)
(* the discovery thread holds the user.                                    *)
Live(u) ==
    \/ u \in Users /\ status[u] = "online"
    \/ u \in pinned
    \/ u # NoUser /\ u \in {disc.user, disc.host}

LiveMembers(g) == {g.seat[s] : s \in {t \in SeatNumbers : Live(g.seat[t])}}

(* GetOwner: the user in seat 1, if it is still there. *)
HasOwner(g) == Live(g.seat[1])
Owner(g) == g.seat[1]

(* FindGame( id, gameType ) and FindGame( name, gameType ).  A list is in  *)
(* the order of the ids, so the first match is the least one.              *)
Find(i, kind) == i \in listed /\ game[i].kind = kind
Matches(name, kind) == {i \in listed : game[i].kind = kind /\ game[i].name = name}
NameInUse(name, kind) == name # BareName(EmptyName) /\ Matches(name, kind) # {}
IsFirstMatch(i, name, kind) ==
    i \in Matches(name, kind) /\ \A j \in Matches(name, kind) : i <= j

(* Mutant: a full game has room. *)
HasRoom_full(g) == g.state = "Open" /\ g.current <= g.max

HasRoom(g) == g.state = "Open" /\ g.current < g.max
IsJoinable(g, u) == u \notin LiveMembers(g) /\ HasRoom(g)

FreeSeats(g) == {s \in SeatNumbers : ~Live(g.seat[s])}
(* Mutant: a member is not recognised. *)
CanSeat_anyone(g, u) == FreeSeats(g) # {}

CanSeat(g, u) ==
    /\ FreeSeats(g) # {}
    /\ \A m \in LiveMembers(g) : sessionId[m] # sessionId[u]
IsFirstFree(s, g) == s \in FreeSeats(g) /\ \A t \in FreeSeats(g) : s <= t

(* AddMember, where CanSeat holds and s is the first free seat;            *)
(* RemoveMember takes a player off the count whether or not the user had a *)
(* seat.                                                                   *)
WithMember(g, u, s) == [g EXCEPT !.seat[s] = u, !.current = AsInt8(@ + 1)]
WithoutMember(g, u) ==
    [g EXCEPT !.seat = [s \in SeatNumbers |-> IF @[s] = u THEN NoUser ELSE @[s]],
              !.current = AsInt8(@ - 1)]

Delist(i, kind) == listed' = IF Find(i, kind) THEN listed \ {i} ELSE listed

----------------------------------------------------------------------------
(* The lobby thread: connections.                                          *)

(* The lobby thread is between two requests, and this one is from u. *)
Handles(u) == lobby.pc = "idle" /\ status[u] = "online"

(* AcceptConnection on a game's own port. *)
Connect(u) ==
    /\ lobby.pc = "idle"
    /\ status[u] = "absent"
    /\ status' = [status EXCEPT ![u] = "online"]
    /\ UNCHANGED <<sessionId, isHost, gameId, addrKnown, pinned, gameVars,
                   lobby, disc>>

(* RequestLogin or RequestCreateAccount succeeds.  A second login gives    *)
(* the user another id, unique again.                                      *)
Login(u) ==
    /\ Handles(u)
    /\ sessionId' = [sessionId EXCEPT ![u] = u]
    /\ UNCHANGED <<status, isHost, gameId, addrKnown, pinned, gameVars,
                   lobby, disc>>

(* Mutants: whoever leaves ends the game it points at; only a user that     *)
(* still has m_isHost set ends it.                                         *)
RemoveUser_anyMember(u, held) ==
    /\ Handles(u)
    /\ held => TypeOf[u] = RTA
    /\ listed' = listed \ {gameId[u]}
    /\ status' = [status EXCEPT ![u] = "removed"]
    /\ pinned' = IF held THEN pinned \cup {u} ELSE pinned
    /\ UNCHANGED <<sessionId, isHost, gameId, addrKnown, game, next, lobby, disc>>

RemoveUser_hostFlag(u, held) ==
    /\ Handles(u)
    /\ held => TypeOf[u] = RTA
    /\ listed' = IF isHost[u] THEN listed \ {gameId[u]} ELSE listed
    /\ status' = [status EXCEPT ![u] = "removed"]
    /\ pinned' = IF held THEN pinned \cup {u} ELSE pinned
    /\ UNCHANGED <<sessionId, isHost, gameId, addrKnown, game, next, lobby, disc>>

(* RemoveUser: logout, disconnection or timeout.  OnDisconnectUser ends    *)
(* the game the user points at if it is its owner's, or has no owner.      *)
(* held: a save task keeps the user object.                                *)
RemoveUser(u, held) ==
    /\ Handles(u)
    /\ held => TypeOf[u] = RTA
    /\ LET i == gameId[u] IN
         listed' = IF /\ Find(i, TypeOf[u])
                      /\ \/ ~HasOwner(game[i])
                         \/ sessionId[Owner(game[i])] = sessionId[u]
                   THEN listed \ {i} ELSE listed
    /\ status' = [status EXCEPT ![u] = "removed"]
    /\ pinned' = IF held THEN pinned \cup {u} ELSE pinned
    /\ UNCHANGED <<sessionId, isHost, gameId, addrKnown, game, next,
                   lobby, disc>>

(* The last save task that holds the removed user is replaced or done. *)
Release(u) ==
    /\ lobby.pc = "idle"
    /\ u \in pinned
    /\ pinned' = pinned \ {u}
    /\ UNCHANGED <<status, sessionId, isHost, gameId, addrKnown, gameVars,
                   lobby, disc>>

----------------------------------------------------------------------------
(* The lobby thread: creating a game, field by field.                      *)

(* A request is dispatched by its packet id alone, so either game's client *)
(* may send either game's requests: kind is the list the game goes to,     *)
(* whatever game its creator plays.                                        *)

(* Mutant: the id of a game is the number of games on the list. *)
StartCreating_countsListed(u, kind, type, name) ==
    LET i == Cardinality(listed) IN
    /\ next < MaxGames
    /\ game' = [game EXCEPT ![i] = NewGame(kind, type, name)]
    /\ next' = next + 1
    /\ isHost' = [isHost EXCEPT ![u] = TRUE]
    /\ lobby' = [pc |-> "setGameId", user |-> u, id |-> i]
    /\ UNCHANGED <<status, sessionId, gameId, addrKnown, pinned, listed, disc>>

StartCreating(u, kind, type, name) ==
    /\ next < MaxGames
    /\ game' = [game EXCEPT ![next] = NewGame(kind, type, name)]
    /\ next' = next + 1
    /\ isHost' = [isHost EXCEPT ![u] = TRUE]
    /\ lobby' = [pc |-> "setGameId", user |-> u, id |-> next]
    /\ UNCHANGED <<status, sessionId, gameId, addrKnown, pinned, listed,
                   disc>>

(* RequestCreatePublicGame looks for the name the client gave, among the   *)
(* games of the user's own type, and lists the game of Champions of        *)
(* Norrath under that name and its stage.                                  *)
CreatePublic_CON(u, n, stage) ==
    /\ Handles(u)
    /\ n # EmptyName
    /\ ~NameInUse(BareName(n), TypeOf[u])
    /\ StartCreating(u, CON, "Public", PublicName(n, stage))

CreatePrivate_CON(u, n) ==
    /\ Handles(u)
    /\ n # EmptyName
    /\ ~NameInUse(BareName(n), TypeOf[u])
    /\ StartCreating(u, CON, "Private", BareName(n))

(* Mutant: the name is not looked for. *)
CreateGame_RTA_anyName(u, n, type) ==
    /\ Handles(u)
    /\ StartCreating(u, RTA, type, BareName(n))

(* CreateGameSession_RTA accepts the empty name, which FindGame never finds. *)
CreateGame_RTA(u, n, type) ==
    /\ Handles(u)
    /\ ~NameInUse(BareName(n), RTA)
    /\ StartCreating(u, RTA, type, BareName(n))

SetGameId ==
    /\ lobby.pc = "setGameId"
    /\ gameId' = [gameId EXCEPT ![lobby.user] = lobby.id]
    /\ lobby' = [lobby EXCEPT !.pc = "seatHost"]
    /\ UNCHANGED <<status, sessionId, isHost, addrKnown, pinned, gameVars,
                   disc>>

(* The discovery address is cleared and the creator takes a seat. *)
SeatHost ==
    /\ lobby.pc = "seatHost"
    /\ addrKnown' = [addrKnown EXCEPT ![lobby.user] = FALSE]
    /\ \E s \in SeatNumbers :
          /\ IsFirstFree(s, game[lobby.id])
          /\ game' = [game EXCEPT ![lobby.id] = WithMember(@, lobby.user, s)]
    /\ lobby' = [lobby EXCEPT !.pc = "list"]
    /\ UNCHANGED <<status, sessionId, isHost, gameId, pinned, listed, next,
                   disc>>

ListGame ==
    /\ lobby.pc = "list"
    /\ listed' = listed \cup {lobby.id}
    /\ lobby' = IF game[lobby.id].kind = CON /\ game[lobby.id].type = "Public"
                THEN [lobby EXCEPT !.pc = "reclear"] ELSE LobbyIdle
    /\ UNCHANGED <<userVars, game, next, disc>>

(* RequestCreatePublicGame clears the address again, the game now listed. *)
ReclearAddress ==
    /\ lobby.pc = "reclear"
    /\ isHost' = [isHost EXCEPT ![lobby.user] = TRUE]
    /\ addrKnown' = [addrKnown EXCEPT ![lobby.user] = FALSE]
    /\ lobby' = LobbyIdle
    /\ UNCHANGED <<status, sessionId, gameId, pinned, gameVars, disc>>

----------------------------------------------------------------------------
(* The lobby thread: joining, leaving and starting a game.                 *)

(* RequestGetGame and RequestGetGame_RTA: point the user at a game by name. *)
GetGame(u, name) ==
    /\ Handles(u)
    /\ name # BareName(EmptyName)
    /\ \E i \in Ids :
         /\ IsFirstMatch(i, name, TypeOf[u])
         /\ game[i].current < game[i].max
         /\ HasOwner(game[i])
         /\ lobby' = [pc |-> "enter", user |-> u, id |-> i]
    /\ isHost' = [isHost EXCEPT ![u] = FALSE]
    /\ UNCHANGED <<status, sessionId, gameId, addrKnown, pinned, gameVars,
                   disc>>

(* RequestDoClientDiscovery_RTA does not ask whether the game has room. *)
DoClientDiscovery_RTA(u, i) ==
    /\ Handles(u)
    /\ Find(i, TypeOf[u])
    /\ isHost' = [isHost EXCEPT ![u] = FALSE]
    /\ lobby' = [pc |-> "enter", user |-> u, id |-> i]
    /\ UNCHANGED <<status, sessionId, gameId, addrKnown, pinned, gameVars,
                   disc>>

EnterGame ==
    /\ lobby.pc = "enter"
    /\ gameId' = [gameId EXCEPT ![lobby.user] = lobby.id]
    /\ lobby' = LobbyIdle
    /\ UNCHANGED <<status, sessionId, isHost, addrKnown, pinned, gameVars,
                   disc>>

(* RequestDoClientDiscovery sets the two fields in the other order. *)
DoClientDiscovery_CON(u, i) ==
    /\ Handles(u)
    /\ Find(i, TypeOf[u])
    /\ IsJoinable(game[i], u)
    /\ gameId' = [gameId EXCEPT ![u] = i]
    /\ lobby' = [pc |-> "guest", user |-> u, id |-> i]
    /\ UNCHANGED <<status, sessionId, isHost, addrKnown, pinned, gameVars,
                   disc>>

BecomeGuest ==
    /\ lobby.pc = "guest"
    /\ isHost' = [isHost EXCEPT ![lobby.user] = FALSE]
    /\ lobby' = LobbyIdle
    /\ UNCHANGED <<status, sessionId, gameId, addrKnown, pinned, gameVars,
                   disc>>

UserJoinSuccess(u) ==
    LET i == gameId[u] IN
    /\ Handles(u)
    /\ Find(i, TypeOf[u])
    /\ HasRoom(game[i])
    /\ CanSeat(game[i], u)
    /\ \E s \in SeatNumbers :
          /\ IsFirstFree(s, game[i])
          /\ game' = [game EXCEPT ![i] = WithMember(@, u, s)]
    /\ UNCHANGED <<userVars, listed, next, lobby, disc>>

(* RequestCancel, for a member or not. *)
CancelGame(u) ==
    LET i == gameId[u] IN
    /\ Handles(u)
    /\ Find(i, TypeOf[u])
    /\ game' = [game EXCEPT ![i] = WithoutMember(@, u)]
    /\ gameId' = IF u \in LiveMembers(game[i])
                 THEN [gameId EXCEPT ![u] = NoId] ELSE gameId
    /\ listed' = IF game'[i].current <= 0 THEN listed \ {i} ELSE listed
    /\ UNCHANGED <<status, sessionId, isHost, addrKnown, pinned, next,
                   lobby, disc>>

(* RequestStart marks the game and takes it off the list under one lock. *)
StartGame(u) ==
    LET i == gameId[u] IN
    /\ Handles(u)
    /\ Find(i, TypeOf[u])
    /\ game' = [game EXCEPT ![i].state = "Started"]
    /\ listed' = listed \ {i}
    /\ UNCHANGED <<userVars, next, lobby, disc>>

(* RequestUpdateGameData takes the counts from the text the client sends. *)
UpdateGameData(u, current, max) ==
    LET i == gameId[u] IN
    /\ Handles(u)
    /\ Find(i, TypeOf[u])
    /\ game' = [game EXCEPT ![i].current = current, ![i].max = max]
    /\ UNCHANGED <<userVars, listed, next, lobby, disc>>

----------------------------------------------------------------------------
(* The discovery thread: DiscoveryServer::ProcessPacket.                   *)

Goto(pc) == disc' = [disc EXCEPT !.pc = pc]
AtFind(pc, id) == disc' = [disc EXCEPT !.pc = pc, !.id = id]
Done == disc' = DiscIdle

(* A handshake with the session id of a user that is logged in, from its   *)
(* own address.  UDP may delay, lose or repeat it, so any time will do.    *)
Receive(u) ==
    /\ disc.pc = "idle"
    /\ status[u] = "online"
    /\ sessionId[u] # NoSession
    /\ disc' = [DiscIdle EXCEPT !.pc = "record", !.user = u]
    /\ UNCHANGED <<userVars, gameVars, lobby>>

RecordAddress ==
    /\ disc.pc = "record"
    /\ addrKnown' = [addrKnown EXCEPT ![disc.user] = TRUE]
    /\ Goto("branch")
    /\ UNCHANGED <<status, sessionId, isHost, gameId, pinned, gameVars, lobby>>

Branch ==
    /\ disc.pc = "branch"
    /\ Goto(IF isHost[disc.user] THEN "openFind" ELSE "joinFind")
    /\ UNCHANGED <<userVars, gameVars, lobby>>

(* Mutant: every game is looked for in the list of the first game type. *)
FindGame_firstList ==
    /\ disc.pc \in {"openFind", "joinFind"}
    /\ LET i == gameId[disc.user] IN
         IF Find(i, CON)
         THEN AtFind(IF disc.pc = "openFind" THEN "openCheck" ELSE "joinState", i)
         ELSE Done
    /\ UNCHANGED <<userVars, gameVars, lobby>>

(* RequestOpen and RequestJoin begin alike. *)
FindGame ==
    /\ disc.pc \in {"openFind", "joinFind"}
    /\ LET i == gameId[disc.user] IN
         IF Find(i, TypeOf[disc.user])
         THEN AtFind(IF disc.pc = "openFind" THEN "openCheck" ELSE "joinState", i)
         ELSE Done
    /\ UNCHANGED <<userVars, gameVars, lobby>>

OpenCheck ==
    /\ disc.pc = "openCheck"
    /\ IF game[disc.id].state = "Open" \/ ~addrKnown[disc.user]
       THEN Done ELSE Goto("openCopy")
    /\ UNCHANGED <<userVars, gameVars, lobby>>

OpenCopy ==
    /\ disc.pc = "openCopy"
    /\ game' = [game EXCEPT ![disc.id].hostAddr = addrKnown[disc.user]]
    /\ Goto("publish")
    /\ UNCHANGED <<userVars, listed, next, lobby>>

Publish ==
    /\ disc.pc = "publish"
    /\ game' = [game EXCEPT ![disc.id].state = "Open"]
    /\ Goto("announce")
    /\ UNCHANGED <<userVars, listed, next, lobby>>

(* NotifyGameDiscovered tells the host its own address, as it is then. *)
Announce ==
    /\ disc.pc = "announce"
    /\ Done
    /\ UNCHANGED <<userVars, gameVars, lobby>>

JoinState ==
    /\ disc.pc = "joinState"
    /\ IF game[disc.id].state = "Open" THEN Goto("joinOwner") ELSE Done
    /\ UNCHANGED <<userVars, gameVars, lobby>>

(* Mutant: a game without its host is left alone. *)
JoinOwner_keeps ==
    /\ disc.pc = "joinOwner"
    /\ disc' = IF HasOwner(game[disc.id])
               THEN [disc EXCEPT !.pc = "joinAddr", !.host = Owner(game[disc.id])]
               ELSE DiscIdle
    /\ UNCHANGED <<userVars, gameVars, lobby>>

JoinOwner ==
    /\ disc.pc = "joinOwner"
    /\ disc' = IF HasOwner(game[disc.id])
               THEN [disc EXCEPT !.pc = "joinAddr", !.host = Owner(game[disc.id])]
               ELSE [disc EXCEPT !.pc = "terminate"]
    /\ UNCHANGED <<userVars, gameVars, lobby>>

JoinAddr ==
    /\ disc.pc = "joinAddr"
    /\ Goto(IF addrKnown[disc.host] THEN "introduce" ELSE "terminate")
    /\ UNCHANGED <<userVars, gameVars, lobby>>

(* ForceTerminateGame. *)
Terminate ==
    /\ disc.pc = "terminate"
    /\ Delist(disc.id, TypeOf[disc.user])
    /\ Done
    /\ UNCHANGED <<userVars, game, next, lobby>>

(* NotifyClientDiscovered to the joiner, NotifyClientRequestConnect to the *)
(* host: both carry the joiner's address.                                  *)
Introduce ==
    /\ disc.pc = "introduce"
    /\ Done
    /\ UNCHANGED <<userVars, gameVars, lobby>>

----------------------------------------------------------------------------
Connection ==
    \E u \in Users :
        \/ Connect(u)
        \/ Login(u)
        \/ \E held \in BOOLEAN : RemoveUser(u, held)
        \/ Release(u)

Request ==
    \E u \in Users :
        \/ \E n \in Names \cup {EmptyName} :
              \/ \E stage \in Stages : CreatePublic_CON(u, n, stage)
              \/ CreatePrivate_CON(u, n)
              \/ \E type \in {"Public", "Private"} : CreateGame_RTA(u, n, type)
        \/ \E name \in GameNames : GetGame(u, name)
        \/ \E i \in Ids : DoClientDiscovery_CON(u, i) \/ DoClientDiscovery_RTA(u, i)
        \/ UserJoinSuccess(u)
        \/ CancelGame(u)
        \/ StartGame(u)
        \/ \E current, max \in Counts : UpdateGameData(u, current, max)

(* The rest of a handler the lobby thread has begun. *)
LobbyStep ==
    \/ SetGameId \/ SeatHost \/ ListGame \/ ReclearAddress
    \/ EnterGame \/ BecomeGuest

(* The rest of a packet the discovery thread has begun. *)
DiscoveryStep ==
    \/ RecordAddress \/ Branch \/ FindGame
    \/ OpenCheck \/ OpenCopy \/ Publish \/ Announce
    \/ JoinState \/ JoinOwner \/ JoinAddr \/ Terminate \/ Introduce

Next ==
    \/ Connection
    \/ Request
    \/ LobbyStep
    \/ \E u \in Users : Receive(u)
    \/ DiscoveryStep

(* Both threads keep running: what they have begun they go on with. *)
Spec == Init /\ [][Next]_vars /\ WF_vars(LobbyStep) /\ WF_vars(DiscoveryStep)

----------------------------------------------------------------------------
(* PROPERTIES *)

(* A game on the list has not been started: RequestStart marks it and      *)
(* erases it under one lock, and no other step can put it back.            *)
ListedNotStarted == \A i \in listed : game[i].state # "Started"

(* No two listed games of Return to Arms have one name, so a client that   *)
(* asks for a game by name gets the one it saw: CreateGameSession_RTA      *)
(* looks for the name before it makes a game, whoever asks for one.        *)
RtaNamesUnique ==
    \A i, j \in listed :
        /\ game[i].kind = RTA /\ game[j].kind = RTA
        /\ game[i].name = game[j].name
        /\ game[i].name # BareName(EmptyName)
        => i = j

(* Members that are still there have a seat each: AddMember recognises a   *)
(* member by its session id, reuses the seats of members that are gone and *)
(* runs for users that log in, and out of m_users, at any time.            *)
OneSeatEach ==
    \A i \in Ids : i < next =>
        \A s, t \in SeatNumbers :
            /\ Live(game[i].seat[s]) /\ Live(game[i].seat[t])
            /\ sessionId[game[i].seat[s]] = sessionId[game[i].seat[t]]
            => s = t

(* When a host is gone, so is the game it was in: OnDisconnectUser must    *)
(* find the game by the id the host points at, whatever the host did       *)
(* between taking its seat and leaving.  Two games stay behind, as the     *)
(* code has it: one that its host turned away from, to make or to ask for  *)
(* another, and one that was made with a request of the other game, which  *)
(* OnDisconnectUser does not find in the list of the host's m_gameType.    *)
DepartedHostEndsGame ==
    \A i \in listed :
        LET host == Owner(game[i]) IN
        /\ host # NoUser /\ status[host] = "removed"
        /\ game[i].kind = TypeOf[host]
        => gameId[host] # i

(* A user that leaves does not end the game of a host that is still there. *)
(* The exception is the code's: two users that have not logged in have the *)
(* same empty session id, and OnDisconnectUser takes one for the other.    *)
StrangerCannotEndGame ==
    [][\A u \in Users, i \in listed :
          /\ status[u] = "online" /\ status'[u] = "removed"
          /\ i \notin listed'
          => \/ Owner(game[i]) = u
             \/ ~HasOwner(game[i])
             \/ sessionId[u] = NoSession]_vars

(* Whoever takes a seat is counted, and the count stays within what the    *)
(* game takes: the counts are the client's, anything an int8_t can be, and *)
(* m_currentPlayers++ must not go over their end.                          *)
SeatingIsCounted ==
    [][\A i \in Ids : i < next =>
          \A s \in SeatNumbers :
              game'[i].seat[s] \notin {NoUser, game[i].seat[s]} =>
                  /\ game'[i].current = game[i].current + 1
                  /\ game'[i].current <= game[i].max]_vars

(* The list keeps the promise of GameLifecycle: the two threads together   *)
(* never announce a game twice, close an open one or bring one back, even  *)
(* when the discovery thread opens a session the lobby has just erased.    *)
phase == [i \in Ids |->
            IF i \in listed THEN IF game[i].state = "Open" THEN "open" ELSE "closed"
            ELSE IF i >= next \/ (lobby.pc \in CreatePcs /\ lobby.id = i) THEN "unborn"
            ELSE "gone"]

Lifecycle == INSTANCE GameLifecycle WITH Games <- Ids, phase <- phase
ImplementsLifecycle == Lifecycle!Spec

(* The host's handshake opens its game: once the discovery thread has      *)
(* taken a packet from the host of a listed game and the lobby is between  *)
(* requests, the game opens, unless it ends or the host turns to another   *)
(* game or stops hosting.  The game is one of the type its host plays:     *)
(* RequestOpen looks for it in that list only.                             *)
Hosting(u, i) ==
    gameId[u] = i /\ isHost[u] /\ i \in listed /\ game[i].kind = TypeOf[u]
HandshakeOpensGame ==
    \A u \in Users, i \in Ids :
        (Hosting(u, i) /\ lobby.pc = "idle" /\ disc.pc = "record" /\ disc.user = u)
            ~> (~Hosting(u, i) \/ game[i].state = "Open")

(* A game whose host has cancelled, or is gone and left it behind, does    *)
(* not stay: the next handshake of a user that would join it takes it off  *)
(* the list, unless somebody takes the host's seat in the meantime.        *)
Hostless(i) == i \in listed /\ game[i].state = "Open" /\ ~HasOwner(game[i])
HostlessGameEnds ==
    \A i \in Ids :
        (Hostless(i) /\ disc.pc = "joinState" /\ disc.id = i)
            ~> (i \notin listed \/ HasOwner(game[i]))

----------------------------------------------------------------------------
(* The inductive invariant behind the properties above. *)

(* A game that is being created is known to the lobby thread alone, and is *)
(* as its constructor left it until its creator is seated.                 *)
CreatingFresh ==
    lobby.pc \in CreatePcs =>
        /\ lobby.id \notin listed
        /\ disc.id # lobby.id
        /\ game[lobby.id].state = "NotReady"
        /\ lobby.pc # "list" =>
             /\ game[lobby.id].seat = [s \in SeatNumbers |-> NoUser]
             /\ game[lobby.id].current < game[lobby.id].max
        /\ \A s \in SeatNumbers : game[lobby.id].seat[s] \in {NoUser, lobby.user}

(* A user stays in m_users while the lobby thread handles its request. *)
HandledIsOnline == lobby.pc # "idle" => status[lobby.user] = "online"

SessionIdsDiffer == \A u \in Users : sessionId[u] \in {u, NoSession}

SeatedConnected ==
    \A i \in Ids : i < next =>
        \A s \in SeatNumbers : game[i].seat[s] \in Users =>
            status[game[i].seat[s]] # "absent"

HeldConnected ==
    /\ \A u \in pinned : status[u] = "removed"
    /\ disc.user # NoUser => status[disc.user] # "absent"
    /\ disc.host # NoUser => status[disc.host] # "absent"

CreatingNameFree ==
    lobby.pc \in CreatePcs /\ game[lobby.id].kind = RTA
      /\ game[lobby.id].name # BareName(EmptyName)
    => \A i \in listed : game[i].kind = RTA => game[i].name # game[lobby.id].name

IInv ==
    /\ TypeOK
    /\ CreatingFresh
    /\ HandledIsOnline
    /\ SessionIdsDiffer
    /\ SeatedConnected
    /\ HeldConnected
    /\ CreatingNameFree
    /\ ListedNotStarted
    /\ RtaNamesUnique
    /\ OneSeatEach
    /\ DepartedHostEndsGame

----------------------------------------------------------------------------
(* What the code says and does not keep. *)

(* "Game session [{}] is empty, removing it" (GameSessionManager.cpp:259): *)
(* a game that RequestCancel removes has nobody in it.                     *)
CancelRemovesEmptyGames ==
    [][\A u \in Users : CancelGame(u) =>
          \A i \in listed \ listed' : LiveMembers(game'[i]) = {}]_vars
=============================================================================
