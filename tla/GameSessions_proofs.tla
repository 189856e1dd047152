------------------------- MODULE GameSessions_proofs -------------------------
(***************************************************************************)
(* Proofs about GameSessions, for every set of users, every number of      *)
(* seats and games and every count a client reports.                       *)
(***************************************************************************)
EXTENDS GameSessions, TLAPS

(* The assumptions on the constants, and what they say of NoUser. *)
USE UsersAssumption, NamesAssumption, SeatsAssumption, MaxGamesAssumption,
    CountsAssumption

(* What wraps around stays an int8_t, and what fits is not changed. *)
LEMMA AsInt8Facts ==
    ASSUME NEW n \in Int
    PROVE  /\ AsInt8(n) \in Int8
           /\ n \in Int8 => AsInt8(n) = n
BY DEF AsInt8, Int8

LEMMA BelowRises ==
    ASSUME NEW c \in Int8, NEW m \in Int8, c < m
    PROVE  AsInt8(c + 1) = c + 1 /\ c + 1 <= m
<1>1. c + 1 \in Int8 /\ c + 1 \in Int /\ c + 1 <= m
  BY DEF Int8
<1>. QED  BY <1>1, AsInt8Facts

(* A session's record keeps its type when a member takes a free seat. *)
LEMMA WithMemberType ==
    ASSUME NEW g \in GameRecord, NEW u \in Users, NEW s \in SeatNumbers
    PROVE  WithMember(g, u, s) \in GameRecord
<1>1. [g.seat EXCEPT ![s] = u] \in [SeatNumbers -> Users \cup {NoUser}]
  BY DEF GameRecord
<1>2. AsInt8(g.current + 1) \in Int8
  BY AsInt8Facts DEF GameRecord, Int8
<1>. QED  BY <1>1, <1>2 DEF WithMember, GameRecord

(* So it does when a player is taken off the count. *)
LEMMA WithoutMemberType ==
    ASSUME NEW g \in GameRecord, NEW u \in Users
    PROVE  WithoutMember(g, u) \in GameRecord
<1>1. [t \in SeatNumbers |-> IF g.seat[t] = u THEN NoUser ELSE g.seat[t]]
        \in [SeatNumbers -> Users \cup {NoUser}]
  BY DEF GameRecord
<1>2. AsInt8(g.current - 1) \in Int8
  BY AsInt8Facts DEF GameRecord, Int8
<1>. QED  BY <1>1, <1>2 DEF WithoutMember, GameRecord

LEMMA NewGameType ==
    ASSUME NEW kind \in {CON, RTA}, NEW type \in {"Public", "Private"},
           NEW name \in GameNames
    PROVE  NewGame(kind, type, name) \in GameRecord
BY DEF NewGame, GameRecord, SeatNumbers, Int8

(* And when one of its plain fields is written. *)
LEMMA FieldType ==
    ASSUME NEW g \in GameRecord
    PROVE  /\ \A st \in {"NotReady", "Open", "Started"} :
                 [g EXCEPT !.state = st] \in GameRecord
           /\ \A known \in BOOLEAN : [g EXCEPT !.hostAddr = known] \in GameRecord
           /\ \A current, max \in Int8 :
                 [g EXCEPT !.current = current, !.max = max] \in GameRecord
<1>1. \A st \in {"NotReady", "Open", "Started"} :
        [g EXCEPT !.state = st] \in GameRecord
  BY DEF GameRecord
<1>2. \A known \in BOOLEAN : [g EXCEPT !.hostAddr = known] \in GameRecord
  BY DEF GameRecord
<1>3. ASSUME NEW current \in Int8, NEW max \in Int8
      PROVE  [g EXCEPT !.current = current, !.max = max] \in GameRecord
  BY DEF GameRecord
<1>. QED  BY <1>1, <1>2, <1>3

(* What the type invariant says of a listed game. *)
LEMMA ListedType ==
    ASSUME GamesOK, NEW i \in listed
    PROVE  /\ i \in Ids /\ i < next
           /\ game[i] \in GameRecord
           /\ game[i].current \in Int8 /\ game[i].max \in Int8
<1>1. i \in Ids /\ i < next /\ game[i] \in GameRecord
  BY DEF GamesOK
<1>. QED  BY <1>1 DEF GameRecord

(* ------------------------- The type invariant ------------------------- *)

LEMMA UsersStep ==
    ASSUME TypeOK, [Next]_vars
    PROVE  UsersOK'
<1>. USE DEF UsersOK, TypeOK
<1>1. ASSUME NEW u \in Users,
             \/ Connect(u)
             \/ Login(u)
             \/ \E held \in BOOLEAN : RemoveUser(u, held)
             \/ Release(u)
      PROVE  UsersOK'
  BY <1>1 DEF Connect, Login, RemoveUser, Release
<1>2. ASSUME NEW u \in Users, NEW kind, NEW type, NEW name, StartCreating(u, kind, type, name)
      PROVE  UsersOK'
  BY <1>2 DEF StartCreating
<1>3. ASSUME NEW u \in Users, NEW i \in Ids,
             \/ DoClientDiscovery_CON(u, i)
             \/ DoClientDiscovery_RTA(u, i)
      PROVE  UsersOK'
  <2>1. CASE DoClientDiscovery_CON(u, i)
    BY <2>1 DEF DoClientDiscovery_CON
  <2>2. CASE DoClientDiscovery_RTA(u, i)
    BY <2>2 DEF DoClientDiscovery_RTA
  <2>. QED  BY <1>3, <2>1, <2>2
<1>4. ASSUME NEW u \in Users, NEW name, GetGame(u, name)
      PROVE  UsersOK'
  BY <1>4 DEF GetGame
<1>5. ASSUME NEW u \in Users,
             \/ UserJoinSuccess(u) \/ CancelGame(u) \/ StartGame(u)
             \/ \E current, max \in Counts : UpdateGameData(u, current, max)
      PROVE  UsersOK'
  BY <1>5 DEF UserJoinSuccess, CancelGame, StartGame, UpdateGameData, userVars
<1>6. CASE LobbyStep
  BY <1>6 DEF LobbyStep, SetGameId, SeatHost, ListGame, ReclearAddress, EnterGame,
              BecomeGuest, userVars, LobbyOK, CreatePcs
<1>7. CASE \E u \in Users : Receive(u)
  BY <1>7 DEF Receive, userVars
<1>8. CASE DiscoveryStep
  BY <1>8 DEF DiscoveryStep, RecordAddress, Branch, FindGame, OpenCheck, OpenCopy,
              Publish, Announce, JoinState, JoinOwner, JoinAddr, Terminate,
              Introduce, userVars
<1>9. CASE UNCHANGED vars
  BY <1>9 DEF vars, userVars
<1>. QED
  BY <1>1, <1>2, <1>3, <1>4, <1>5, <1>6, <1>7, <1>8, <1>9
  DEF Next, Connection, Request, CreatePublic_CON, CreatePrivate_CON, CreateGame_RTA

LEMMA GamesStep ==
    ASSUME IInv, [Next]_vars
    PROVE  GamesOK'
<1>. USE DEF GamesOK, TypeOK, IInv, Ids
<1>1. ASSUME NEW u \in Users, Connect(u) \/ Login(u) \/ Release(u)
      PROVE  GamesOK'
  <2>1. UNCHANGED gameVars
    BY <1>1 DEF Connect, Login, Release, gameVars
  <2>. QED  BY <2>1 DEF gameVars
<1>2. ASSUME NEW u \in Users, NEW held \in BOOLEAN, RemoveUser(u, held)
      PROVE  GamesOK'
  BY <1>2 DEF RemoveUser
<1>3. ASSUME NEW u \in Users, NEW kind \in {CON, RTA}, NEW type \in {"Public", "Private"},
             NEW name \in GameNames, StartCreating(u, kind, type, name)
      PROVE  GamesOK'
  <2>1. NewGame(kind, type, name) \in GameRecord
    BY NewGameType
  <2>. QED  BY <1>3, <2>1 DEF StartCreating
<1>4. ASSUME NEW u \in Users,
             \/ \E i \in Ids : DoClientDiscovery_CON(u, i) \/ DoClientDiscovery_RTA(u, i)
             \/ \E name \in GameNames : GetGame(u, name)
      PROVE  GamesOK'
  <2>1. UNCHANGED gameVars
    <3>1. ASSUME NEW i \in Ids, DoClientDiscovery_CON(u, i) \/ DoClientDiscovery_RTA(u, i)
          PROVE  UNCHANGED gameVars
      BY ONLY <3>1 DEF DoClientDiscovery_CON, DoClientDiscovery_RTA, gameVars
    <3>2. ASSUME NEW name \in GameNames, GetGame(u, name)
          PROVE  UNCHANGED gameVars
      BY ONLY <3>2 DEF GetGame, gameVars
    <3>. QED  BY <1>4, <3>1, <3>2
  <2>. QED  BY <2>1 DEF gameVars
<1>5. ASSUME NEW u \in Users, UserJoinSuccess(u)
      PROVE  GamesOK'
  <2>1. PICK s \in SeatNumbers :
          game' = [game EXCEPT ![gameId[u]] = WithMember(@, u, s)]
    BY <1>5 DEF UserJoinSuccess
  <2>2. gameId[u] \in listed
    BY <1>5 DEF UserJoinSuccess, Find
  <2>3. game[gameId[u]] \in GameRecord
    BY <2>2, ListedType
  <2>4. WithMember(game[gameId[u]], u, s) \in GameRecord
    BY <2>3, WithMemberType
  <2>. QED  BY <1>5, <2>1, <2>2, <2>4 DEF UserJoinSuccess
<1>6. ASSUME NEW u \in Users, CancelGame(u)
      PROVE  GamesOK'
  <2>1. gameId[u] \in listed
    BY <1>6 DEF CancelGame, Find
  <2>2. game[gameId[u]] \in GameRecord
    BY <2>1, ListedType
  <2>3. WithoutMember(game[gameId[u]], u) \in GameRecord
    BY <2>2, WithoutMemberType
  <2>4. /\ game' = [game EXCEPT ![gameId[u]] = WithoutMember(@, u)]
        /\ next' = next /\ listed' \subseteq listed
    BY <1>6 DEF CancelGame
  <2>5. /\ game \in [Ids -> GameRecord \cup {NoGame}]
        /\ \A i \in Ids : i < next => game[i] \in GameRecord
        /\ listed \subseteq {i \in Ids : i < next} /\ next \in 0..MaxGames
    OBVIOUS
  <2>. QED  BY ONLY <2>1, <2>3, <2>4, <2>5 DEF GamesOK
<1>7. ASSUME NEW u \in Users, StartGame(u)
      PROVE  GamesOK'
  <2>1. gameId[u] \in listed
    BY <1>7 DEF StartGame, Find
  <2>2. [game[gameId[u]] EXCEPT !.state = "Started"] \in GameRecord
    BY <2>1, FieldType
  <2>. QED  BY <1>7, <2>1, <2>2 DEF StartGame
<1>8. ASSUME NEW u \in Users, NEW current \in Counts, NEW max \in Counts,
             UpdateGameData(u, current, max)
      PROVE  GamesOK'
  <2>1. gameId[u] \in listed
    BY <1>8 DEF UpdateGameData, Find
  <2>2. [game[gameId[u]] EXCEPT !.current = current, !.max = max] \in GameRecord
    BY <2>1, FieldType, ListedType DEF Int8
  <2>. QED  BY <1>8, <2>1, <2>2 DEF UpdateGameData
<1>9. CASE SetGameId \/ ReclearAddress \/ EnterGame \/ BecomeGuest
  BY <1>9 DEF SetGameId, ReclearAddress, EnterGame, BecomeGuest, gameVars
<1>10. CASE SeatHost
  <2>1. PICK s \in SeatNumbers :
          game' = [game EXCEPT ![lobby.id] = WithMember(@, lobby.user, s)]
    BY <1>10 DEF SeatHost
  <2>2. /\ lobby.user \in Users /\ lobby.id \in Ids
        /\ game[lobby.id] \in GameRecord
    BY <1>10 DEF SeatHost, LobbyOK, CreatingFresh, CreatePcs
  <2>3. WithMember(game[lobby.id], lobby.user, s) \in GameRecord
    BY <2>2, WithMemberType
  <2>. QED  BY <1>10, <2>1, <2>2, <2>3 DEF SeatHost
<1>11. CASE ListGame
  BY <1>11 DEF ListGame, LobbyOK
<1>12. CASE \E u \in Users : Receive(u)
  BY <1>12 DEF Receive, gameVars
<1>13. CASE OpenCopy
  <2>1. disc.id \in Ids /\ disc.id < next /\ disc.user \in Users
    BY <1>13 DEF OpenCopy, DiscOK, OpenPcs, NoId
  <2>2. [game[disc.id] EXCEPT !.hostAddr = addrKnown[disc.user]] \in GameRecord
    BY <2>1, FieldType DEF UsersOK
  <2>. QED  BY <1>13, <2>1, <2>2 DEF OpenCopy
<1>14. CASE Publish
  <2>1. disc.id \in Ids /\ disc.id < next
    BY <1>14 DEF Publish, DiscOK, OpenPcs, NoId
  <2>2. [game[disc.id] EXCEPT !.state = "Open"] \in GameRecord
    BY <2>1, FieldType
  <2>. QED  BY <1>14, <2>1, <2>2 DEF Publish
<1>15. CASE Terminate
  BY <1>15 DEF Terminate, Delist
<1>16. CASE \/ RecordAddress \/ Branch \/ FindGame \/ OpenCheck \/ Announce
            \/ JoinState \/ JoinOwner \/ JoinAddr \/ Introduce
  BY <1>16 DEF RecordAddress, Branch, FindGame, OpenCheck, Announce, JoinState,
               JoinOwner, JoinAddr, Introduce, gameVars
<1>17. CASE UNCHANGED vars
  BY <1>17 DEF vars, gameVars
<1>18. \A n \in Names \cup {EmptyName} :
         BareName(n) \in GameNames /\ (n # EmptyName => \A s \in Stages : PublicName(n, s) \in GameNames)
  BY DEF GameNames
<1>19. ASSUME NEW u \in Users, NEW n \in Names \cup {EmptyName},
              \/ \E stage \in Stages : CreatePublic_CON(u, n, stage)
              \/ CreatePrivate_CON(u, n)
              \/ \E type \in {"Public", "Private"} : CreateGame_RTA(u, n, type)
       PROVE  GamesOK'
  BY <1>3, <1>18, <1>19 DEF CreatePublic_CON, CreatePrivate_CON, CreateGame_RTA
<1>20. CASE Request
  BY <1>4, <1>5, <1>6, <1>7, <1>8, <1>19, <1>20 DEF Request
<1>. QED
  BY <1>1, <1>2, <1>9, <1>10, <1>11, <1>12, <1>13, <1>14, <1>15, <1>16, <1>17, <1>20
  DEF Next, Connection, LobbyStep, DiscoveryStep
(* Both threads' records: an id they carry is one that has been given out, *)
(* and ids are never taken back.                                           *)
LEMMA NextGrows ==
    ASSUME TypeOK, [Next]_vars
    PROVE  next' >= next /\ next' \in Int
<1>. USE DEF TypeOK, GamesOK
<1>1. ASSUME NEW u \in Users, NEW kind, NEW type, NEW name, StartCreating(u, kind, type, name)
      PROVE  next' = next + 1
  BY <1>1 DEF StartCreating
<1>2. CASE Connection
  BY <1>2 DEF Connection, Connect, Login, RemoveUser, Release, gameVars
<1>3. ASSUME NEW u \in Users, NEW n \in Names \cup {EmptyName},
              \/ \E stage \in Stages : CreatePublic_CON(u, n, stage)
              \/ CreatePrivate_CON(u, n)
              \/ \E type \in {"Public", "Private"} : CreateGame_RTA(u, n, type)
      PROVE  next' = next + 1
  BY <1>1, <1>3 DEF CreatePublic_CON, CreatePrivate_CON, CreateGame_RTA
<1>4. ASSUME NEW u \in Users,
             \/ \E i \in Ids : DoClientDiscovery_CON(u, i) \/ DoClientDiscovery_RTA(u, i)
             \/ \E name \in GameNames : GetGame(u, name)
             \/ UserJoinSuccess(u) \/ CancelGame(u) \/ StartGame(u)
             \/ \E current, max \in Counts : UpdateGameData(u, current, max)
      PROVE  next' = next
  BY <1>4 DEF DoClientDiscovery_CON, DoClientDiscovery_RTA, GetGame, UserJoinSuccess,
              CancelGame, StartGame, UpdateGameData, gameVars
<1>5. CASE LobbyStep
  BY <1>5 DEF LobbyStep, SetGameId, SeatHost, ListGame, ReclearAddress, EnterGame,
              BecomeGuest, gameVars
<1>6. CASE \E u \in Users : Receive(u)
  BY <1>6 DEF Receive, gameVars
<1>7. CASE DiscoveryStep
  BY <1>7 DEF DiscoveryStep, RecordAddress, Branch, FindGame, OpenCheck, OpenCopy,
              Publish, Announce, JoinState, JoinOwner, JoinAddr, Terminate, Introduce,
              gameVars
<1>8. CASE UNCHANGED vars
  BY <1>8 DEF vars, gameVars
<1>. QED
  BY <1>2, <1>3, <1>4, <1>5, <1>6, <1>7, <1>8 DEF Next, Request

LEMMA LobbyStepType ==
    ASSUME IInv, [Next]_vars
    PROVE  LobbyOK'
<1>. USE DEF LobbyOK, TypeOK, IInv
<1>1. next' >= next /\ next' \in Int /\ next \in Int
  BY NextGrows DEF GamesOK
<1>2. ASSUME UNCHANGED lobby
      PROVE  LobbyOK'
  BY <1>1, <1>2 DEF Ids
<1>3. ASSUME NEW u \in Users, NEW kind, NEW type, NEW name, StartCreating(u, kind, type, name)
      PROVE  LobbyOK'
  BY <1>3 DEF StartCreating, GamesOK, Ids, LobbyPcs, CreatePcs
<1>4. ASSUME NEW u \in Users, NEW i \in listed, NEW pc \in {"enter", "guest"},
             lobby' = [pc |-> pc, user |-> u, id |-> i]
      PROVE  LobbyOK'
  <2>1. i \in Ids /\ i < next
    BY ListedType
  <2>. QED  BY <1>1, <1>4, <2>1 DEF LobbyPcs, Ids
<1>5. ASSUME NEW pc \in LobbyPcs, lobby.pc # "idle", lobby' = [lobby EXCEPT !.pc = pc]
      PROVE  LobbyOK'
  BY <1>1, <1>5 DEF Ids
<1>6. ASSUME lobby' = LobbyIdle
      PROVE  LobbyOK'
  BY <1>6 DEF LobbyIdle, LobbyPcs
<1>7. CASE Connection
  BY <1>2, <1>7 DEF Connection, Connect, Login, RemoveUser, Release
<1>8. ASSUME NEW u \in Users, NEW n \in Names \cup {EmptyName},
             \/ \E stage \in Stages : CreatePublic_CON(u, n, stage)
             \/ CreatePrivate_CON(u, n)
             \/ \E type \in {"Public", "Private"} : CreateGame_RTA(u, n, type)
      PROVE  LobbyOK'
  BY <1>3, <1>8 DEF CreatePublic_CON, CreatePrivate_CON, CreateGame_RTA
<1>9. ASSUME NEW u \in Users,
             \/ \E i \in Ids : DoClientDiscovery_CON(u, i) \/ DoClientDiscovery_RTA(u, i)
             \/ \E name \in GameNames : GetGame(u, name)
      PROVE  LobbyOK'
  BY <1>4, <1>9 DEF DoClientDiscovery_CON, DoClientDiscovery_RTA, GetGame, Find,
                    IsFirstMatch, Matches
<1>10. ASSUME NEW u \in Users,
              \/ UserJoinSuccess(u) \/ CancelGame(u) \/ StartGame(u)
              \/ \E current, max \in Counts : UpdateGameData(u, current, max)
       PROVE  LobbyOK'
  BY <1>2, <1>10 DEF UserJoinSuccess, CancelGame, StartGame, UpdateGameData
<1>11. CASE LobbyStep
  BY <1>5, <1>6, <1>11 DEF LobbyStep, SetGameId, SeatHost, ListGame, ReclearAddress,
                           EnterGame, BecomeGuest, LobbyPcs, CreatePcs
<1>12. CASE (\E u \in Users : Receive(u)) \/ DiscoveryStep
  BY <1>2, <1>12 DEF Receive, DiscoveryStep, RecordAddress, Branch, FindGame, OpenCheck,
                     OpenCopy, Publish, Announce, JoinState, JoinOwner, JoinAddr,
                     Terminate, Introduce
<1>13. CASE UNCHANGED vars
  BY <1>2, <1>13 DEF vars
<1>. QED
  BY <1>7, <1>8, <1>9, <1>10, <1>11, <1>12, <1>13 DEF Next, Request

LEMMA DiscStepType ==
    ASSUME IInv, [Next]_vars
    PROVE  DiscOK'
<1>. USE DEF DiscOK, TypeOK, IInv
<1>1. next' >= next /\ next' \in Int /\ next \in Int
  BY NextGrows DEF GamesOK
<1>2. ASSUME UNCHANGED disc
      PROVE  DiscOK'
  BY <1>1, <1>2 DEF Ids, NoId
<1>3. ASSUME disc' = DiscIdle
      PROVE  DiscOK'
  BY <1>3 DEF DiscIdle, DiscPcs, OpenPcs, JoinPcs
<1>4. ASSUME NEW u \in Users, Receive(u)
      PROVE  DiscOK'
  BY <1>4 DEF Receive, DiscIdle, DiscPcs, OpenPcs, JoinPcs
<1>5. CASE RecordAddress \/ Branch
  BY <1>1, <1>5 DEF RecordAddress, Branch, Goto, DiscPcs, OpenPcs, JoinPcs, Ids, NoId
<1>6. CASE FindGame
  <2>. DEFINE i == gameId[disc.user]
  <2>1. CASE Find(i, TypeOf[disc.user])
    <3>1. i \in Ids /\ i < next /\ next' = next
      BY <1>6, <2>1, ListedType DEF Find, FindGame, gameVars
    <3>2. PICK pc \in {"openCheck", "joinState"} :
            disc' = [disc EXCEPT !.pc = pc, !.id = i]
      BY <1>6, <2>1 DEF FindGame, AtFind
    <3>3. disc.user \in Users
      BY <1>6 DEF FindGame
    <3>. HIDE DEF i
    <3>. QED
      BY <3>1, <3>2, <3>3 DEF DiscPcs, OpenPcs, JoinPcs
  <2>2. CASE ~Find(i, TypeOf[disc.user])
    BY <1>3, <1>6, <2>2 DEF FindGame, Done
  <2>. QED  BY <2>1, <2>2
<1>7. ASSUME NEW pc \in OpenPcs \cup JoinPcs, disc.pc \in OpenPcs \cup JoinPcs,
             pc # "joinAddr", pc = "introduce" => disc.pc = "joinAddr", Goto(pc)
      PROVE  DiscOK'
  BY <1>1, <1>7 DEF Goto, DiscPcs, OpenPcs, JoinPcs, Ids, NoId
<1>8. CASE \/ OpenCheck \/ OpenCopy \/ Publish \/ Announce \/ JoinState
           \/ JoinAddr \/ Terminate \/ Introduce
  BY <1>3, <1>7, <1>8 DEF OpenCheck, OpenCopy, Publish, Announce, JoinState, JoinAddr,
                          Terminate, Introduce, Done, OpenPcs, JoinPcs
<1>9. CASE JoinOwner
  <2>1. disc.id \in Ids /\ disc.user \in Users /\ disc.id < next
    BY <1>9 DEF JoinOwner, JoinPcs, NoId, Ids
  <2>2. HasOwner(game[disc.id]) => Owner(game[disc.id]) \in Users
    BY DEF HasOwner, Owner, Live, UsersOK
  <2>3. CASE HasOwner(game[disc.id])
    <3>1. disc' = [disc EXCEPT !.pc = "joinAddr", !.host = Owner(game[disc.id])]
      BY <1>9, <2>3 DEF JoinOwner
    <3>2. Owner(game[disc.id]) \in Users
      BY <2>2, <2>3
    <3>3. disc' \in [pc : DiscPcs, user : Users \cup {NoUser},
                     host : Users \cup {NoUser}, id : Ids \cup {NoId}]
      BY <3>1, <3>2 DEF DiscPcs, JoinPcs
    <3>4. /\ disc'.user = disc.user /\ disc'.id = disc.id
          /\ disc'.host = Owner(game[disc.id])
      BY <3>1
    <3>5. disc'.id < next'
      BY <1>1, <2>1, <3>4 DEF Ids
    <3>. QED
      BY <2>1, <3>2, <3>3, <3>4, <3>5
  <2>4. CASE ~HasOwner(game[disc.id])
    BY <1>1, <1>9, <2>1, <2>4 DEF JoinOwner, DiscPcs, OpenPcs, JoinPcs, Ids, NoId
  <2>. QED  BY <2>3, <2>4
<1>10. CASE Connection \/ LobbyStep
  BY <1>2, <1>10 DEF Connection, Connect, Login, RemoveUser, Release, LobbyStep, SetGameId,
                     SeatHost, ListGame, ReclearAddress, EnterGame, BecomeGuest
<1>11. ASSUME NEW u \in Users,
              \/ \E n \in Names \cup {EmptyName} :
                    \/ \E stage \in Stages : CreatePublic_CON(u, n, stage)
                    \/ CreatePrivate_CON(u, n)
                    \/ \E type \in {"Public", "Private"} : CreateGame_RTA(u, n, type)
              \/ \E i \in Ids : DoClientDiscovery_CON(u, i) \/ DoClientDiscovery_RTA(u, i)
              \/ \E name \in GameNames : GetGame(u, name)
              \/ UserJoinSuccess(u) \/ CancelGame(u) \/ StartGame(u)
              \/ \E current, max \in Counts : UpdateGameData(u, current, max)
       PROVE  DiscOK'
  BY <1>2, <1>11 DEF CreatePublic_CON, CreatePrivate_CON, CreateGame_RTA, StartCreating,
                     DoClientDiscovery_CON, DoClientDiscovery_RTA, GetGame,
                     UserJoinSuccess, CancelGame, StartGame, UpdateGameData
<1>12. CASE UNCHANGED vars
  BY <1>2, <1>12 DEF vars
<1>. QED
  BY <1>4, <1>5, <1>6, <1>8, <1>9, <1>10, <1>11, <1>12 DEF Next, Request, DiscoveryStep
LEMMA TypeStep ==
    ASSUME IInv, [Next]_vars
    PROVE  TypeOK'
BY UsersStep, GamesStep, LobbyStepType, DiscStepType DEF TypeOK, IInv

(* ------------------- Which steps change which variable ------------------ *)

(* The handlers that create a game, that point a user at one, and that     *)
(* write a session.                                                        *)
Creates(u) ==
    \E n \in Names \cup {EmptyName} :
        \/ \E stage \in Stages : CreatePublic_CON(u, n, stage)
        \/ CreatePrivate_CON(u, n)
        \/ \E type \in {"Public", "Private"} : CreateGame_RTA(u, n, type)
Points(u) ==
    \/ \E name \in GameNames : GetGame(u, name)
    \/ \E i \in Ids : DoClientDiscovery_CON(u, i) \/ DoClientDiscovery_RTA(u, i)
Updates(u) == \E current, max \in Counts : UpdateGameData(u, current, max)
Leaves(u) == \E held \in BOOLEAN : RemoveUser(u, held)

(* The twenty-nine steps, in one flat list. *)
LEMMA Steps ==
    ASSUME [Next]_vars
    PROVE  \/ \E u \in Users :
                 \/ Connect(u) \/ Login(u) \/ Leaves(u) \/ Release(u)
                 \/ Creates(u) \/ Points(u) \/ UserJoinSuccess(u) \/ CancelGame(u)
                 \/ StartGame(u) \/ Updates(u) \/ Receive(u)
           \/ SetGameId \/ SeatHost \/ ListGame \/ ReclearAddress
           \/ EnterGame \/ BecomeGuest
           \/ RecordAddress \/ Branch \/ FindGame
           \/ OpenCheck \/ OpenCopy \/ Publish \/ Announce
           \/ JoinState \/ JoinOwner \/ JoinAddr \/ Terminate \/ Introduce
           \/ UNCHANGED vars
BY DEF Next, Connection, Request, LobbyStep, DiscoveryStep, Creates, Points, Updates, Leaves

LEMMA GameFrame ==
    ASSUME [Next]_vars
    PROVE  \/ game' = game
           \/ \E u \in Users :
                 Creates(u) \/ UserJoinSuccess(u) \/ CancelGame(u) \/ StartGame(u) \/ Updates(u)
           \/ SeatHost \/ OpenCopy \/ Publish
<1>1. ASSUME NEW u \in Users,
             Connect(u) \/ Login(u) \/ Leaves(u) \/ Release(u) \/ Points(u) \/ Receive(u)
      PROVE  game' = game
  BY <1>1 DEF Connect, Login, Leaves, RemoveUser, Release, Points, GetGame,
              DoClientDiscovery_CON, DoClientDiscovery_RTA, Receive, gameVars
<1>2. CASE SetGameId \/ ListGame \/ ReclearAddress \/ EnterGame \/ BecomeGuest
  BY <1>2 DEF SetGameId, ListGame, ReclearAddress, EnterGame, BecomeGuest, gameVars
<1>3. CASE RecordAddress \/ Branch \/ FindGame \/ OpenCheck \/ Announce \/ JoinState
           \/ JoinOwner \/ JoinAddr \/ Terminate \/ Introduce
  BY <1>3 DEF RecordAddress, Branch, FindGame, OpenCheck, Announce, JoinState, JoinOwner,
              JoinAddr, Terminate, Introduce, gameVars
<1>4. CASE UNCHANGED vars
  BY <1>4 DEF vars, gameVars
<1>. QED  BY <1>1, <1>2, <1>3, <1>4, Steps

(* Only ListGame puts a game on the list. *)
LEMMA ListedFrame ==
    ASSUME [Next]_vars
    PROVE  listed' \subseteq listed \/ ListGame
<1>1. ASSUME NEW u \in Users,
             \/ Connect(u) \/ Login(u) \/ Release(u) \/ Points(u) \/ Receive(u)
             \/ Creates(u) \/ UserJoinSuccess(u) \/ Updates(u)
      PROVE  listed' = listed
  BY <1>1 DEF Connect, Login, Release, Points, GetGame, DoClientDiscovery_CON,
              DoClientDiscovery_RTA, Receive, Creates, CreatePublic_CON,
              CreatePrivate_CON, CreateGame_RTA, StartCreating, UserJoinSuccess,
              Updates, UpdateGameData, gameVars
<1>2. ASSUME NEW u \in Users, Leaves(u) \/ CancelGame(u) \/ StartGame(u)
      PROVE  listed' \subseteq listed
  BY <1>2 DEF Leaves, RemoveUser, CancelGame, StartGame
<1>3. CASE SetGameId \/ SeatHost \/ ReclearAddress \/ EnterGame \/ BecomeGuest
  BY <1>3 DEF SetGameId, SeatHost, ReclearAddress, EnterGame, BecomeGuest, gameVars
<1>4. CASE RecordAddress \/ Branch \/ FindGame \/ OpenCheck \/ OpenCopy \/ Publish
           \/ Announce \/ JoinState \/ JoinOwner \/ JoinAddr \/ Introduce
  BY <1>4 DEF RecordAddress, Branch, FindGame, OpenCheck, OpenCopy, Publish, Announce,
              JoinState, JoinOwner, JoinAddr, Introduce, gameVars
<1>5. CASE Terminate
  BY <1>5 DEF Terminate, Delist
<1>6. CASE UNCHANGED vars
  BY <1>6 DEF vars, gameVars
<1>. QED  BY <1>1, <1>2, <1>3, <1>4, <1>5, <1>6, Steps

LEMMA StatusFrame ==
    ASSUME [Next]_vars
    PROVE  \/ status' = status /\ (pinned' = pinned \/ \E u \in Users : Release(u))
           \/ \E u \in Users : Connect(u) \/ Leaves(u)
<1>1. ASSUME NEW u \in Users,
             \/ Login(u) \/ Points(u) \/ Receive(u) \/ Creates(u)
             \/ UserJoinSuccess(u) \/ CancelGame(u) \/ StartGame(u) \/ Updates(u)
      PROVE  status' = status /\ pinned' = pinned
  BY <1>1 DEF Login, Points, GetGame, DoClientDiscovery_CON,
              DoClientDiscovery_RTA, Receive, Creates, CreatePublic_CON,
              CreatePrivate_CON, CreateGame_RTA, StartCreating, UserJoinSuccess,
              CancelGame, StartGame, Updates, UpdateGameData, userVars
<1>2. CASE SetGameId \/ SeatHost \/ ListGame \/ ReclearAddress \/ EnterGame \/ BecomeGuest
  BY <1>2 DEF SetGameId, SeatHost, ListGame, ReclearAddress, EnterGame, BecomeGuest, userVars
<1>3. CASE RecordAddress \/ Branch \/ FindGame \/ OpenCheck \/ OpenCopy \/ Publish
           \/ Announce \/ JoinState \/ JoinOwner \/ JoinAddr \/ Terminate \/ Introduce
  BY <1>3 DEF RecordAddress, Branch, FindGame, OpenCheck, OpenCopy, Publish, Announce,
              JoinState, JoinOwner, JoinAddr, Terminate, Introduce, userVars
<1>4. CASE UNCHANGED vars
  BY <1>4 DEF vars, userVars
<1>5. ASSUME NEW u \in Users, Release(u)
      PROVE  status' = status
  BY <1>5 DEF Release
<1>. QED  BY <1>1, <1>2, <1>3, <1>4, <1>5, Steps

LEMMA SessionFrame ==
    ASSUME [Next]_vars
    PROVE  sessionId' = sessionId \/ \E u \in Users : Login(u)
<1>1. ASSUME NEW u \in Users,
             \/ Connect(u) \/ Leaves(u) \/ Release(u) \/ Points(u) \/ Receive(u)
             \/ Creates(u) \/ UserJoinSuccess(u) \/ CancelGame(u) \/ StartGame(u)
             \/ Updates(u)
      PROVE  sessionId' = sessionId
  BY <1>1 DEF Connect, Leaves, RemoveUser, Release, Points, GetGame,
              DoClientDiscovery_CON, DoClientDiscovery_RTA, Receive, Creates,
              CreatePublic_CON, CreatePrivate_CON, CreateGame_RTA, StartCreating,
              UserJoinSuccess, CancelGame, StartGame, Updates, UpdateGameData, userVars
<1>2. CASE SetGameId \/ SeatHost \/ ListGame \/ ReclearAddress \/ EnterGame \/ BecomeGuest
  BY <1>2 DEF SetGameId, SeatHost, ListGame, ReclearAddress, EnterGame, BecomeGuest, userVars
<1>3. CASE RecordAddress \/ Branch \/ FindGame \/ OpenCheck \/ OpenCopy \/ Publish
           \/ Announce \/ JoinState \/ JoinOwner \/ JoinAddr \/ Terminate \/ Introduce
  BY <1>3 DEF RecordAddress, Branch, FindGame, OpenCheck, OpenCopy, Publish, Announce,
              JoinState, JoinOwner, JoinAddr, Terminate, Introduce, userVars
<1>4. CASE UNCHANGED vars
  BY <1>4 DEF vars, userVars
<1>. QED  BY <1>1, <1>2, <1>3, <1>4, Steps

(* m_gameId moves only for a user of m_users. *)
LEMMA GameIdFrame ==
    ASSUME TypeOK, HandledIsOnline, [Next]_vars
    PROVE  \A v \in Users : status[v] # "online" => gameId'[v] = gameId[v]
<1>. USE DEF TypeOK, UsersOK, LobbyOK
<1>1. ASSUME NEW u \in Users,
             \/ Connect(u) \/ Login(u) \/ Leaves(u) \/ Release(u) \/ Receive(u)
             \/ Creates(u) \/ UserJoinSuccess(u) \/ StartGame(u) \/ Updates(u)
      PROVE  gameId' = gameId
  BY <1>1 DEF Connect, Login, Leaves, RemoveUser, Release, Receive, Creates,
              CreatePublic_CON, CreatePrivate_CON, CreateGame_RTA, StartCreating,
              UserJoinSuccess, StartGame, Updates, UpdateGameData, userVars
<1>2. ASSUME NEW u \in Users, Points(u) \/ CancelGame(u), NEW v \in Users,
             status[v] # "online"
      PROVE  gameId'[v] = gameId[v]
  BY <1>2 DEF Points, GetGame, DoClientDiscovery_CON, DoClientDiscovery_RTA,
              CancelGame, Handles
<1>3. CASE SetGameId \/ EnterGame
  BY <1>3 DEF SetGameId, EnterGame, HandledIsOnline
<1>4. CASE SeatHost \/ ListGame \/ ReclearAddress \/ BecomeGuest
  BY <1>4 DEF SeatHost, ListGame, ReclearAddress, BecomeGuest, userVars
<1>5. CASE RecordAddress \/ Branch \/ FindGame \/ OpenCheck \/ OpenCopy \/ Publish
           \/ Announce \/ JoinState \/ JoinOwner \/ JoinAddr \/ Terminate \/ Introduce
  BY <1>5 DEF RecordAddress, Branch, FindGame, OpenCheck, OpenCopy, Publish, Announce,
              JoinState, JoinOwner, JoinAddr, Terminate, Introduce, userVars
<1>6. CASE UNCHANGED vars
  BY <1>6 DEF vars, userVars
<1>. QED  BY <1>1, <1>2, <1>3, <1>4, <1>5, <1>6, Steps
LEMMA LobbyFrame ==
    ASSUME [Next]_vars
    PROVE  \/ lobby' = lobby
           \/ \E u \in Users : Creates(u) \/ Points(u)
           \/ SetGameId \/ SeatHost \/ ListGame \/ ReclearAddress
           \/ EnterGame \/ BecomeGuest
<1>1. ASSUME NEW u \in Users,
             \/ Connect(u) \/ Login(u) \/ Leaves(u) \/ Release(u) \/ Receive(u)
             \/ UserJoinSuccess(u) \/ CancelGame(u) \/ StartGame(u) \/ Updates(u)
      PROVE  lobby' = lobby
  BY <1>1 DEF Connect, Login, Leaves, RemoveUser, Release, Receive, UserJoinSuccess,
              CancelGame, StartGame, Updates, UpdateGameData
<1>2. CASE RecordAddress \/ Branch \/ FindGame \/ OpenCheck \/ OpenCopy \/ Publish
           \/ Announce \/ JoinState \/ JoinOwner \/ JoinAddr \/ Terminate \/ Introduce
  BY <1>2 DEF RecordAddress, Branch, FindGame, OpenCheck, OpenCopy, Publish, Announce,
              JoinState, JoinOwner, JoinAddr, Terminate, Introduce
<1>3. CASE UNCHANGED vars
  BY <1>3 DEF vars
<1>. QED  BY <1>1, <1>2, <1>3, Steps

(* The discovery thread takes hold of users that are there, and of games   *)
(* that are on the list.                                                   *)
LEMMA DiscFrame ==
    ASSUME TypeOK, [Next]_vars
    PROVE  /\ \A v \in {disc'.user, disc'.host} : v # NoUser => Live(v)
           /\ disc'.id \in {disc.id, NoId} \cup listed
<1>. USE DEF TypeOK, DiscOK
<1>1. ASSUME disc' = disc
      PROVE  /\ \A v \in {disc'.user, disc'.host} : v # NoUser => Live(v)
             /\ disc'.id \in {disc.id, NoId} \cup listed
  BY <1>1 DEF Live
<1>2. ASSUME disc' = DiscIdle
      PROVE  /\ \A v \in {disc'.user, disc'.host} : v # NoUser => Live(v)
             /\ disc'.id \in {disc.id, NoId} \cup listed
  BY <1>2 DEF DiscIdle
<1>3. ASSUME NEW pc, Goto(pc)
      PROVE  /\ \A v \in {disc'.user, disc'.host} : v # NoUser => Live(v)
             /\ disc'.id \in {disc.id, NoId} \cup listed
  BY <1>3 DEF Goto, Live
<1>4. ASSUME NEW u \in Users, Receive(u)
      PROVE  /\ \A v \in {disc'.user, disc'.host} : v # NoUser => Live(v)
             /\ disc'.id \in {disc.id, NoId} \cup listed
  BY <1>4 DEF Receive, DiscIdle, Live
<1>5. CASE FindGame
  <2>. DEFINE i == gameId[disc.user]
  <2>1. CASE Find(i, TypeOf[disc.user])
    <3>1. PICK pc : disc' = [disc EXCEPT !.pc = pc, !.id = i]
      BY <1>5, <2>1 DEF FindGame, AtFind
    <3>2. i \in listed
      BY <2>1 DEF Find
    <3>. HIDE DEF i
    <3>. QED  BY <3>1, <3>2 DEF Live
  <2>2. CASE ~Find(i, TypeOf[disc.user])
    BY <1>2, <1>5, <2>2 DEF FindGame, Done
  <2>. QED  BY <2>1, <2>2
<1>6. CASE JoinOwner
  <2>1. CASE HasOwner(game[disc.id])
    <3>1. disc' = [disc EXCEPT !.pc = "joinAddr", !.host = Owner(game[disc.id])]
      BY <1>6, <2>1 DEF JoinOwner
    <3>2. Live(Owner(game[disc.id]))
      BY <2>1 DEF HasOwner, Owner
    <3>3. disc.user # NoUser => Live(disc.user)
      BY DEF Live
    <3>. QED  BY <3>1, <3>2, <3>3
  <2>2. CASE ~HasOwner(game[disc.id])
    BY <1>3, <1>6, <2>2 DEF JoinOwner, Goto
  <2>. QED  BY <2>1, <2>2
<1>7. CASE \/ RecordAddress \/ Branch \/ OpenCheck \/ OpenCopy \/ Publish \/ Announce
           \/ JoinState \/ JoinAddr \/ Terminate \/ Introduce
  BY <1>2, <1>3, <1>7 DEF RecordAddress, Branch, OpenCheck, OpenCopy, Publish, Announce,
              JoinState, JoinAddr, Terminate, Introduce, Done
<1>8. ASSUME NEW u \in Users,
             \/ Connect(u) \/ Login(u) \/ Leaves(u) \/ Release(u) \/ Creates(u)
             \/ Points(u) \/ UserJoinSuccess(u) \/ CancelGame(u) \/ StartGame(u)
             \/ Updates(u)
      PROVE  disc' = disc
  BY <1>8 DEF Connect, Login, Leaves, RemoveUser, Release, Points, GetGame,
              DoClientDiscovery_CON, DoClientDiscovery_RTA, Creates,
              CreatePublic_CON, CreatePrivate_CON, CreateGame_RTA, StartCreating,
              UserJoinSuccess, CancelGame, StartGame, Updates, UpdateGameData
<1>9. CASE SetGameId \/ SeatHost \/ ListGame \/ ReclearAddress \/ EnterGame \/ BecomeGuest
  BY <1>1, <1>9 DEF SetGameId, SeatHost, ListGame, ReclearAddress, EnterGame, BecomeGuest
<1>10. CASE UNCHANGED vars
  BY <1>1, <1>10 DEF vars
<1>. QED  BY <1>1, <1>4, <1>5, <1>6, <1>7, <1>8, <1>9, <1>10, Steps

(* Nobody comes back: a weak_ptr that has expired stays expired.           *)
LEMMA LiveFrame ==
    ASSUME TypeOK, [Next]_vars, NEW v, Live(v)'
    PROVE  Live(v) \/ (Connect(v) /\ v \in Users /\ status[v] = "absent")
<1>. USE DEF TypeOK, UsersOK
<1>1. CASE v # NoUser /\ v \in {disc'.user, disc'.host}
  BY <1>1, DiscFrame
<1>2. CASE (v \in Users /\ status'[v] = "online") \/ v \in pinned'
  <2>1. CASE status' = status /\ (pinned' = pinned \/ \E u \in Users : Release(u))
    BY <1>2, <2>1 DEF Live, Release
  <2>2. ASSUME NEW u \in Users, Connect(u)
        PROVE  Live(v) \/ (Connect(v) /\ v \in Users /\ status[v] = "absent")
    BY <1>2, <2>2 DEF Connect, Live
  <2>3. ASSUME NEW u \in Users, Leaves(u)
        PROVE  Live(v)
    BY <1>2, <2>3 DEF Leaves, RemoveUser, Handles, Live
  <2>. QED  BY <2>1, <2>2, <2>3, StatusFrame
<1>. QED  BY <1>1, <1>2 DEF Live

(* What a step does to a session that exists. *)
Joins(i) == \E u \in Users, s \in SeatNumbers :
    /\ UserJoinSuccess(u) /\ i \in listed /\ gameId[u] = i
    /\ IsFirstFree(s, game[i]) /\ game'[i] = WithMember(game[i], u, s)
Cancels(i) == \E u \in Users :
    /\ CancelGame(u) /\ i \in listed /\ gameId[u] = i
    /\ game'[i] = WithoutMember(game[i], u)
Starts(i) ==
    /\ i \in listed /\ i \notin listed'
    /\ game'[i] = [game[i] EXCEPT !.state = "Started"]
Counted(i) == i \in listed /\ \E current, max \in Counts :
    game'[i] = [game[i] EXCEPT !.current = current, !.max = max]
Seated(i) == \E s \in SeatNumbers :
    /\ SeatHost /\ lobby.id = i
    /\ IsFirstFree(s, game[i]) /\ game'[i] = WithMember(game[i], lobby.user, s)
Opens(i) ==
    /\ disc.id = i
    /\ \/ game'[i] = [game[i] EXCEPT !.hostAddr = addrKnown[disc.user]]
       \/ Publish /\ game'[i] = [game[i] EXCEPT !.state = "Open"]

LEMMA SessionStep ==
    ASSUME TypeOK, [Next]_vars, NEW i \in Ids, i < next
    PROVE  \/ game'[i] = game[i]
           \/ Joins(i) \/ Cancels(i) \/ Starts(i) \/ Counted(i) \/ Seated(i) \/ Opens(i)
<1>. USE DEF TypeOK, GamesOK
<1>1. ASSUME NEW u \in Users, Creates(u)
      PROVE  game'[i] = game[i]
  BY <1>1 DEF Creates, CreatePublic_CON, CreatePrivate_CON, CreateGame_RTA,
              StartCreating, Ids
<1>2. ASSUME NEW u \in Users, UserJoinSuccess(u)
      PROVE  game'[i] = game[i] \/ Joins(i)
  <2>1. PICK s \in SeatNumbers :
          /\ IsFirstFree(s, game[gameId[u]])
          /\ game' = [game EXCEPT ![gameId[u]] = WithMember(@, u, s)]
    BY <1>2 DEF UserJoinSuccess
  <2>2. gameId[u] \in listed
    BY <1>2 DEF UserJoinSuccess, Find
  <2>3. CASE gameId[u] = i
    <3>1. game'[i] = WithMember(game[i], u, s)
      BY <2>1, <2>3
    <3>. QED  BY <1>2, <2>1, <2>2, <2>3, <3>1 DEF Joins
  <2>4. CASE gameId[u] # i
    BY <2>1, <2>4
  <2>. QED  BY <2>3, <2>4
<1>3. ASSUME NEW u \in Users, CancelGame(u)
      PROVE  game'[i] = game[i] \/ Cancels(i)
  BY <1>3 DEF CancelGame, Cancels, Find
<1>4. ASSUME NEW u \in Users, StartGame(u)
      PROVE  game'[i] = game[i] \/ Starts(i)
  BY <1>4 DEF StartGame, Starts, Find
<1>5. ASSUME NEW u \in Users, Updates(u)
      PROVE  game'[i] = game[i] \/ Counted(i)
  <2>1. PICK current \in Counts, max \in Counts : UpdateGameData(u, current, max)
    BY <1>5 DEF Updates
  <2>2. game' = [game EXCEPT ![gameId[u]].current = current, ![gameId[u]].max = max]
    BY <2>1 DEF UpdateGameData
  <2>3. gameId[u] \in listed
    BY <2>1 DEF UpdateGameData, Find
  <2>4. CASE gameId[u] = i
    <3>1. game'[i] = [game[i] EXCEPT !.current = current, !.max = max]
      BY <2>2, <2>4
    <3>. QED  BY <2>3, <2>4, <3>1 DEF Counted
  <2>5. CASE gameId[u] # i
    BY <2>2, <2>5
  <2>. QED  BY <2>4, <2>5
<1>6. CASE SeatHost
  BY <1>6 DEF SeatHost, Seated
<1>7. CASE OpenCopy \/ Publish
  BY <1>7 DEF OpenCopy, Publish, Opens
<1>. QED  BY <1>1, <1>2, <1>3, <1>4, <1>5, <1>6, <1>7, GameFrame

(* What each of these writes leaves alone in a session's record. *)
LEMMA MemberFacts ==
    ASSUME NEW g \in GameRecord, NEW u, NEW s \in SeatNumbers
    PROVE  /\ WithMember(g, u, s).name = g.name
           /\ WithMember(g, u, s).kind = g.kind
           /\ WithMember(g, u, s).state = g.state
           /\ WithMember(g, u, s).seat = [g.seat EXCEPT ![s] = u]
           /\ WithMember(g, u, s).current = AsInt8(g.current + 1)
BY DEF WithMember, GameRecord

LEMMA LeaverFacts ==
    ASSUME NEW g \in GameRecord, NEW u
    PROVE  /\ WithoutMember(g, u).name = g.name
           /\ WithoutMember(g, u).kind = g.kind
           /\ WithoutMember(g, u).state = g.state
           /\ WithoutMember(g, u).seat =
                [t \in SeatNumbers |-> IF g.seat[t] = u THEN NoUser ELSE g.seat[t]]
           /\ WithoutMember(g, u).current = AsInt8(g.current - 1)
BY DEF WithoutMember, GameRecord

LEMMA WriteFacts ==
    ASSUME NEW g \in GameRecord, NEW a, NEW b
    PROVE  /\ [g EXCEPT !.state = a].name = g.name
           /\ [g EXCEPT !.state = a].kind = g.kind
           /\ [g EXCEPT !.state = a].state = a
           /\ [g EXCEPT !.state = a].seat = g.seat
           /\ [g EXCEPT !.state = a].current = g.current
           /\ [g EXCEPT !.hostAddr = a].name = g.name
           /\ [g EXCEPT !.hostAddr = a].kind = g.kind
           /\ [g EXCEPT !.hostAddr = a].state = g.state
           /\ [g EXCEPT !.hostAddr = a].seat = g.seat
           /\ [g EXCEPT !.hostAddr = a].current = g.current
           /\ [g EXCEPT !.current = a, !.max = b].name = g.name
           /\ [g EXCEPT !.current = a, !.max = b].kind = g.kind
           /\ [g EXCEPT !.current = a, !.max = b].state = g.state
           /\ [g EXCEPT !.current = a, !.max = b].seat = g.seat
           /\ [g EXCEPT !.current = a, !.max = b].current = a
BY DEF GameRecord

(* What a step does to each field of a session that exists.  The name of a *)
(* game never changes, nor the list it belongs to; a game leaves its state *)
(* by being started, which takes it off the list, or by being opened.      *)
Keeps(i) ==
    /\ game'[i].name = game[i].name /\ game'[i].kind = game[i].kind
    /\ \/ game'[i].state = game[i].state
       \/ Starts(i)
       \/ Publish /\ disc.id = i /\ game'[i].state = "Open"
SeatTaken(i, u, s) ==
    /\ s \in SeatNumbers /\ IsFirstFree(s, game[i])
    /\ game'[i].seat = [game[i].seat EXCEPT ![s] = u]
    /\ game'[i].current = AsInt8(game[i].current + 1)
SeatsLeft(i, u) ==
    /\ CancelGame(u) /\ gameId[u] = i
    /\ game'[i].seat = [t \in SeatNumbers |-> IF game[i].seat[t] = u
                                             THEN NoUser ELSE game[i].seat[t]]
    /\ game'[i].current = AsInt8(game[i].current - 1)

LEMMA FieldStep ==
    ASSUME TypeOK, [Next]_vars, NEW i \in Ids, i < next
    PROVE  /\ Keeps(i)
           /\ \/ game'[i].seat = game[i].seat
                   /\ game'[i].current \in {game[i].current} \cup Counts
              \/ \E u \in Users : UserJoinSuccess(u) /\ gameId[u] = i
                                    /\ \E s \in SeatNumbers : SeatTaken(i, u, s)
              \/ SeatHost /\ lobby.id = i /\ \E s \in SeatNumbers : SeatTaken(i, lobby.user, s)
              \/ i \in listed /\ \E u \in Users : SeatsLeft(i, u)
<1>. DEFINE g == game[i]
<1>. DEFINE P == Keeps(i)
<1>. DEFINE Q == \/ game'[i].seat = game[i].seat
                      /\ game'[i].current \in {game[i].current} \cup Counts
                 \/ \E u \in Users : UserJoinSuccess(u) /\ gameId[u] = i
                                    /\ \E s \in SeatNumbers : SeatTaken(i, u, s)
                 \/ SeatHost /\ lobby.id = i /\ \E s \in SeatNumbers : SeatTaken(i, lobby.user, s)
                 \/ i \in listed /\ \E u \in Users : SeatsLeft(i, u)
<1>1. g \in GameRecord
  BY DEF TypeOK, GamesOK
<1>2. CASE game'[i] = g
  BY <1>2 DEF Keeps
<1>3. CASE Joins(i)
  <2>1. PICK u \in Users, s \in SeatNumbers :
          /\ UserJoinSuccess(u) /\ gameId[u] = i
          /\ IsFirstFree(s, g) /\ game'[i] = WithMember(g, u, s)
    BY <1>3 DEF Joins
  <2>2. SeatTaken(i, u, s) /\ Keeps(i)
    BY ONLY <1>1, <2>1, MemberFacts DEF SeatTaken, Keeps
  <2>. QED  BY <2>1, <2>2
<1>4. CASE Seated(i)
  <2>1. PICK s \in SeatNumbers :
          /\ SeatHost /\ lobby.id = i
          /\ IsFirstFree(s, g) /\ game'[i] = WithMember(g, lobby.user, s)
    BY <1>4 DEF Seated
  <2>2. SeatTaken(i, lobby.user, s) /\ Keeps(i)
    BY ONLY <1>1, <2>1, MemberFacts DEF SeatTaken, Keeps
  <2>. QED  BY <2>1, <2>2
<1>5. CASE Cancels(i)
  <2>1. PICK u \in Users :
          CancelGame(u) /\ i \in listed /\ gameId[u] = i /\ game'[i] = WithoutMember(g, u)
    BY <1>5 DEF Cancels
  <2>2. SeatsLeft(i, u) /\ Keeps(i)
    BY ONLY <1>1, <2>1, LeaverFacts DEF SeatsLeft, Keeps
  <2>. QED  BY <2>1, <2>2
<1>6. CASE Starts(i)
  <2>1. game'[i] = [g EXCEPT !.state = "Started"]
    BY <1>6 DEF Starts
  <2>. QED  BY <1>1, <1>6, <2>1, WriteFacts DEF Keeps
<1>7. CASE Counted(i)
  <2>1. PICK current \in Counts, max \in Counts :
          game'[i] = [g EXCEPT !.current = current, !.max = max]
    BY <1>7 DEF Counted
  <2>. HIDE DEF g
  <2>2. /\ game'[i].name = g.name /\ game'[i].kind = g.kind /\ game'[i].state = g.state
        /\ game'[i].seat = g.seat /\ game'[i].current = current
    BY ONLY <1>1, <2>1, WriteFacts
  <2>. QED  BY <2>2 DEF Keeps, g
<1>8. CASE Opens(i)
  <2>1. CASE game'[i] = [g EXCEPT !.hostAddr = addrKnown[disc.user]]
    BY <1>1, <2>1, WriteFacts DEF Keeps
  <2>2. CASE Publish /\ disc.id = i /\ game'[i] = [g EXCEPT !.state = "Open"]
    BY <1>1, <2>2, WriteFacts DEF Keeps
  <2>. QED  BY <1>8, <2>1, <2>2 DEF Opens
<1>. QED
  BY <1>2, <1>3, <1>4, <1>5, <1>6, <1>7, <1>8, SessionStep

(* An id is given out by the handler that creates its game.                *)
LEMMA NewIds ==
    ASSUME IInv, [Next]_vars, NEW i \in Ids, i < next', ~(i < next)
    PROVE  /\ i = next
           /\ \E u \in Users, kind \in {CON, RTA}, type \in {"Public", "Private"},
                 name \in GameNames :
                /\ Creates(u) /\ game'[i] = NewGame(kind, type, name)
                /\ lobby' = [pc |-> "setGameId", user |-> u, id |-> i]
<1>. USE DEF IInv, TypeOK, GamesOK, Ids
<1>1. ASSUME NEW u \in Users, NEW kind \in {CON, RTA}, NEW type \in {"Public", "Private"},
             NEW name \in GameNames, StartCreating(u, kind, type, name)
      PROVE  /\ i = next /\ game'[i] = NewGame(kind, type, name)
             /\ lobby' = [pc |-> "setGameId", user |-> u, id |-> i]
  BY <1>1 DEF StartCreating
<1>2. \A n \in Names \cup {EmptyName} :
        /\ BareName(n) \in GameNames
        /\ n # EmptyName => \A s \in Stages : PublicName(n, s) \in GameNames
  BY DEF GameNames
<1>3. ASSUME NEW u \in Users, Creates(u)
      PROVE  \E kind \in {CON, RTA}, type \in {"Public", "Private"}, name \in GameNames :
               StartCreating(u, kind, type, name)
  BY <1>2, <1>3 DEF Creates, CreatePublic_CON, CreatePrivate_CON, CreateGame_RTA
<1>4. CASE \E u \in Users : Creates(u)
  BY <1>1, <1>3, <1>4
<1>5. CASE ~\E u \in Users : Creates(u)
  <2>1. next' = next
    <3>1. CASE \E u \in Users :
                 \/ Connect(u) \/ Login(u) \/ Leaves(u) \/ Release(u)
                 \/ Points(u) \/ UserJoinSuccess(u) \/ CancelGame(u)
                 \/ StartGame(u) \/ Updates(u) \/ Receive(u)
      BY <3>1 DEF Connect, Login, Leaves, RemoveUser, Release, Points, GetGame,
              DoClientDiscovery_CON, DoClientDiscovery_RTA, UserJoinSuccess, CancelGame,
              StartGame, Updates, UpdateGameData, Receive, gameVars
    <3>2. CASE SetGameId \/ SeatHost \/ ListGame \/ ReclearAddress \/ EnterGame \/ BecomeGuest
      BY <3>2 DEF SetGameId, SeatHost, ListGame, ReclearAddress, EnterGame, BecomeGuest,
              gameVars
    <3>3. CASE RecordAddress \/ Branch \/ FindGame \/ OpenCheck \/ OpenCopy \/ Publish
           \/ Announce \/ JoinState \/ JoinOwner \/ JoinAddr \/ Terminate \/ Introduce
      BY <3>3 DEF RecordAddress, Branch, FindGame, OpenCheck, OpenCopy, Publish, Announce,
              JoinState, JoinOwner, JoinAddr, Terminate, Introduce, gameVars
    <3>4. CASE UNCHANGED vars
      BY <3>4 DEF vars, gameVars
    <3>. QED  BY <1>5, <3>1, <3>2, <3>3, <3>4, Steps
  <2>. QED  BY <2>1
<1>. QED  BY <1>4, <1>5

(* -------------------- The other parts of the invariant ------------------ *)

LEMMA HandledStep ==
    ASSUME IInv, [Next]_vars
    PROVE  HandledIsOnline'
<1>. USE DEF IInv, TypeOK, UsersOK, HandledIsOnline
<1>1. CASE lobby' = lobby
  <2>1. ASSUME NEW u \in Users, Connect(u) \/ Leaves(u)
        PROVE  lobby.pc = "idle"
    BY <2>1 DEF Connect, Leaves, RemoveUser, Handles
  <2>. QED  BY <1>1, <2>1, StatusFrame
<1>2. ASSUME NEW u \in Users, Creates(u) \/ Points(u)
      PROVE  status[u] = "online" /\ status' = status /\ lobby'.user = u
  BY <1>2 DEF Creates, CreatePublic_CON, CreatePrivate_CON, CreateGame_RTA, StartCreating,
              Points, GetGame, DoClientDiscovery_CON, DoClientDiscovery_RTA, Handles
<1>3. CASE SetGameId \/ SeatHost \/ ListGame \/ ReclearAddress \/ EnterGame \/ BecomeGuest
  BY <1>3 DEF SetGameId, SeatHost, ListGame, ReclearAddress, EnterGame, BecomeGuest,
              userVars, LobbyIdle, LobbyOK
<1>. QED  BY <1>1, <1>2, <1>3, LobbyFrame

LEMMA SessionIdsStep ==
    ASSUME IInv, [Next]_vars
    PROVE  SessionIdsDiffer'
BY SessionFrame DEF IInv, TypeOK, UsersOK, SessionIdsDiffer, Login

(* Nobody goes back to before it connected. *)
LEMMA StatusGrows ==
    ASSUME TypeOK, [Next]_vars
    PROVE  \A v \in Users : status[v] # "absent" => status'[v] # "absent"
BY StatusFrame DEF TypeOK, UsersOK, Connect, Leaves, RemoveUser

LEMMA LiveConnected ==
    ASSUME TypeOK, HeldConnected, NEW v, Live(v)
    PROVE  v \in Users /\ status[v] # "absent"
BY DEF TypeOK, UsersOK, DiscOK, HeldConnected, Live

LEMMA HeldStep ==
    ASSUME IInv, [Next]_vars
    PROVE  HeldConnected'
<1>. USE DEF IInv, TypeOK, UsersOK
<1>1. \A v \in {disc'.user, disc'.host} : v # NoUser => status'[v] # "absent"
  BY DiscFrame, LiveConnected, StatusGrows
<1>2. \A u \in pinned' : status'[u] = "removed"
  <2>1. CASE status' = status /\ (pinned' = pinned \/ \E u \in Users : Release(u))
    BY <2>1 DEF Release, HeldConnected
  <2>2. ASSUME NEW u \in Users, Connect(u) \/ Leaves(u)
        PROVE  \A w \in pinned' : status'[w] = "removed"
    BY <2>2 DEF Connect, Leaves, RemoveUser, Handles, HeldConnected
  <2>. QED  BY <2>1, <2>2, StatusFrame
<1>. QED  BY <1>1, <1>2 DEF HeldConnected

(* Who may be in a seat after a step: who was, the user that joins the     *)
(* game or creates it, or nobody.                                          *)
LEMMA SeatOrigin ==
    ASSUME IInv, [Next]_vars, NEW i \in Ids, i < next', NEW s \in SeatNumbers,
           game'[i].seat[s] # NoUser
    PROVE  \/ i < next /\ game'[i].seat[s] = game[i].seat[s]
           \/ /\ i < next /\ game'[i].seat[s] \in Users
              /\ status[game'[i].seat[s]] = "online" /\ status' = status
<1>. USE DEF IInv, TypeOK, UsersOK, GamesOK
<1>1. CASE ~(i < next)
  <2>1. PICK kind, type, name : game'[i] = NewGame(kind, type, name)
    BY <1>1, NewIds
  <2>2. game'[i].seat[s] = NoUser
    BY <2>1 DEF NewGame
  <2>. QED  BY <2>2
<1>2. CASE i < next
  <2>1. CASE game'[i].seat = game[i].seat
    BY <1>2, <2>1
  <2>2. ASSUME NEW u \in Users, UserJoinSuccess(u), NEW t \in SeatNumbers, SeatTaken(i, u, t)
        PROVE  game'[i].seat[s] = game[i].seat[s] \/
               (game'[i].seat[s] = u /\ status[u] = "online" /\ status' = status)
    <3>1. status[u] = "online" /\ status' = status
      BY <2>2 DEF UserJoinSuccess, Handles, userVars
    <3>2. game[i].seat \in [SeatNumbers -> Users \cup {NoUser}]
      BY <1>2 DEF GameRecord
    <3>. QED  BY <2>2, <3>1, <3>2 DEF SeatTaken
  <2>3. ASSUME SeatHost, NEW t \in SeatNumbers, SeatTaken(i, lobby.user, t)
        PROVE  game'[i].seat[s] = game[i].seat[s] \/
               (game'[i].seat[s] = lobby.user /\ lobby.user \in Users
                 /\ status[lobby.user] = "online" /\ status' = status)
    <3>1. lobby.user \in Users /\ status[lobby.user] = "online" /\ status' = status
      BY <2>3 DEF SeatHost, LobbyOK, HandledIsOnline
    <3>2. game[i].seat \in [SeatNumbers -> Users \cup {NoUser}]
      BY <1>2 DEF GameRecord
    <3>. QED  BY <2>3, <3>1, <3>2 DEF SeatTaken
  <2>4. ASSUME NEW u \in Users, SeatsLeft(i, u)
        PROVE  game'[i].seat[s] = game[i].seat[s]
    BY <2>4 DEF SeatsLeft
  <2>. QED  BY <1>2, <2>1, <2>2, <2>3, <2>4, FieldStep
<1>. QED  BY <1>1, <1>2

LEMMA SeatedStep ==
    ASSUME IInv, [Next]_vars
    PROVE  SeatedConnected'
<1>. SUFFICES ASSUME NEW i \in Ids, i < next', NEW s \in SeatNumbers,
                     game'[i].seat[s] \in Users
              PROVE  status'[game'[i].seat[s]] # "absent"
  BY DEF SeatedConnected
<1>. DEFINE v == game'[i].seat[s]
<1>1. v # NoUser
  OBVIOUS
<1>2. CASE i < next /\ v = game[i].seat[s]
  BY <1>2, StatusGrows DEF IInv, SeatedConnected
<1>3. CASE status[v] = "online" /\ status' = status
  BY <1>3
<1>. QED  BY <1>1, <1>2, <1>3, SeatOrigin

(* While a game is being created, no step but SeatHost writes it.          *)
LEMMA CreatingUntouched ==
    ASSUME IInv, [Next]_vars, lobby.pc \in CreatePcs
    PROVE  game'[lobby.id] = game[lobby.id] \/ SeatHost
<1>. USE DEF IInv, TypeOK, LobbyOK, CreatePcs
<1>1. lobby.id \in Ids /\ lobby.id < next /\ lobby.id \notin listed /\ disc.id # lobby.id
  BY DEF CreatingFresh
<1>. QED  BY <1>1, SessionStep DEF Joins, Cancels, Starts, Counted, Seated, Opens

LEMMA CreatingStep ==
    ASSUME IInv, [Next]_vars
    PROVE  CreatingFresh'
<1>. USE DEF IInv, TypeOK, LobbyOK, DiscOK
<1>1. CASE lobby' = lobby /\ lobby.pc \in CreatePcs
  <2>1. ~ListGame /\ ~SeatHost
    BY <1>1 DEF ListGame, SeatHost, LobbyIdle
  <2>2. game'[lobby.id] = game[lobby.id]
    BY <1>1, <2>1, CreatingUntouched
  <2>3. lobby.id \notin listed'
    BY <1>1, <2>1, ListedFrame DEF CreatingFresh
  <2>4. disc'.id # lobby.id
    BY <1>1, DiscFrame DEF CreatingFresh, CreatePcs, Ids, NoId
  <2>. QED  BY <1>1, <2>2, <2>3, <2>4 DEF CreatingFresh
<1>2. ASSUME NEW u \in Users, Creates(u)
      PROVE  CreatingFresh'
  <2>1. PICK kind, type, name : StartCreating(u, kind, type, name)
    BY <1>2 DEF Creates, CreatePublic_CON, CreatePrivate_CON, CreateGame_RTA
  <2>2. next \in Ids /\ next \notin listed /\ disc.id # next
    BY <2>1 DEF StartCreating, GamesOK, Ids, NoId
  <2>3. /\ lobby'.id = next /\ lobby'.pc = "setGameId" /\ listed' = listed /\ disc' = disc
        /\ game'[next] = NewGame(kind, type, name)
    BY <2>1, <2>2 DEF StartCreating, GamesOK
  <2>4. \A s \in SeatNumbers : game'[next].seat[s] = NoUser
    BY <2>3 DEF NewGame
  <2>5. /\ game'[next].state = "NotReady" /\ game'[next].current < game'[next].max
        /\ game'[next].seat = [s \in SeatNumbers |-> NoUser]
    BY <2>3 DEF NewGame
  <2>. QED  BY <2>2, <2>3, <2>4, <2>5 DEF CreatingFresh
<1>3. ASSUME NEW u \in Users, Points(u)
      PROVE  lobby'.pc \notin CreatePcs
  BY <1>3 DEF Points, GetGame, DoClientDiscovery_CON, DoClientDiscovery_RTA, CreatePcs
<1>4. CASE SetGameId
  BY <1>4 DEF SetGameId, gameVars, CreatingFresh, CreatePcs
<1>5. CASE SeatHost
  <2>. DEFINE g == game[lobby.id]
  <2>1. PICK s \in SeatNumbers : game' = [game EXCEPT ![lobby.id] = WithMember(g, lobby.user, s)]
    BY <1>5 DEF SeatHost
  <2>2. /\ lobby.id \in Ids /\ g \in GameRecord /\ g.state = "NotReady"
        /\ g.seat = [t \in SeatNumbers |-> NoUser]
        /\ lobby.id \notin listed /\ disc.id # lobby.id
    BY <1>5 DEF SeatHost, CreatingFresh, CreatePcs, GamesOK
  <2>3. game'[lobby.id] = WithMember(g, lobby.user, s)
    BY <2>1, <2>2 DEF GamesOK
  <2>4. /\ game'[lobby.id].state = "NotReady"
        /\ game'[lobby.id].seat = [g.seat EXCEPT ![s] = lobby.user]
    BY <2>2, <2>3, MemberFacts
  <2>5. \A t \in SeatNumbers : game'[lobby.id].seat[t] \in {NoUser, lobby.user}
    BY <2>2, <2>4
  <2>6. /\ lobby'.id = lobby.id /\ lobby'.user = lobby.user /\ lobby'.pc = "list"
        /\ listed' = listed /\ disc' = disc
    BY <1>5 DEF SeatHost
  <2>. HIDE DEF g
  <2>. QED  BY <2>2, <2>4, <2>5, <2>6 DEF CreatingFresh
<1>6. CASE ListGame \/ ReclearAddress \/ EnterGame \/ BecomeGuest
  BY <1>6 DEF ListGame, ReclearAddress, EnterGame, BecomeGuest, LobbyIdle, CreatingFresh, CreatePcs
<1>7. CASE lobby' = lobby /\ lobby.pc \notin CreatePcs
  BY <1>7 DEF CreatingFresh
<1>. QED  BY <1>1, <1>2, <1>3, <1>4, <1>5, <1>6, <1>7, LobbyFrame DEF CreatingFresh

LEMMA NotStartedStep ==
    ASSUME IInv, [Next]_vars
    PROVE  ListedNotStarted'
<1>. USE DEF IInv, TypeOK, GamesOK
<1>. SUFFICES ASSUME NEW i \in listed' PROVE game'[i].state # "Started"
  BY DEF ListedNotStarted
<1>1. CASE ListGame /\ i = lobby.id
  BY <1>1 DEF ListGame, CreatingFresh, CreatePcs
<1>2. CASE i \in listed
  BY <1>2, ListedType, FieldStep DEF Keeps, Starts, ListedNotStarted
<1>. QED  BY <1>1, <1>2, ListedFrame DEF ListGame

LEMMA NameFreeStep ==
    ASSUME IInv, [Next]_vars
    PROVE  CreatingNameFree'
<1>. USE DEF IInv, TypeOK, LobbyOK, GamesOK
<1>. SUFFICES ASSUME lobby'.pc \in CreatePcs, game'[lobby'.id].kind = RTA,
                     game'[lobby'.id].name # BareName(EmptyName),
                     NEW i \in listed', game'[i].kind = RTA
              PROVE  game'[i].name # game'[lobby'.id].name
  BY DEF CreatingNameFree
<1>1. \A j \in Ids : j < next => game'[j].name = game[j].name /\ game'[j].kind = game[j].kind
  BY FieldStep DEF Keeps
<1>2. CASE /\ lobby'.id = lobby.id /\ lobby'.user = lobby.user /\ lobby.pc \in CreatePcs
           /\ ~ListGame
  <2>1. i \in listed
    BY <1>2, ListedFrame
  <2>2. /\ i \in Ids /\ i < next /\ lobby.id \in Ids /\ lobby.id < next
    BY <1>2, <2>1, ListedType DEF CreatePcs
  <2>. QED  BY <1>1, <1>2, <2>1, <2>2 DEF CreatingNameFree
<1>3. ASSUME NEW u \in Users, Creates(u)
      PROVE  game'[i].name # game'[lobby'.id].name
  <2>1. ASSUME NEW type, NEW name, StartCreating(u, CON, type, name)
        PROVE  FALSE
    <3>1. lobby'.id = next /\ next \in Ids /\ game'[next] = NewGame(CON, type, name)
      BY <2>1 DEF StartCreating, Ids
    <3>. QED  BY <3>1 DEF NewGame, CON, RTA
  <2>2. PICK n \in Names \cup {EmptyName}, type \in {"Public", "Private"} : CreateGame_RTA(u, n, type)
    BY <1>3, <2>1 DEF Creates, CreatePublic_CON, CreatePrivate_CON
  <2>3. /\ lobby'.id = next /\ next \in Ids /\ listed' = listed
        /\ game'[next] = NewGame(RTA, type, BareName(n))
    BY <2>2 DEF CreateGame_RTA, StartCreating, Ids
  <2>4. game'[lobby'.id].name = BareName(n)
    BY <2>3 DEF NewGame
  <2>5. i \in listed /\ i \in Ids /\ i < next
    BY <2>3, ListedType
  <2>6. ~NameInUse(BareName(n), RTA)
    BY <2>2 DEF CreateGame_RTA
  <2>7. game[i].kind = RTA
    BY <1>1, <2>5
  <2>8. game[i].name # BareName(n)
    BY <2>4, <2>5, <2>6, <2>7 DEF NameInUse, Matches
  <2>. QED  BY <1>1, <2>4, <2>5, <2>8
<1>4. ASSUME NEW u \in Users, Points(u)
      PROVE  FALSE
  BY <1>4 DEF Points, GetGame, DoClientDiscovery_CON, DoClientDiscovery_RTA, CreatePcs
<1>5. CASE SetGameId \/ SeatHost
  BY <1>2, <1>5 DEF SetGameId, SeatHost, ListGame, CreatePcs
<1>6. CASE ListGame \/ ReclearAddress \/ EnterGame \/ BecomeGuest
  BY <1>6 DEF ListGame, ReclearAddress, EnterGame, BecomeGuest, LobbyIdle, CreatePcs
<1>7. CASE lobby' = lobby
  <2>1. ~ListGame
    BY <1>7 DEF ListGame, LobbyIdle
  <2>. QED  BY <1>2, <1>7, <2>1
<1>. QED  BY <1>3, <1>4, <1>5, <1>6, <1>7, LobbyFrame

LEMMA RtaNamesStep ==
    ASSUME IInv, [Next]_vars
    PROVE  RtaNamesUnique'
<1>. USE DEF IInv, TypeOK, GamesOK
<1>. SUFFICES ASSUME NEW i \in listed', NEW j \in listed',
                     game'[i].kind = RTA, game'[j].kind = RTA,
                     game'[i].name = game'[j].name,
                     game'[i].name # BareName(EmptyName)
              PROVE  i = j
  BY DEF RtaNamesUnique
<1>1. \A k \in listed : game'[k].name = game[k].name /\ game'[k].kind = game[k].kind
  BY FieldStep, ListedType DEF Keeps
<1>2. CASE i \in listed /\ j \in listed
  BY <1>1, <1>2 DEF RtaNamesUnique
<1>3. ASSUME ListGame, NEW k \in listed', game'[k].kind = RTA, k \notin listed
      PROVE  /\ k = lobby.id /\ game' = game
             /\ game[k].name # BareName(EmptyName) =>
                  \A l \in listed : game[l].kind = RTA => game[l].name # game[k].name
  <2>1. k = lobby.id /\ game' = game /\ lobby.pc \in CreatePcs
    BY <1>3 DEF ListGame, CreatePcs
  <2>. QED  BY <1>3, <2>1 DEF CreatingNameFree
<1>4. ~ListGame => i \in listed /\ j \in listed
  BY ListedFrame
<1>. QED  BY <1>2, <1>3, <1>4

LEMMA SeatsStep ==
    ASSUME IInv, [Next]_vars
    PROVE  OneSeatEach'
<1>. USE DEF IInv, TypeOK, UsersOK, GamesOK
<1>. SUFFICES ASSUME NEW i \in Ids, i < next', NEW s \in SeatNumbers, NEW t \in SeatNumbers,
                     Live(game[i].seat[s])', Live(game[i].seat[t])',
                     sessionId'[game'[i].seat[s]] = sessionId'[game'[i].seat[t]],
                     s # t
              PROVE  FALSE
  BY DEF OneSeatEach
<1>. DEFINE a == game'[i].seat[s]
            b == game'[i].seat[t]
<1>0. \A v : (v = a \/ v = b) => v # NoUser /\ (v \in Users => Live(v) \/ status[v] = "absent")
  <2>1. /\ (a \in Users /\ status'[a] = "online") \/ a \in pinned' \/ (a # NoUser /\ a \in {disc'.user, disc'.host})
        /\ (b \in Users /\ status'[b] = "online") \/ b \in pinned' \/ (b # NoUser /\ b \in {disc'.user, disc'.host})
    BY DEF Live
  <2>2. pinned' \subseteq Users
    BY TypeStep
  <2>3. ASSUME NEW v, Live(v)' PROVE v \in Users => Live(v) \/ status[v] = "absent"
    BY <2>3, LiveFrame
  <2>. QED  BY <2>1, <2>2, <2>3 DEF Live
<1>1. a # NoUser /\ b # NoUser
  BY <1>0
<1>2. i < next
  BY <1>1, SeatOrigin
<1>3. /\ a = game[i].seat[s] \/ (status[a] = "online" /\ a \in Users)
      /\ b = game[i].seat[t] \/ (status[b] = "online" /\ b \in Users)
  BY <1>1, SeatOrigin
<1>4. a \in Users /\ b \in Users /\ status[a] # "absent" /\ status[b] # "absent"
  <2>1. game[i].seat \in [SeatNumbers -> Users \cup {NoUser}]
    BY <1>2 DEF GameRecord
  <2>2. a \in Users /\ b \in Users
    BY <1>1, <1>3, <2>1
  <2>. QED  BY <1>2, <1>3, <2>2 DEF SeatedConnected
<1>5. Live(a) /\ Live(b)
  BY <1>0, <1>4
<1>6. sessionId[a] = sessionId[b]
  <2>1. CASE sessionId' = sessionId
    BY <2>1
  <2>2. ASSUME NEW u \in Users, Login(u)
        PROVE  sessionId[a] = sessionId[b]
    <3>1. CASE a = b
      BY <3>1
    <3>2. CASE a # b
      <4>1. sessionId'[a] = NoSession /\ sessionId'[b] = NoSession
        BY <1>4, <3>2, SessionIdsStep DEF SessionIdsDiffer
      <4>2. a # u /\ b # u
        BY <2>2, <4>1 DEF Login
      <4>. QED  BY <1>4, <2>2, <4>1, <4>2 DEF Login
    <3>. QED  BY <3>1, <3>2
  <2>. QED  BY <2>1, <2>2, SessionFrame
<1>7. CASE game'[i].seat[s] = game[i].seat[s] /\ game'[i].seat[t] = game[i].seat[t]
  BY <1>2, <1>5, <1>6, <1>7 DEF OneSeatEach
<1>8. game[i].seat \in [SeatNumbers -> Users \cup {NoUser}]
  BY <1>2 DEF GameRecord
<1>9. ASSUME NEW u \in Users, UserJoinSuccess(u), gameId[u] = i,
             NEW f \in SeatNumbers, SeatTaken(i, u, f)
      PROVE  FALSE
  <2>1. \A m \in LiveMembers(game[i]) : sessionId[m] # sessionId[u]
    BY <1>9 DEF UserJoinSuccess, CanSeat
  <2>2. \A r \in SeatNumbers : Live(game[i].seat[r]) => sessionId[game[i].seat[r]] # sessionId[u]
    BY <2>1 DEF LiveMembers
  <2>3. game'[i].seat = [game[i].seat EXCEPT ![f] = u]
    BY <1>9 DEF SeatTaken
  <2>4. CASE s = f
    BY <1>5, <1>6, <1>8, <2>2, <2>3, <2>4
  <2>5. CASE t = f
    BY <1>5, <1>6, <1>8, <2>2, <2>3, <2>5
  <2>6. CASE s # f /\ t # f
    BY <1>7, <1>8, <2>3, <2>6
  <2>. QED  BY <2>4, <2>5, <2>6
<1>10. ASSUME SeatHost, lobby.id = i, NEW f \in SeatNumbers, SeatTaken(i, lobby.user, f)
       PROVE  FALSE
  <2>1. game[i].seat = [r \in SeatNumbers |-> NoUser]
    BY <1>10 DEF SeatHost, CreatingFresh, CreatePcs
  <2>2. game'[i].seat = [game[i].seat EXCEPT ![f] = lobby.user]
    BY <1>10 DEF SeatTaken
  <2>3. s = f /\ t = f
    BY <1>1, <2>1, <2>2
  <2>. QED  BY <2>3
<1>11. ASSUME NEW u \in Users, SeatsLeft(i, u)
       PROVE  FALSE
  <2>1. a = game[i].seat[s] /\ b = game[i].seat[t]
    BY <1>1, <1>11 DEF SeatsLeft
  <2>. QED  BY <1>7, <2>1
<1>. QED  BY <1>2, <1>7, <1>9, <1>10, <1>11, FieldStep

LEMMA DepartedStep ==
    ASSUME IInv, [Next]_vars
    PROVE  DepartedHostEndsGame'
<1>. USE DEF IInv, TypeOK, UsersOK, GamesOK
<1>. SUFFICES ASSUME NEW i \in listed', game'[i].seat[1] # NoUser,
                     status'[game'[i].seat[1]] = "removed",
                     game'[i].kind = TypeOf[game'[i].seat[1]],
                     gameId'[game'[i].seat[1]] = i
              PROVE  FALSE
  BY DEF DepartedHostEndsGame, Owner
<1>. DEFINE host == game'[i].seat[1]
<1>1. 1 \in SeatNumbers /\ i \in Ids /\ i < next'
  BY TypeStep DEF SeatNumbers
<1>2. i < next /\ (host = game[i].seat[1] \/ status[host] = "online") /\ host \in Users
  <2>1. /\ i < next
        /\ host = game[i].seat[1] \/ (status[host] = "online" /\ host \in Users)
    BY <1>1, SeatOrigin
  <2>2. game[i].seat \in [SeatNumbers -> Users \cup {NoUser}]
    BY <1>1, <2>1 DEF GameRecord
  <2>. QED  BY <1>1, <2>1, <2>2
<1>3. CASE i \notin listed
  <2>1. /\ i = lobby.id /\ game' = game /\ status' = status /\ lobby.pc \in CreatePcs
        /\ lobby.pc # "idle"
    BY <1>3, ListedFrame DEF ListGame, userVars, CreatePcs
  <2>2. host = lobby.user
    BY <1>1, <2>1 DEF CreatingFresh
  <2>. QED  BY <2>1, <2>2 DEF HandledIsOnline
<1>4. CASE i \in listed /\ status[host] # "online"
  <2>1. gameId[host] = i
    BY <1>2, <1>4, GameIdFrame
  <2>2. status[host] = "removed"
    <3>1. status[host] \in {"absent", "removed"}
      BY <1>2, <1>4
    <3>2. ASSUME NEW u \in Users, Connect(u)
          PROVE  status'[host] = status[host] \/ status'[host] = "online"
      BY <1>2, <3>2 DEF Connect
    <3>3. ASSUME NEW u \in Users, Leaves(u)
          PROVE  status'[host] = status[host] \/ status[host] = "online"
      BY <1>2, <3>3 DEF Leaves, RemoveUser, Handles
    <3>. QED  BY <1>2, <1>4, <3>1, <3>2, <3>3, StatusFrame
  <2>3. game[i].kind = TypeOf[host]
    BY <1>1, <1>2, FieldStep DEF Keeps
  <2>. QED  BY <1>2, <1>4, <2>1, <2>2, <2>3 DEF DepartedHostEndsGame, Owner
<1>5. CASE i \in listed /\ status[host] = "online"
  <2>1. Leaves(host)
    <3>1. ASSUME NEW u \in Users, Connect(u)
          PROVE  FALSE
      BY <1>2, <1>5, <3>1 DEF Connect
    <3>2. ASSUME NEW u \in Users, Leaves(u), u # host
          PROVE  FALSE
      BY <1>2, <1>5, <3>2 DEF Leaves, RemoveUser
    <3>. QED  BY <1>5, <3>1, <3>2, StatusFrame
  <2>2. PICK held \in BOOLEAN : RemoveUser(host, held)
    BY <2>1 DEF Leaves
  <2>3. gameId[host] = i /\ game' = game
    BY <2>2 DEF RemoveUser
  <2>4. Find(i, TypeOf[host])
    BY <1>5, <2>3 DEF Find
  <2>5. Owner(game[i]) = host
    BY <2>3 DEF Owner
  <2>6. i \notin listed'
    BY <2>2, <2>3, <2>4, <2>5 DEF RemoveUser
  <2>. QED  BY <2>6
<1>. QED  BY <1>3, <1>4, <1>5

(* -------------------------- The theorems -------------------------------- *)

(* The invariant holds at the start, and every step keeps it.              *)
LEMMA Inductive ==
    /\ Init => IInv
    /\ IInv /\ [Next]_vars => IInv'
<1>1. ASSUME Init PROVE IInv
  <2>. USE <1>1 DEF Init, LobbyIdle, DiscIdle, Ids, NoId
  <2>1. UsersOK
    BY DEF UsersOK
  <2>2. GamesOK
    BY DEF GamesOK
  <2>3. LobbyOK /\ DiscOK
    BY DEF LobbyOK, DiscOK, LobbyPcs, DiscPcs, OpenPcs, JoinPcs
  <2>4. CreatingFresh /\ HandledIsOnline /\ CreatingNameFree
    BY DEF CreatingFresh, HandledIsOnline, CreatingNameFree, CreatePcs
  <2>5. SessionIdsDiffer /\ HeldConnected
    BY DEF SessionIdsDiffer, HeldConnected
  <2>6. /\ SeatedConnected /\ OneSeatEach
        /\ ListedNotStarted /\ RtaNamesUnique /\ DepartedHostEndsGame
    BY DEF SeatedConnected, OneSeatEach, ListedNotStarted, RtaNamesUnique,
           DepartedHostEndsGame
  <2>. QED  BY <2>1, <2>2, <2>3, <2>4, <2>5, <2>6 DEF IInv, TypeOK
<1>2. ASSUME IInv, [Next]_vars PROVE IInv'
  <2>1. CreatingFresh' /\ HandledIsOnline' /\ SessionIdsDiffer' /\ SeatedConnected'
    BY <1>2, CreatingStep, HandledStep, SessionIdsStep, SeatedStep
  <2>2. HeldConnected' /\ CreatingNameFree'
    BY <1>2, HeldStep, NameFreeStep
  <2>3. TypeOK' /\ ListedNotStarted' /\ RtaNamesUnique' /\ OneSeatEach' /\ DepartedHostEndsGame'
    BY <1>2, TypeStep, NotStartedStep, RtaNamesStep, SeatsStep, DepartedStep
  <2>. QED  BY <2>1, <2>2, <2>3 DEF IInv
<1>. QED  BY <1>1, <1>2

(* Every reachable state satisfies the invariant.                          *)
THEOREM Invariance == Spec => []IInv
BY Inductive, PTL DEF Spec

(* A listed game has not been started.                                     *)
THEOREM ListedNotStartedThm == Spec => []ListedNotStarted
<1>1. IInv => ListedNotStarted
  BY DEF IInv
<1>. QED  BY <1>1, Invariance, PTL

(* Listed games of Return to Arms have names of their own.                 *)
THEOREM RtaNamesUniqueThm == Spec => []RtaNamesUnique
<1>1. IInv => RtaNamesUnique
  BY DEF IInv
<1>. QED  BY <1>1, Invariance, PTL

(* Members that are still there have a seat each.                          *)
THEOREM OneSeatEachThm == Spec => []OneSeatEach
<1>1. IInv => OneSeatEach
  BY DEF IInv
<1>. QED  BY <1>1, Invariance, PTL

(* The game of a host that has left goes with it, if it is the one the     *)
(* host points at and of the type the host plays.                          *)
THEOREM DepartedHostEndsGameThm == Spec => []DepartedHostEndsGame
<1>1. IInv => DepartedHostEndsGame
  BY DEF IInv
<1>. QED  BY <1>1, Invariance, PTL

(* A user that logged in and leaves ends no game of a host that is there.  *)
THEOREM StrangerCannotEndGameThm == Spec => StrangerCannotEndGame
<1>. DEFINE A == \A u \in Users, i \in listed :
                    /\ status[u] = "online" /\ status'[u] = "removed"
                    /\ i \notin listed'
                    => \/ Owner(game[i]) = u
                       \/ ~HasOwner(game[i])
                       \/ sessionId[u] = NoSession
<1>1. ASSUME IInv, [Next]_vars, NEW u \in Users, NEW i \in listed,
             status[u] = "online", status'[u] = "removed", i \notin listed',
             HasOwner(game[i]), sessionId[u] # NoSession
      PROVE  Owner(game[i]) = u
  <2>. USE DEF IInv, TypeOK, UsersOK
  <2>1. PICK held \in BOOLEAN : RemoveUser(u, held)
    <3>1. ASSUME NEW w \in Users, Connect(w)
          PROVE  FALSE
      BY <1>1, <3>1 DEF Connect
    <3>2. ASSUME NEW w \in Users, Leaves(w), w # u
          PROVE  FALSE
      BY <1>1, <3>2 DEF Leaves, RemoveUser
    <3>. QED  BY <1>1, <3>1, <3>2, StatusFrame DEF Leaves
  <2>2. /\ i = gameId[u]
        /\ ~HasOwner(game[i]) \/ sessionId[Owner(game[i])] = sessionId[u]
    BY <1>1, <2>1 DEF RemoveUser
  <2>3. Owner(game[i]) \in Users
    BY <1>1, LiveConnected DEF HasOwner, Owner
  <2>. QED  BY <1>1, <2>2, <2>3 DEF SessionIdsDiffer
<1>2. IInv /\ [Next]_vars => [A]_vars
  BY <1>1
<1>. QED  BY <1>2, Invariance, PTL DEF Spec, StrangerCannotEndGame

(* Whoever takes a seat is counted, within what the game takes, whatever   *)
(* counts the clients have reported: the count does not go over the end of *)
(* its int8_t.                                                             *)
THEOREM SeatingIsCountedThm == Spec => SeatingIsCounted
<1>. DEFINE Counts1(i) == \A s \in SeatNumbers :
                game'[i].seat[s] \notin {NoUser, game[i].seat[s]} =>
                    /\ game'[i].current = game[i].current + 1
                    /\ game'[i].current <= game[i].max
<1>1. ASSUME IInv, [Next]_vars, NEW i \in Ids, i < next
      PROVE  Counts1(i)
  <2>. USE DEF IInv, TypeOK, GamesOK
  <2>. DEFINE g == game[i]
  <2>1. g \in GameRecord /\ g.current \in Int8 /\ g.max \in Int8
    BY <1>1 DEF GameRecord
  <2>2. ASSUME NEW u, NEW t, SeatTaken(i, u, t), g.current < g.max
        PROVE  Counts1(i)
    <3>1. AsInt8(g.current + 1) = g.current + 1 /\ g.current + 1 <= g.max
      BY <2>1, <2>2, BelowRises
    <3>. QED  BY <2>2, <3>1 DEF SeatTaken
  <2>3. CASE game'[i].seat = g.seat
    BY <2>3
  <2>4. ASSUME NEW u \in Users, UserJoinSuccess(u), gameId[u] = i
        PROVE  g.current < g.max
    BY <2>4 DEF UserJoinSuccess, HasRoom
  <2>5. ASSUME SeatHost, lobby.id = i
        PROVE  g.current < g.max
    BY <1>1, <2>5 DEF SeatHost, CreatingFresh, CreatePcs
  <2>6. ASSUME NEW u \in Users, SeatsLeft(i, u)
        PROVE  Counts1(i)
    BY <2>6 DEF SeatsLeft
  <2>7. \/ game'[i].seat = g.seat
        \/ \E u \in Users : UserJoinSuccess(u) /\ gameId[u] = i
                               /\ \E t \in SeatNumbers : SeatTaken(i, u, t)
        \/ SeatHost /\ lobby.id = i /\ \E t \in SeatNumbers : SeatTaken(i, lobby.user, t)
        \/ \E u \in Users : SeatsLeft(i, u)
    BY <1>1, FieldStep
  <2>. HIDE DEF Counts1, g
  <2>. QED  BY <2>2, <2>3, <2>4, <2>5, <2>6, <2>7
<1>2. IInv /\ [Next]_vars => [\A i \in Ids : i < next => Counts1(i)]_vars
  BY <1>1
<1>. QED  BY <1>2, Invariance, PTL DEF Spec, SeatingIsCounted
=============================================================================
