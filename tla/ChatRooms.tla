------------------------------ MODULE ChatRooms ------------------------------
(***************************************************************************)
(* The chat rooms of ChatRoomManager: the public rooms, the private rooms  *)
(* that users make, and the two room ids each user keeps.  A user may be a *)
(* member of more rooms than the two it keeps the ids of.                  *)
(*                                                                         *)
(* All of it runs on the lobby thread, so a request is one step.  The      *)
(* matchmaking reaches in twice: a game that is cancelled takes the user   *)
(* out of its private room, and a game that is started closes the room of  *)
(* its name.                                                               *)
(***************************************************************************)
EXTENDS Integers, FiniteSets

CONSTANTS
    Users,       \* RealmUser objects, one per connection
    PublicNames, \* the names of the public rooms, by their ids
    Public,      \* how many public rooms there are
    Names,       \* the names users give rooms and games, public ones too
    EmptyName,   \* the empty name
    MaxRooms     \* bound: how many rooms there ever are

ASSUME UsersAssumption == IsFiniteSet(Users)
ASSUME RoomsAssumption == Public \in Nat /\ MaxRooms \in Nat /\ Public <= MaxRooms
ASSUME NamesAssumption ==
    /\ EmptyName \notin Names
    /\ PublicNames \in [0..(Public - 1) -> Names]
    /\ \A i, j \in 0..(Public - 1) : PublicNames[i] = PublicNames[j] => i = j

Ids == 0..(MaxRooms - 1)
PublicIds == 0..(Public - 1)
NoRoom == -1

VARIABLES
    status,      \* "absent", then "online" while in m_users, then "removed"
    publicRoom,  \* m_publicRoomId
    privateRoom, \* m_privateRoomId
    room,        \* m_chatSessionList, by m_index
    roomIndex,   \* m_roomIndex
    wandered     \* users that took a room while they kept one of its type

vars == <<status, publicRoom, privateRoom, room, roomIndex, wandered>>

----------------------------------------------------------------------------
(* A member stays in m_members, as an expired weak_ptr, when its user is   *)
(* destroyed.                                                              *)
Room == [type : {"Public", "Private"}, name : Names \cup {EmptyName},
         members : SUBSET Users]
Unlisted == [type |-> "none"]

Listed == {r \in Ids : room[r] # Unlisted}
IsPrivate(r) == room[r].type = "Private"

TypeOK ==
    /\ status \in [Users -> {"absent", "online", "removed"}]
    /\ publicRoom \in [Users -> Ids \cup {NoRoom}]
    /\ privateRoom \in [Users -> Ids \cup {NoRoom}]
    /\ room \in [Ids -> Room \cup {Unlisted}]
    /\ roomIndex \in Public..MaxRooms
    /\ wandered \subseteq Users

Init ==
    /\ status = [u \in Users |-> "absent"]
    /\ publicRoom = [u \in Users |-> NoRoom]
    /\ privateRoom = [u \in Users |-> NoRoom]
    /\ room = [r \in Ids |->
                 IF r \in PublicIds
                 THEN [type |-> "Public", name |-> PublicNames[r], members |-> {}]
                 ELSE Unlisted]
    /\ roomIndex = Public
    /\ wandered = {}

(* FindRoom( name ) and FindRoom( id ). *)
IsFound(r, name) == name # EmptyName /\ r \in Listed /\ room[r].name = name
Exists(r) == r \in Listed

WithMembers(r, members) ==
    [type |-> room[r].type, name |-> room[r].name, members |-> members]
Without(r, u) == WithMembers(r, room[r].members \ {u})

(* Mutant: a private room that is empty stays. *)
LeftRoom_keeps(r, u) == Without(r, u)

(* LeaveRoom for a room that is found and has the user: a private room     *)
(* that has no members left is deleted, and the user forgets the room it   *)
(* keeps of that type.                                                     *)
LeftRoom(r, u) ==
    IF IsPrivate(r) /\ room[r].members = {u} THEN Unlisted ELSE Without(r, u)

Leave(r, u) ==
    /\ room' = [room EXCEPT ![r] = LeftRoom(r, u)]
    /\ publicRoom' = IF IsPrivate(r) THEN publicRoom ELSE [publicRoom EXCEPT ![u] = NoRoom]
    /\ privateRoom' = IF IsPrivate(r) THEN [privateRoom EXCEPT ![u] = NoRoom] ELSE privateRoom

HasMember(r, u) == Exists(r) /\ u \in room[r].members

----------------------------------------------------------------------------
Connect(u) ==
    /\ status[u] = "absent"
    /\ status' = [status EXCEPT ![u] = "online"]
    /\ UNCHANGED <<publicRoom, privateRoom, room, roomIndex, wandered>>

(* Mutant: the user that enters is not given the id. *)
EnterRoom_forgetsId(u, r, name) ==
    /\ status[u] = "online"
    /\ IsFound(r, name)
    /\ u \notin room[r].members
    /\ room' = [room EXCEPT ![r] = WithMembers(r, room[r].members \cup {u})]
    /\ UNCHANGED <<status, publicRoom, privateRoom, roomIndex, wandered>>

(* RequestEnterRoom: JoinRoom.  The room the user keeps is not left. *)
EnterRoom(u, r, name) ==
    /\ status[u] = "online"
    /\ IsFound(r, name)
    /\ u \notin room[r].members
    /\ room' = [room EXCEPT ![r] = WithMembers(r, room[r].members \cup {u})]
    /\ IF IsPrivate(r)
       THEN /\ privateRoom' = [privateRoom EXCEPT ![u] = r]
            /\ wandered' = IF privateRoom[u] # NoRoom THEN wandered \cup {u} ELSE wandered
            /\ UNCHANGED publicRoom
       ELSE /\ publicRoom' = [publicRoom EXCEPT ![u] = r]
            /\ wandered' = IF publicRoom[u] # NoRoom THEN wandered \cup {u} ELSE wandered
            /\ UNCHANGED privateRoom
    /\ UNCHANGED <<status, roomIndex>>

(* RequestLeaveRoom: LeaveRoom, by name. *)
LeaveRoom(u, r, name) ==
    /\ status[u] = "online"
    /\ IsFound(r, name)
    /\ u \in room[r].members
    /\ Leave(r, u)
    /\ UNCHANGED <<status, roomIndex, wandered>>

(* Mutant: the name is looked for with FindRoom, which never finds the     *)
(* empty one.                                                              *)
CreatePrivateRoom_findsName(u, name) ==
    /\ status[u] = "online"
    /\ \A r \in Ids : ~IsFound(r, name)
    /\ roomIndex \in Ids
    /\ room' = [room EXCEPT ![roomIndex] =
                  [type |-> "Private", name |-> name, members |-> {u}]]
    /\ privateRoom' = [privateRoom EXCEPT ![u] = roomIndex]
    /\ wandered' = IF privateRoom[u] # NoRoom THEN wandered \cup {u} ELSE wandered
    /\ roomIndex' = roomIndex + 1
    /\ UNCHANGED <<status, publicRoom>>

(* RequestCreatePrivateRoom: CreateGameChatSession.  The name may be       *)
(* empty, and then nobody finds the room by it.                            *)
CreatePrivateRoom(u, name) ==
    /\ status[u] = "online"
    /\ \A r \in Listed : room[r].name # name
    /\ roomIndex \in Ids
    /\ room' = [room EXCEPT ![roomIndex] =
                  [type |-> "Private", name |-> name, members |-> {u}]]
    /\ privateRoom' = [privateRoom EXCEPT ![u] = roomIndex]
    /\ wandered' = IF privateRoom[u] # NoRoom THEN wandered \cup {u} ELSE wandered
    /\ roomIndex' = roomIndex + 1
    /\ UNCHANGED <<status, publicRoom>>

(* RequestCancelGame of Return to Arms, the game being on the list. *)
CancelGame(u) ==
    LET r == privateRoom[u] IN
    /\ status[u] = "online"
    /\ HasMember(r, u)
    /\ Leave(r, u)
    /\ UNCHANGED <<status, roomIndex, wandered>>

(* Mutants: the members keep the id of the room; a public room is closed.  *)
StartGame_keepsIds(r, name) ==
    /\ IsFound(r, name)
    /\ IsPrivate(r)
    /\ room' = [room EXCEPT ![r] = Unlisted]
    /\ UNCHANGED <<status, publicRoom, privateRoom, roomIndex, wandered>>

StartGame_anyRoom(r, name) ==
    /\ IsFound(r, name)
    /\ room' = [room EXCEPT ![r] = Unlisted]
    /\ privateRoom' = [u \in Users |->
                         IF u \in room[r].members THEN NoRoom ELSE privateRoom[u]]
    /\ UNCHANGED <<status, publicRoom, roomIndex, wandered>>

(* RequestStartGame, for a game of that name: CloseGameChatSession.  Every *)
(* member forgets the private room it keeps, this one or another.          *)
StartGame(r, name) ==
    /\ IsFound(r, name)
    /\ IsPrivate(r)
    /\ room' = [room EXCEPT ![r] = Unlisted]
    /\ privateRoom' = [u \in Users |->
                         IF u \in room[r].members THEN NoRoom ELSE privateRoom[u]]
    /\ UNCHANGED <<status, publicRoom, roomIndex, wandered>>

(* Mutant: only the public room is left. *)
RemoveUser_publicOnly(u) ==
    /\ status[u] = "online"
    /\ status' = [status EXCEPT ![u] = "removed"]
    /\ room' = [r \in Ids |-> IF r = publicRoom[u] /\ HasMember(r, u)
                              THEN LeftRoom(r, u) ELSE room[r]]
    /\ publicRoom' = [publicRoom EXCEPT ![u] = NoRoom]
    /\ privateRoom' = [privateRoom EXCEPT ![u] = NoRoom]
    /\ UNCHANGED <<roomIndex, wandered>>

(* RemoveUser: OnDisconnectUser leaves the public room, then the private   *)
(* room, that the user keeps the ids of.                                   *)
RemoveUser(u) ==
    /\ status[u] = "online"
    /\ status' = [status EXCEPT ![u] = "removed"]
    /\ room' = [r \in Ids |->
                  IF r \in {publicRoom[u], privateRoom[u]} /\ HasMember(r, u)
                  THEN LeftRoom(r, u) ELSE room[r]]
    /\ publicRoom' = [publicRoom EXCEPT ![u] = IF HasMember(@, u) THEN NoRoom ELSE @]
    /\ privateRoom' = [privateRoom EXCEPT ![u] = IF HasMember(@, u) THEN NoRoom ELSE @]
    /\ UNCHANGED <<roomIndex, wandered>>

----------------------------------------------------------------------------
Next ==
    \/ \E u \in Users :
          \/ Connect(u)
          \/ \E r \in Ids, name \in Names : EnterRoom(u, r, name) \/ LeaveRoom(u, r, name)
          \/ \E name \in Names \cup {EmptyName} : CreatePrivateRoom(u, name)
          \/ CancelGame(u)
          \/ RemoveUser(u)
    \/ \E r \in Ids, name \in Names : StartGame(r, name)

Spec == Init /\ [][Next]_vars

----------------------------------------------------------------------------
(* PROPERTIES *)

(* The ids a user keeps are of rooms that exist, of the right type, with   *)
(* the user in them: LeaveRoom and OnDisconnectUser act on the ids alone,  *)
(* and RequestGetRoom shows the room they name.                            *)
KeptRoomsHaveUser ==
    \A u \in Users :
        /\ publicRoom[u] # NoRoom =>
              HasMember(publicRoom[u], u) /\ ~IsPrivate(publicRoom[u])
        /\ privateRoom[u] # NoRoom =>
              HasMember(privateRoom[u], u) /\ IsPrivate(privateRoom[u])

(* A user that takes one room of a type at a time is in the rooms it keeps *)
(* the ids of and in no others; so none is left with it when it is gone.   *)
(* A user that wandered may be left behind in rooms for good.              *)
InKeptRoomsOnly ==
    \A u \in Users \ wandered, r \in Listed :
        u \in room[r].members => r \in {publicRoom[u], privateRoom[u]}

(* Rooms are joined, left, closed and spoken in by name: no two have one,  *)
(* be it the empty one.                                                    *)
RoomNamesUnique ==
    \A r, q \in Listed : room[r].name = room[q].name => r = q

(* The public rooms stay, even when a game of the name of one is started.  *)
PublicRoomsStay ==
    \A r \in PublicIds :
        r \in Listed /\ ~IsPrivate(r) /\ room[r].name = PublicNames[r]

(* A private room that has lost its last member is gone, whichever of the  *)
(* four ways the member left by.                                           *)
NoEmptyPrivateRoom ==
    \A r \in Listed : IsPrivate(r) => room[r].members # {}

(* The inductive invariant. *)
FreshIds == \A r \in Listed : r < roomIndex

IInv ==
    /\ TypeOK
    /\ FreshIds
    /\ KeptRoomsHaveUser
    /\ InKeptRoomsOnly
    /\ RoomNamesUnique
    /\ PublicRoomsStay
    /\ NoEmptyPrivateRoom
=============================================================================
