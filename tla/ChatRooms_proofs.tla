-------------------------- MODULE ChatRooms_proofs --------------------------
(***************************************************************************)
(* Proofs that the invariants of ChatRooms hold for any users, names and   *)
(* rooms.  IInv is inductive: InKeptRoomsOnly and KeptRoomsHaveUser need   *)
(* each other, and FreshIds makes a new room take nobody's place.          *)
(***************************************************************************)
EXTENDS ChatRooms, TLAPS

LEMMA InitIInv == Init => IInv
<1> SUFFICES ASSUME Init PROVE IInv
    OBVIOUS
<1> USE DEF Init, Ids, PublicIds, NoRoom, Unlisted, Listed, IsPrivate, Room
<1>1. TypeOK
    BY RoomsAssumption, NamesAssumption DEF TypeOK
<1>2. FreshIds /\ PublicRoomsStay
    BY RoomsAssumption DEF FreshIds, PublicRoomsStay
<1>3. KeptRoomsHaveUser /\ InKeptRoomsOnly
    BY DEF KeptRoomsHaveUser, InKeptRoomsOnly
<1>4. RoomNamesUnique /\ NoEmptyPrivateRoom
    BY NamesAssumption DEF RoomNamesUnique, NoEmptyPrivateRoom
<1>. QED
    BY <1>1, <1>2, <1>3, <1>4 DEF IInv

(* A room that is listed is a room. *)
LEMMA ListedRoom ==
    ASSUME TypeOK, NEW r \in Listed
    PROVE  /\ r \in Ids
           /\ room[r] \in Room
           /\ room[r] = [type |-> room[r].type, name |-> room[r].name,
                         members |-> room[r].members]
BY DEF TypeOK, Listed, Room, Unlisted

LEMMA ConnectStep == IInv /\ (\E u \in Users : Connect(u)) => IInv'
<1> SUFFICES ASSUME IInv, NEW u \in Users, Connect(u) PROVE IInv'
    OBVIOUS
<1> USE DEF Connect, IInv
<1>1. TypeOK'
    BY DEF TypeOK
<1>2. FreshIds' /\ PublicRoomsStay' /\ RoomNamesUnique' /\ NoEmptyPrivateRoom'
    BY DEF FreshIds, PublicRoomsStay, RoomNamesUnique, NoEmptyPrivateRoom, Listed, IsPrivate
<1>3. KeptRoomsHaveUser' /\ InKeptRoomsOnly'
    BY DEF KeptRoomsHaveUser, InKeptRoomsOnly, Listed, IsPrivate, HasMember, Exists
<1>. QED
    BY <1>1, <1>2, <1>3

LEMMA EnterRoomStep ==
    ASSUME IInv, NEW u \in Users, NEW r \in Ids, NEW name \in Names, EnterRoom(u, r, name)
    PROVE  IInv'
<1> USE DEF IInv
<1>1. /\ r \in Listed
      /\ room[r] \in Room
      /\ room' = [room EXCEPT ![r] = [type |-> room[r].type, name |-> room[r].name,
                                      members |-> room[r].members \cup {u}]]
    BY ListedRoom DEF EnterRoom, IsFound, WithMembers
<1> DEFINE entered == [type |-> room[r].type, name |-> room[r].name,
                       members |-> room[r].members \cup {u}]
<1>2. TypeOK'
  <2>1. entered \in Room
      BY <1>1 DEF Room
  <2>2. room' \in [Ids -> Room \cup {Unlisted}]
      BY <1>1, <2>1 DEF TypeOK
  <2>3. /\ publicRoom' \in [Users -> Ids \cup {NoRoom}]
        /\ privateRoom' \in [Users -> Ids \cup {NoRoom}]
        /\ wandered' \subseteq Users
      BY DEF EnterRoom, TypeOK
  <2>. QED
      BY <2>2, <2>3 DEF TypeOK, EnterRoom
<1>3. Listed' = Listed
    BY <1>1 DEF Listed, Unlisted, TypeOK
<1>4. \A q \in Ids : /\ IsPrivate(q)' <=> IsPrivate(q)
                     /\ q \in Listed => room'[q].name = room[q].name
                     /\ q # r => room'[q] = room[q]
    BY <1>1 DEF IsPrivate, Listed, TypeOK
<1>5. FreshIds'
    BY <1>3 DEF FreshIds, EnterRoom
<1>6. PublicRoomsStay' /\ RoomNamesUnique'
    BY <1>3, <1>4, RoomsAssumption
       DEF PublicRoomsStay, RoomNamesUnique, Listed, PublicIds, Ids
<1>7. NoEmptyPrivateRoom'
    BY <1>1, <1>3, <1>4 DEF NoEmptyPrivateRoom, Listed, TypeOK
<1>8. \A q \in Listed : room'[q].members = IF q = r THEN room[r].members \cup {u}
                                            ELSE room[q].members
    BY <1>1 DEF TypeOK, Listed
<1>9. \A v \in Users :
         /\ publicRoom'[v] = IF v = u /\ ~IsPrivate(r) THEN r ELSE publicRoom[v]
         /\ privateRoom'[v] = IF v = u /\ IsPrivate(r) THEN r ELSE privateRoom[v]
    BY DEF EnterRoom, TypeOK
<1>10. KeptRoomsHaveUser'
  <2> SUFFICES ASSUME NEW v \in Users
               PROVE  /\ publicRoom'[v] # NoRoom =>
                            /\ publicRoom'[v] \in Listed' /\ v \in room'[publicRoom'[v]].members
                            /\ room'[publicRoom'[v]].type # "Private"
                      /\ privateRoom'[v] # NoRoom =>
                            /\ privateRoom'[v] \in Listed' /\ v \in room'[privateRoom'[v]].members
                            /\ room'[privateRoom'[v]].type = "Private"
      BY DEF KeptRoomsHaveUser, HasMember, Exists, IsPrivate
  <2>1. /\ publicRoom[v] # NoRoom => /\ publicRoom[v] \in Listed
                                     /\ v \in room[publicRoom[v]].members
                                     /\ ~IsPrivate(publicRoom[v])
        /\ privateRoom[v] # NoRoom => /\ privateRoom[v] \in Listed
                                      /\ v \in room[privateRoom[v]].members
                                      /\ IsPrivate(privateRoom[v])
      BY DEF KeptRoomsHaveUser, HasMember, Exists
  <2>2. \A q \in Listed : q \in Ids /\ q # NoRoom
                             /\ (room'[q].type = "Private" <=> room[q].type = "Private")
      BY <1>4 DEF Listed, IsPrivate, Ids, NoRoom
  <2>3. \A q \in Listed : v \in room[q].members => v \in room'[q].members
      BY <1>8
  <2>4. u \in room'[r].members
      BY <1>1, <1>8
  <2>5. publicRoom'[v] # NoRoom =>
           /\ publicRoom'[v] \in Listed /\ v \in room'[publicRoom'[v]].members
           /\ room'[publicRoom'[v]].type # "Private"
      BY <1>1, <1>9, <2>1, <2>2, <2>3, <2>4 DEF IsPrivate
  <2>6. privateRoom'[v] # NoRoom =>
           /\ privateRoom'[v] \in Listed /\ v \in room'[privateRoom'[v]].members
           /\ room'[privateRoom'[v]].type = "Private"
      BY <1>1, <1>9, <2>1, <2>2, <2>3, <2>4 DEF IsPrivate
  <2>. QED
      BY <1>3, <2>5, <2>6
<1>11. InKeptRoomsOnly'
  <2> SUFFICES ASSUME NEW v \in Users \ wandered', NEW q \in Listed, v \in room'[q].members
               PROVE  q \in {publicRoom'[v], privateRoom'[v]}
      BY <1>3 DEF InKeptRoomsOnly
  <2>1. v \notin wandered
      BY DEF EnterRoom
  <2>2. v = u /\ ~IsPrivate(r) => publicRoom[u] = NoRoom
      BY DEF EnterRoom
  <2>3. v = u /\ IsPrivate(r) => privateRoom[u] = NoRoom
      BY DEF EnterRoom
  <2>4. (q = r /\ v = u) \/ q \in {publicRoom[v], privateRoom[v]}
      BY <1>8, <2>1 DEF InKeptRoomsOnly
  <2>5. q # NoRoom
      BY DEF Listed, Ids, NoRoom
  <2>. QED
      BY <1>9, <2>2, <2>3, <2>4, <2>5
<1>. QED
    BY <1>2, <1>5, <1>6, <1>7, <1>10, <1>11

LEMMA CreatePrivateRoomStep ==
    ASSUME IInv, NEW u \in Users, NEW name \in Names \cup {EmptyName},
           CreatePrivateRoom(u, name)
    PROVE  IInv'
<1> USE DEF IInv
<1> DEFINE new == [type |-> "Private", name |-> name, members |-> {u}]
<1>1. /\ roomIndex \in Ids
      /\ room' = [room EXCEPT ![roomIndex] = new]
      /\ new \in Room
    BY DEF CreatePrivateRoom, Room
<1>2. roomIndex \notin Listed
    BY DEF FreshIds, TypeOK
<1>3. TypeOK'
    BY <1>1, RoomsAssumption DEF TypeOK, CreatePrivateRoom, Ids
<1>4. Listed' = Listed \cup {roomIndex}
    BY <1>1 DEF Listed, Unlisted, TypeOK
<1>5. \A q \in Ids : q # roomIndex => room'[q] = room[q]
    BY <1>1 DEF TypeOK
<1>6. room'[roomIndex] = new
    BY <1>1 DEF TypeOK
<1>7. FreshIds'
    BY <1>4 DEF FreshIds, CreatePrivateRoom, TypeOK, Listed, Ids
<1>8. roomIndex \notin PublicIds
    BY <1>2 DEF PublicRoomsStay
<1>9. PublicRoomsStay'
    BY <1>4, <1>5, <1>8, RoomsAssumption DEF PublicRoomsStay, PublicIds, Ids, IsPrivate
<1>10. RoomNamesUnique'
    BY <1>4, <1>5, <1>6 DEF RoomNamesUnique, CreatePrivateRoom, Listed
<1>11. NoEmptyPrivateRoom'
    BY <1>4, <1>5, <1>6 DEF NoEmptyPrivateRoom, Listed, IsPrivate
<1>12. KeptRoomsHaveUser'
    BY <1>2, <1>4, <1>5, <1>6
       DEF KeptRoomsHaveUser, HasMember, Exists, CreatePrivateRoom, TypeOK, NoRoom, IsPrivate, Listed
<1>13. InKeptRoomsOnly'
  <2> SUFFICES ASSUME NEW v \in Users \ wandered', NEW q \in Listed', v \in room'[q].members
               PROVE  q \in {publicRoom'[v], privateRoom'[v]}
      BY DEF InKeptRoomsOnly
  <2>1. v \notin wandered /\ (v = u => privateRoom[u] = NoRoom)
      BY DEF CreatePrivateRoom
  <2>2. /\ publicRoom'[v] = publicRoom[v]
        /\ privateRoom'[v] = IF v = u THEN roomIndex ELSE privateRoom[v]
      BY DEF CreatePrivateRoom, TypeOK
  <2>3. CASE q = roomIndex
      BY <1>6, <2>2, <2>3
  <2>4. CASE q # roomIndex
    <3>1. q \in Listed /\ v \in room[q].members /\ q # NoRoom
        BY <1>4, <1>5, <2>4 DEF Listed, Ids, NoRoom
    <3>2. q \in {publicRoom[v], privateRoom[v]}
        BY <2>1, <3>1 DEF InKeptRoomsOnly
    <3>. QED
        BY <2>1, <2>2, <3>1, <3>2
  <2>. QED
      BY <2>3, <2>4
<1>. QED
    BY <1>3, <1>7, <1>9, <1>10, <1>11, <1>12, <1>13

(* What is left of a room that has the user, when it leaves. *)
LEMMA LeftRoomIs ==
    ASSUME IInv, NEW u \in Users, NEW r \in Ids, HasMember(r, u)
    PROVE  /\ r \in Listed
           /\ LeftRoom(r, u) \in Room \cup {Unlisted}
           /\ LeftRoom(r, u) # Unlisted =>
                 LeftRoom(r, u) = [type |-> room[r].type, name |-> room[r].name,
                                   members |-> room[r].members \ {u}]
           /\ LeftRoom(r, u) = Unlisted => IsPrivate(r) /\ room[r].members = {u}
           /\ IsPrivate(r) /\ room[r].members = {u} => LeftRoom(r, u) = Unlisted
<1>1. r \in Listed /\ room[r] \in Room
    BY ListedRoom DEF HasMember, Exists, IInv
<1>2. Without(r, u) = [type |-> room[r].type, name |-> room[r].name,
                       members |-> room[r].members \ {u}]
    BY DEF Without, WithMembers
<1>3. Without(r, u) \in Room /\ Without(r, u) # Unlisted
    BY <1>1, <1>2 DEF Room, Unlisted
<1>. QED
    BY <1>1, <1>2, <1>3 DEF LeftRoom

(* A user that leaves some of its rooms and forgets those it keeps among   *)
(* them: the requests leave one room, a user that goes leaves two.         *)
LEMMA LeavesRooms ==
    ASSUME IInv, NEW u \in Users, NEW Left \in SUBSET Ids,
           \A r \in Left : HasMember(r, u),
           room' = [r \in Ids |-> IF r \in Left THEN LeftRoom(r, u) ELSE room[r]],
           publicRoom' \in [Users -> Ids \cup {NoRoom}],
           privateRoom' \in [Users -> Ids \cup {NoRoom}],
           \A v \in Users \ {u} : publicRoom'[v] = publicRoom[v]
                                  /\ privateRoom'[v] = privateRoom[v],
           publicRoom'[u] \in {publicRoom[u], NoRoom},
           privateRoom'[u] \in {privateRoom[u], NoRoom},
           publicRoom'[u] = NoRoom => publicRoom[u] \in Left \cup {NoRoom}
                                      \/ u \in wandered,
           privateRoom'[u] = NoRoom => privateRoom[u] \in Left \cup {NoRoom}
                                       \/ u \in wandered,
           publicRoom'[u] \notin Left /\ privateRoom'[u] \notin Left,
           status' \in [Users -> {"absent", "online", "removed"}],
           roomIndex' = roomIndex, wandered' = wandered
    PROVE  IInv'
<1> USE DEF IInv
<1>1. \A q \in Ids : room'[q] = IF q \in Left THEN LeftRoom(q, u) ELSE room[q]
    OBVIOUS
<1>2. \A q \in Left : /\ q \in Listed
                      /\ LeftRoom(q, u) \in Room \cup {Unlisted}
                      /\ LeftRoom(q, u) # Unlisted =>
                            LeftRoom(q, u) = [type |-> room[q].type, name |-> room[q].name,
                                              members |-> room[q].members \ {u}]
                      /\ LeftRoom(q, u) = Unlisted => IsPrivate(q) /\ room[q].members = {u}
                      /\ IsPrivate(q) /\ room[q].members = {u} => LeftRoom(q, u) = Unlisted
    BY LeftRoomIs
<1>3. TypeOK'
    BY <1>1, <1>2 DEF TypeOK
<1>4. Listed' \subseteq Listed
    BY <1>1, <1>2 DEF Listed
<1>5. \A q \in Listed' : /\ room'[q].type = room[q].type
                         /\ room'[q].name = room[q].name
                         /\ room'[q].members = IF q \in Left THEN room[q].members \ {u}
                                               ELSE room[q].members
  <2> SUFFICES ASSUME NEW q \in Listed'
               PROVE  /\ room'[q].type = room[q].type
                      /\ room'[q].name = room[q].name
                      /\ room'[q].members = IF q \in Left THEN room[q].members \ {u}
                                            ELSE room[q].members
      OBVIOUS
  <2>1. q \in Ids /\ room'[q] # Unlisted
      BY DEF Listed, Unlisted
  <2>2. CASE q \in Left
    <3>1. room'[q] = [type |-> room[q].type, name |-> room[q].name,
                      members |-> room[q].members \ {u}]
        BY <1>1, <1>2, <2>1, <2>2
    <3>. QED
        BY <2>2, <3>1
  <2>3. CASE q \notin Left
      BY <1>1, <2>1, <2>3
  <2>. QED
      BY <2>2, <2>3
<1>6. \A q \in Listed \ Listed' : q \in Left /\ IsPrivate(q) /\ room[q].members = {u}
    BY <1>1, <1>2 DEF Listed
<1>7. FreshIds' /\ RoomNamesUnique'
  <2>1. FreshIds'
      BY <1>4 DEF FreshIds
  <2>2. ASSUME NEW p \in Listed', NEW q \in Listed', room'[p].name = room'[q].name
        PROVE  p = q
    <3>1. room[p].name = room[q].name
        BY <1>5, <2>2
    <3>. QED
        BY <1>4, <3>1 DEF RoomNamesUnique
  <2>3. RoomNamesUnique'
      BY <2>2 DEF RoomNamesUnique
  <2>. QED
      BY <2>1, <2>3
<1>8. PublicRoomsStay'
    BY <1>5, <1>6 DEF PublicRoomsStay, IsPrivate
<1>9. NoEmptyPrivateRoom'
  <2> SUFFICES ASSUME NEW q \in Listed', IsPrivate(q)' PROVE room'[q].members # {}
      BY DEF NoEmptyPrivateRoom
  <2>1. q \in Listed /\ IsPrivate(q)
      BY <1>4, <1>5 DEF IsPrivate
  <2>2. CASE q \in Left
    <3>1. room[q].members # {u}
        BY <1>1, <1>2, <2>1, <2>2 DEF Listed
    <3>2. u \in room[q].members
        BY <2>2 DEF HasMember
    <3>. QED
        BY <1>5, <2>2, <3>1, <3>2
  <2>3. CASE q \notin Left
      BY <1>5, <2>1, <2>3 DEF NoEmptyPrivateRoom
  <2>. QED
      BY <2>2, <2>3
<1>10. KeptRoomsHaveUser'
  <2> SUFFICES ASSUME NEW v \in Users, NEW q \in Ids,
                      q \in {publicRoom'[v], privateRoom'[v]}
               PROVE  q \in Listed' /\ v \in room'[q].members /\ (IsPrivate(q)' <=> IsPrivate(q))
      BY DEF KeptRoomsHaveUser, HasMember, Exists, TypeOK, NoRoom, Ids, IsPrivate
  <2>1. q \in {publicRoom[v], privateRoom[v]}
      BY DEF TypeOK, NoRoom, Ids
  <2>2. q \in Listed /\ v \in room[q].members
      BY <2>1 DEF KeptRoomsHaveUser, HasMember, Exists, NoRoom, Ids
  <2>3. v = u => q \notin Left
      OBVIOUS
  <2>4. q \in Listed'
      BY <1>6, <2>2, <2>3
  <2>. QED
      BY <1>5, <2>2, <2>3, <2>4 DEF IsPrivate
<1>11. InKeptRoomsOnly'
  <2> SUFFICES ASSUME NEW v \in Users \ wandered, NEW q \in Listed', v \in room'[q].members
               PROVE  q \in {publicRoom'[v], privateRoom'[v]}
      BY DEF InKeptRoomsOnly
  <2>1. q \in Listed /\ v \in room[q].members /\ (v = u => q \notin Left)
      BY <1>4, <1>5
  <2>2. q \in {publicRoom[v], privateRoom[v]}
      BY <2>1 DEF InKeptRoomsOnly
  <2>3. q # NoRoom
      BY <2>1 DEF Listed, Ids, NoRoom
  <2>. QED
      BY <2>1, <2>2, <2>3
<1>. QED
    BY <1>3, <1>7, <1>8, <1>9, <1>10, <1>11

(* The user is in the room it keeps of the type of the room it leaves, if  *)
(* it has not wandered.                                                    *)
LEMMA LeaveStep ==
    ASSUME IInv, NEW u \in Users, NEW r \in Ids, HasMember(r, u), Leave(r, u),
           UNCHANGED <<status, roomIndex, wandered>>
    PROVE  IInv'
<1>1. room' = [q \in Ids |-> IF q \in {r} THEN LeftRoom(q, u) ELSE room[q]]
    BY DEF Leave, IInv, TypeOK
<1>2. \A v \in Users \ {u} : publicRoom'[v] = publicRoom[v] /\ privateRoom'[v] = privateRoom[v]
    BY DEF Leave, IInv, TypeOK
<1>3. /\ publicRoom' \in [Users -> Ids \cup {NoRoom}]
      /\ privateRoom' \in [Users -> Ids \cup {NoRoom}]
      /\ status' \in [Users -> {"absent", "online", "removed"}]
    BY DEF Leave, IInv, TypeOK
<1>4. /\ publicRoom'[u] = IF IsPrivate(r) THEN publicRoom[u] ELSE NoRoom
      /\ privateRoom'[u] = IF IsPrivate(r) THEN NoRoom ELSE privateRoom[u]
    BY DEF Leave, IInv, TypeOK
<1>5. u \notin wandered => r \in {publicRoom[u], privateRoom[u]}
    BY DEF HasMember, Exists, IInv, InKeptRoomsOnly
<1>6. /\ r = publicRoom[u] => ~IsPrivate(r)
      /\ r = privateRoom[u] => IsPrivate(r)
      /\ r # NoRoom
    BY DEF IInv, KeptRoomsHaveUser, Ids, NoRoom
<1>. QED
  <2> DEFINE L == {r}
  <2>1. L \in SUBSET Ids /\ \A q \in L : HasMember(q, u)
      OBVIOUS
  <2>2. room' = [q \in Ids |-> IF q \in L THEN LeftRoom(q, u) ELSE room[q]]
      BY <1>1
  <2>3. /\ publicRoom'[u] \in {publicRoom[u], NoRoom}
        /\ privateRoom'[u] \in {privateRoom[u], NoRoom}
        /\ publicRoom'[u] \notin L /\ privateRoom'[u] \notin L
      BY <1>4, <1>6
  <2>4. /\ publicRoom'[u] = NoRoom => publicRoom[u] \in L \cup {NoRoom} \/ u \in wandered
        /\ privateRoom'[u] = NoRoom => privateRoom[u] \in L \cup {NoRoom} \/ u \in wandered
      BY <1>4, <1>5, <1>6
  <2> HIDE DEF L
  <2>. QED
      BY <1>2, <1>3, <2>1, <2>2, <2>3, <2>4, LeavesRooms

LEMMA StartGameStep ==
    ASSUME IInv, NEW r \in Ids, NEW name \in Names, StartGame(r, name)
    PROVE  IInv'
<1> USE DEF IInv
<1>1. r \in Listed /\ IsPrivate(r)
    BY DEF StartGame, IsFound
<1>2. Listed' = Listed \ {r}
    BY DEF StartGame, Listed, TypeOK
<1>3. \A q \in Listed' : room'[q] = room[q]
    BY <1>2 DEF StartGame, TypeOK, Listed
<1>4. TypeOK'
    BY DEF StartGame, TypeOK
<1>5. FreshIds' /\ RoomNamesUnique' /\ NoEmptyPrivateRoom'
    BY <1>2, <1>3 DEF StartGame, FreshIds, RoomNamesUnique, NoEmptyPrivateRoom, IsPrivate
<1>6. PublicRoomsStay'
    BY <1>1, <1>2, <1>3 DEF PublicRoomsStay, IsPrivate
<1>7. \A v \in Users : /\ publicRoom'[v] = publicRoom[v]
                       /\ privateRoom'[v] = IF v \in room[r].members THEN NoRoom
                                            ELSE privateRoom[v]
    BY DEF StartGame
<1>8. KeptRoomsHaveUser'
    BY <1>1, <1>2, <1>3, <1>7
       DEF KeptRoomsHaveUser, HasMember, Exists, IsPrivate, TypeOK, NoRoom
<1>9. InKeptRoomsOnly'
  <2> SUFFICES ASSUME NEW v \in Users \ wandered, NEW q \in Listed', v \in room'[q].members
               PROVE  q \in {publicRoom'[v], privateRoom'[v]}
      BY DEF InKeptRoomsOnly, StartGame
  <2>1. q \in Listed /\ q # r /\ v \in room[q].members
      BY <1>2, <1>3
  <2>2. q \in {publicRoom[v], privateRoom[v]}
      BY <2>1 DEF InKeptRoomsOnly
  <2>3. v \in room[r].members => r = privateRoom[v]
      BY <1>1 DEF InKeptRoomsOnly, KeptRoomsHaveUser, NoRoom, Ids, Listed
  <2>. QED
      BY <1>7, <2>1, <2>2, <2>3
<1>. QED
    BY <1>4, <1>5, <1>6, <1>8, <1>9

LEMMA RemoveUserStep ==
    ASSUME IInv, NEW u \in Users, RemoveUser(u)
    PROVE  IInv'
<1> DEFINE L == {r \in Ids : r \in {publicRoom[u], privateRoom[u]} /\ HasMember(r, u)}
<1>1. L \in SUBSET Ids /\ \A q \in L : HasMember(q, u)
    OBVIOUS
<1>2. room' = [q \in Ids |-> IF q \in L THEN LeftRoom(q, u) ELSE room[q]]
    BY DEF RemoveUser
<1>3. /\ publicRoom' \in [Users -> Ids \cup {NoRoom}]
      /\ privateRoom' \in [Users -> Ids \cup {NoRoom}]
      /\ status' \in [Users -> {"absent", "online", "removed"}]
    BY DEF RemoveUser, IInv, TypeOK
<1>4. \A v \in Users \ {u} : publicRoom'[v] = publicRoom[v] /\ privateRoom'[v] = privateRoom[v]
    BY DEF RemoveUser, IInv, TypeOK
<1>5. /\ publicRoom[u] # NoRoom => publicRoom[u] \in L
      /\ privateRoom[u] # NoRoom => privateRoom[u] \in L
    BY DEF IInv, TypeOK, KeptRoomsHaveUser
<1>6. publicRoom'[u] = NoRoom /\ privateRoom'[u] = NoRoom
    BY <1>1, <1>5 DEF RemoveUser, IInv, TypeOK
<1>7. NoRoom \notin L
    BY DEF Ids, NoRoom
<1>8. roomIndex' = roomIndex /\ wandered' = wandered
    BY DEF RemoveUser
<1> HIDE DEF L
<1>. QED
    BY <1>1, <1>2, <1>3, <1>4, <1>5, <1>6, <1>7, <1>8, LeavesRooms

LEMMA IInvStep == IInv /\ [Next]_vars => IInv'
<1> SUFFICES ASSUME IInv, [Next]_vars PROVE IInv'
    OBVIOUS
<1>1. ASSUME NEW u \in Users, Connect(u) PROVE IInv'
    BY <1>1, ConnectStep
<1>2. ASSUME NEW u \in Users, NEW r \in Ids, NEW name \in Names, EnterRoom(u, r, name)
      PROVE  IInv'
    BY <1>2, EnterRoomStep
<1>3. ASSUME NEW u \in Users, NEW r \in Ids, NEW name \in Names, LeaveRoom(u, r, name)
      PROVE  IInv'
  <2>1. HasMember(r, u) /\ Leave(r, u) /\ UNCHANGED <<status, roomIndex, wandered>>
      BY <1>3 DEF LeaveRoom, IsFound, HasMember, Exists
  <2>. QED
      BY <2>1, LeaveStep
<1>4. ASSUME NEW u \in Users, NEW name \in Names \cup {EmptyName}, CreatePrivateRoom(u, name)
      PROVE  IInv'
    BY <1>4, CreatePrivateRoomStep
<1>5. ASSUME NEW u \in Users, CancelGame(u) PROVE IInv'
  <2> DEFINE r == privateRoom[u]
  <2>1. HasMember(r, u) /\ Leave(r, u) /\ UNCHANGED <<status, roomIndex, wandered>>
      BY <1>5 DEF CancelGame
  <2>2. r \in Ids
      BY <2>1 DEF HasMember, Exists, Listed
  <2> HIDE DEF r
  <2>. QED
      BY <2>1, <2>2, LeaveStep
<1>6. ASSUME NEW u \in Users, RemoveUser(u) PROVE IInv'
    BY <1>6, RemoveUserStep
<1>7. ASSUME NEW r \in Ids, NEW name \in Names, StartGame(r, name) PROVE IInv'
    BY <1>7, StartGameStep
<1>8. CASE UNCHANGED vars
    BY <1>8 DEF vars, IInv, TypeOK, FreshIds, KeptRoomsHaveUser, InKeptRoomsOnly,
       RoomNamesUnique, PublicRoomsStay, NoEmptyPrivateRoom, Listed, IsPrivate, HasMember, Exists
<1>. QED
    BY <1>1, <1>2, <1>3, <1>4, <1>5, <1>6, <1>7, <1>8 DEF Next

(* The inductive invariant holds. *)
THEOREM RoomsIInv == Spec => []IInv
<1>1. Init => IInv
    BY InitIInv
<1>2. IInv /\ [Next]_vars => IInv'
    BY IInvStep
<1>. QED
    BY <1>1, <1>2, PTL DEF Spec

(* Every user is in the rooms it keeps the ids of.  (ChatRoomManager)      *)
THEOREM RoomsKept == Spec => []KeptRoomsHaveUser
<1>1. IInv => KeptRoomsHaveUser
    BY DEF IInv
<1>. QED
    BY <1>1, RoomsIInv, PTL

(* A user that takes one room of a type at a time is in no other room, and *)
(* so leaves none with it behind.  (OnDisconnectUser)                      *)
THEOREM RoomsOnlyKept == Spec => []InKeptRoomsOnly
<1>1. IInv => InKeptRoomsOnly
    BY DEF IInv
<1>. QED
    BY <1>1, RoomsIInv, PTL

(* No two rooms have one name.  (CreateGameChatSession) *)
THEOREM RoomsNamed == Spec => []RoomNamesUnique
<1>1. IInv => RoomNamesUnique
    BY DEF IInv
<1>. QED
    BY <1>1, RoomsIInv, PTL

(* The public rooms stay, whatever games are named after them.             *)
(* (CloseGameChatSession)                                                  *)
THEOREM RoomsPublicStay == Spec => []PublicRoomsStay
<1>1. IInv => PublicRoomsStay
    BY DEF IInv
<1>. QED
    BY <1>1, RoomsIInv, PTL

(* No private room is empty: its last member takes it along.  (LeaveRoom)  *)
THEOREM RoomsNotEmpty == Spec => []NoEmptyPrivateRoom
<1>1. IInv => NoEmptyPrivateRoom
    BY DEF IInv
<1>. QED
    BY <1>1, RoomsIInv, PTL
=============================================================================
