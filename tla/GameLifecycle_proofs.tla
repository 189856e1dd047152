------------------------ MODULE GameLifecycle_proofs ------------------------
(***************************************************************************)
(* GameSessions implements GameLifecycle: the initial state maps to the    *)
(* initial state and every step of either thread to a step or a stutter.   *)
(***************************************************************************)
EXTENDS GameSessions_proofs

USE UsersAssumption, NamesAssumption, SeatsAssumption, MaxGamesAssumption,
    CountsAssumption

Making(i) == lobby.pc \in CreatePcs /\ lobby.id = i

(* A game is in the making from the handler that gives out its id to the   *)
(* step that lists it.                                                     *)
LEMMA MakingStep ==
    ASSUME IInv, [Next]_vars, NEW i \in Ids
    PROVE  /\ Making(i)' => Making(i) \/ ~(i < next)
           /\ Making(i) => Making(i)' \/ (ListGame /\ i = lobby.id)
<1>. USE DEF IInv, TypeOK, LobbyOK, GamesOK
<1>1. CASE lobby' = lobby
  BY <1>1 DEF Making
<1>2. ASSUME NEW u \in Users, Creates(u)
      PROVE  lobby.pc = "idle" /\ lobby'.id = next /\ ~(next < next)
  BY <1>2 DEF Creates, CreatePublic_CON, CreatePrivate_CON, CreateGame_RTA,
              StartCreating, Handles
<1>3. ASSUME NEW u \in Users, Points(u)
      PROVE  lobby.pc = "idle" /\ lobby'.pc \notin CreatePcs
  BY <1>3 DEF Points, GetGame, DoClientDiscovery_CON, DoClientDiscovery_RTA, Handles, CreatePcs
<1>4. CASE SetGameId \/ SeatHost
  BY <1>4 DEF SetGameId, SeatHost, Making, CreatePcs
<1>5. CASE ListGame
  BY <1>5 DEF ListGame, LobbyIdle, Making, CreatePcs
<1>6. CASE ReclearAddress \/ EnterGame \/ BecomeGuest
  BY <1>6 DEF ReclearAddress, EnterGame, BecomeGuest, LobbyIdle, Making, CreatePcs
<1>. QED  BY <1>1, <1>2, <1>3, <1>4, <1>5, <1>6, LobbyFrame DEF Making, CreatePcs

(* One step takes one game off the list, and does nothing else to it.      *)
LEMMA OneRemoved ==
    ASSUME [Next]_vars, NEW i \in listed, i \notin listed'
    PROVE  ~ListGame /\ ~Publish /\ \A j \in listed : j # i => j \in listed'
<1>1. ~ListGame
  BY DEF ListGame
<1>2. ~Publish
  BY DEF Publish
<1>3. \E k : listed \ {k} \subseteq listed'
  <2>1. ASSUME NEW u \in Users, Leaves(u) \/ CancelGame(u) \/ StartGame(u)
        PROVE  listed \ {gameId[u]} \subseteq listed'
    BY <2>1 DEF Leaves, RemoveUser, CancelGame, StartGame
  <2>2. ASSUME NEW u \in Users,
             \/ Connect(u) \/ Login(u) \/ Release(u) \/ Points(u) \/ Receive(u)
             \/ Creates(u) \/ UserJoinSuccess(u) \/ Updates(u)
        PROVE  listed' = listed
    BY <2>2 DEF Connect, Login, Release, Points, GetGame, DoClientDiscovery_CON,
              DoClientDiscovery_RTA, Receive, Creates, CreatePublic_CON,
              CreatePrivate_CON, CreateGame_RTA, StartCreating, UserJoinSuccess,
              Updates, UpdateGameData, gameVars
  <2>3. CASE SetGameId \/ SeatHost \/ ReclearAddress \/ EnterGame \/ BecomeGuest
    BY <2>3 DEF SetGameId, SeatHost, ReclearAddress, EnterGame, BecomeGuest, gameVars
  <2>4. CASE RecordAddress \/ Branch \/ FindGame \/ OpenCheck \/ OpenCopy
             \/ Announce \/ JoinState \/ JoinOwner \/ JoinAddr \/ Introduce
    BY <2>4 DEF RecordAddress, Branch, FindGame, OpenCheck, OpenCopy,
              Announce, JoinState, JoinOwner, JoinAddr, Introduce, gameVars
  <2>5. CASE Terminate
    BY <2>5 DEF Terminate, Delist
  <2>6. CASE UNCHANGED vars
    BY <2>6 DEF vars, gameVars
  <2>. QED  BY <1>1, <1>2, <2>1, <2>2, <2>3, <2>4, <2>5, <2>6, Steps
<1>. QED  BY <1>1, <1>2, <1>3

(* What a step does to the phase of a game.                                *)
Announced(i) == ListGame /\ i = lobby.id /\ phase[i] = "unborn" /\ phase'[i] = "closed"
Opened(i) == Publish /\ i = disc.id /\ phase[i] = "closed" /\ phase'[i] = "open"
Ended(i) ==
    /\ i \in listed /\ i \notin listed'
    /\ phase[i] \in {"closed", "open"} /\ phase'[i] = "gone"

LEMMA PhaseStep ==
    ASSUME IInv, [Next]_vars, NEW i \in Ids
    PROVE  phase'[i] = phase[i] \/ Announced(i) \/ Opened(i) \/ Ended(i)
<1>. USE DEF IInv, TypeOK, GamesOK
<1>1. phase[i] = IF i \in listed THEN IF game[i].state = "Open" THEN "open" ELSE "closed"
                 ELSE IF i >= next \/ Making(i) THEN "unborn" ELSE "gone"
  BY DEF phase, Making
<1>2. phase'[i] = IF i \in listed' THEN IF game'[i].state = "Open" THEN "open" ELSE "closed"
                  ELSE IF i >= next' \/ Making(i)' THEN "unborn" ELSE "gone"
  BY DEF phase, Making
<1>3. next' >= next /\ next' \in Int /\ next \in Int /\ i \in Int
  BY NextGrows DEF Ids
<1>4. CASE i \in listed /\ i \in listed'
  <2>1. Keeps(i)
    BY <1>4, FieldStep
  <2>. QED  BY <1>1, <1>2, <1>4, <2>1 DEF Keeps, Starts, Opened
<1>5. CASE i \notin listed /\ i \in listed'
  <2>1. ListGame /\ i = lobby.id
    BY <1>5, ListedFrame DEF ListGame
  <2>2. Making(i) /\ game'[i].state = "NotReady"
    BY <2>1 DEF ListGame, Making, CreatingFresh, CreatePcs
  <2>. QED  BY <1>1, <1>2, <1>5, <2>1, <2>2 DEF Announced
<1>6. CASE i \in listed /\ i \notin listed'
  <2>1. i < next /\ ~Making(i)
    BY <1>6 DEF Making, CreatingFresh
  <2>2. ~Making(i)' /\ ~(i >= next')
    BY <1>3, <2>1, MakingStep
  <2>. QED  BY <1>1, <1>2, <1>6, <2>2 DEF Ended
<1>7. CASE i \notin listed /\ i \notin listed'
  <2>1. CASE Making(i)
    <3>1. ~(ListGame /\ i = lobby.id)
      BY <1>7 DEF ListGame
    <3>. QED  BY <1>1, <1>2, <1>7, <2>1, <3>1, MakingStep
  <2>2. CASE i >= next
    <3>1. CASE i < next'
      <4>1. lobby'.pc = "setGameId" /\ lobby'.id = i
        BY <1>3, <2>2, <3>1, NewIds
      <4>. QED  BY <1>1, <1>2, <1>7, <2>2, <4>1 DEF Making, CreatePcs
    <3>2. CASE ~(i < next')
      BY <1>1, <1>2, <1>3, <1>7, <2>2, <3>2
    <3>. QED  BY <3>1, <3>2
  <2>3. CASE ~Making(i) /\ ~(i >= next)
    <3>1. ~Making(i)' /\ ~(i >= next')
      BY <1>3, <2>3, MakingStep
    <3>. QED  BY <1>1, <1>2, <1>7, <2>3, <3>1
  <2>. QED  BY <2>1, <2>2, <2>3
<1>. QED  BY <1>4, <1>5, <1>6, <1>7

(* Every step of the two threads is one of the abstract ones, or none.     *)
LEMMA StepRefines ==
    ASSUME IInv, [Next]_vars
    PROVE  [Lifecycle!Next]_phase
<1>1. phase = [i \in Ids |-> phase[i]] /\ phase' = [i \in Ids |-> phase'[i]]
  BY DEF phase
<1>2. CASE \A i \in Ids : phase'[i] = phase[i]
  BY <1>1, <1>2
<1>3. ASSUME NEW i \in Ids, phase'[i] # phase[i]
      PROVE  Lifecycle!Next
  <2>1. \A j \in Ids : j # i => phase'[j] = phase[j]
    <3>1. ASSUME NEW j \in Ids, j # i, phase'[j] # phase[j]
          PROVE  FALSE
      <4>1. /\ Announced(i) \/ Opened(i) \/ Ended(i)
            /\ Announced(j) \/ Opened(j) \/ Ended(j)
        BY <1>3, <3>1, PhaseStep
      <4>2. CASE Ended(i) \/ Ended(j)
        <5>1. ~ListGame /\ ~Publish
          BY <4>2, OneRemoved DEF Ended
        <5>2. Ended(i) /\ Ended(j)
          BY ONLY <4>1, <5>1 DEF Announced, Opened
        <5>. QED  BY <3>1, <5>2, OneRemoved DEF Ended
      <4>3. CASE ListGame /\ Publish
        <5>1. listed' = listed /\ lobby' = lobby
          BY <4>3 DEF Publish
        <5>2. lobby' # lobby
          BY <4>3 DEF ListGame, LobbyIdle, IInv, TypeOK, LobbyOK
        <5>. QED  BY <5>1, <5>2
      <4>. QED  BY <3>1, <4>1, <4>2, <4>3 DEF Announced, Opened
    <3>. QED  BY <3>1
  <2>2. phase' = [phase EXCEPT ![i] = phase'[i]]
    BY <1>1, <2>1
  <2>3. CASE Announced(i)
    <3>1. ASSUME NEW h \in Ids, h < i
          PROVE  phase[h] # "unborn"
      <4>1. i < next /\ lobby.id = i /\ next \in Int
        BY <2>3 DEF Announced, ListGame, IInv, TypeOK, LobbyOK, GamesOK
      <4>2. ~(h >= next) /\ ~(lobby.pc \in CreatePcs /\ lobby.id = h)
        BY <3>1, <4>1 DEF Ids
      <4>. QED  BY <4>2 DEF phase
    <3>2. Lifecycle!Announce(i)
      BY <2>2, <2>3, <3>1 DEF Lifecycle!Announce, Announced
    <3>. QED  BY <3>2 DEF Lifecycle!Next
  <2>4. CASE Opened(i)
    <3>1. Lifecycle!OpenGame(i)
      BY <2>2, <2>4 DEF Lifecycle!OpenGame, Opened
    <3>. QED  BY <3>1 DEF Lifecycle!Next
  <2>5. CASE Ended(i)
    <3>1. Lifecycle!End(i)
      BY <2>2, <2>5 DEF Lifecycle!End, Ended
    <3>. QED  BY <3>1 DEF Lifecycle!Next
  <2>. QED  BY <1>3, <2>3, <2>4, <2>5, PhaseStep
<1>. QED  BY <1>2, <1>3

(* The list keeps the promise of GameLifecycle: a game is announced once,  *)
(* after all older ones, opens at most once, and never comes back.         *)
THEOREM Refinement == Spec => ImplementsLifecycle
<1>1. Init => Lifecycle!Init
  BY DEF Init, Lifecycle!Init, phase, Ids
<1>2. IInv /\ [Next]_vars => [Lifecycle!Next]_phase
  BY StepRefines
<1>. QED
  BY <1>1, <1>2, Invariance, PTL DEF Spec, ImplementsLifecycle, Lifecycle!Spec
=============================================================================
