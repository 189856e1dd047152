--------------------------- MODULE Server_proofs ---------------------------
(***************************************************************************)
(* Proofs about Server: no thread outlives main, and both servers          *)
(* implement Service.                                                      *)
(***************************************************************************)
EXTENDS Server, TLAPS

USE BoundAssumption

LEMMA ServerInit == Init => IInv
<1>. SUFFICES ASSUME Init PROVE IInv
  OBVIOUS
<1>. USE DEF Init, StartPcs, LoopPcs, StopPcs, EndPcs, LobbyPcs, DiscPcs
<1>1. TypeOK
  <2>1. arrived \in 0..MaxArrived  OBVIOUS
  <2>. QED  BY <2>1, Zenon DEF TypeOK
<1>2. LobbyKept  BY DEF LobbyKept
<1>3. DiscoveryKept  BY DEF DiscoveryKept
<1>. QED  BY <1>1, <1>2, <1>3 DEF IInv

(* Steps of main that start the servers. *)
LEMMA StartKeeps ==
    ASSUME IInv,
           \/ Startup \/ StartLobby \/ SpawnLobby
           \/ StartDiscovery \/ SpawnDiscovery \/ OpenDatabase
    PROVE  IInv'
<1>. USE DEF IInv, TypeOK, LobbyKept, DiscoveryKept, StartPcs, LoopPcs, StopPcs,
             EndPcs, LobbyPcs, DiscPcs, lobbyVars, discVars
<1>1. CASE Startup
  <2>1. TypeOK'  BY <1>1 DEF Startup
  <2>2. LobbyKept'  BY <1>1 DEF Startup
  <2>3. DiscoveryKept'  BY <1>1 DEF Startup
  <2>. QED  BY <2>1, <2>2, <2>3
<1>2. CASE StartLobby
  <2>1. TypeOK'  BY <1>2 DEF StartLobby
  <2>2. LobbyKept'  BY <1>2 DEF StartLobby
  <2>3. DiscoveryKept'  BY <1>2 DEF StartLobby
  <2>. QED  BY <2>1, <2>2, <2>3
<1>3. CASE SpawnLobby  BY <1>3 DEF SpawnLobby
<1>4. CASE StartDiscovery
  <2>1. TypeOK'  BY <1>4 DEF StartDiscovery
  <2>2. LobbyKept'  BY <1>4 DEF StartDiscovery
  <2>3. DiscoveryKept'  BY <1>4 DEF StartDiscovery
  <2>. QED  BY <2>1, <2>2, <2>3
<1>5. CASE SpawnDiscovery  BY <1>5 DEF SpawnDiscovery
<1>6. CASE OpenDatabase  BY <1>6 DEF OpenDatabase
<1>. QED  BY <1>1, <1>2, <1>3, <1>4, <1>5, <1>6

(* Steps of main that watch over them and stop them. *)
LEMMA StopKeeps ==
    ASSUME IInv,
           Watch \/ Sleep \/ StopLobby \/ JoinLobby \/ StopDiscovery \/ JoinDiscovery
    PROVE  IInv'
<1>. USE DEF IInv, TypeOK, LobbyKept, DiscoveryKept, StartPcs, LoopPcs, StopPcs,
             EndPcs, LobbyPcs, DiscPcs, lobbyVars, discVars
<1>1. CASE Watch  BY <1>1 DEF Watch
<1>2. CASE Sleep  BY <1>2 DEF Sleep
<1>3. CASE StopLobby  BY <1>3 DEF StopLobby
<1>4. CASE JoinLobby  BY <1>4 DEF JoinLobby
<1>5. CASE StopDiscovery  BY <1>5 DEF StopDiscovery
<1>6. CASE JoinDiscovery  BY <1>6 DEF JoinDiscovery
<1>. QED  BY <1>1, <1>2, <1>3, <1>4, <1>5, <1>6

LEMMA LobbyKeeps ==
    ASSUME IInv, LobbyThread \/ SendReturns
    PROVE  IInv'
<1>. USE DEF IInv, TypeOK, LobbyKept, DiscoveryKept, StartPcs, LoopPcs, StopPcs,
             EndPcs, LobbyPcs, DiscPcs, lobbyVars, discVars, Ended
<1>1. CASE LobbyWhile  BY <1>1 DEF LobbyWhile
<1>2. CASE LobbyRound  BY <1>2 DEF LobbyRound
<1>3. CASE SendReturns  BY <1>3 DEF SendReturns
<1>. QED  BY <1>1, <1>2, <1>3 DEF LobbyThread

LEMMA DiscoveryKeeps ==
    ASSUME IInv, DiscoveryThread \/ Signal \/ Arrive
    PROVE  IInv'
<1>. USE DEF IInv, TypeOK, LobbyKept, DiscoveryKept, StartPcs, LoopPcs, StopPcs,
             EndPcs, LobbyPcs, DiscPcs, lobbyVars, discVars, Ended
<1>1. CASE DiscoveryWhile  BY <1>1 DEF DiscoveryWhile
<1>2. CASE Receive  BY <1>2 DEF Receive
<1>3. CASE ProcessPacket  BY <1>3 DEF ProcessPacket
<1>4. CASE Signal  BY <1>4 DEF Signal
<1>5. CASE Arrive  BY <1>5 DEF Arrive
<1>. QED  BY <1>1, <1>2, <1>3, <1>4, <1>5 DEF DiscoveryThread

LEMMA ServerStep == IInv /\ [Next]_vars => IInv'
<1>. SUFFICES ASSUME IInv, [Next]_vars PROVE IInv'
  OBVIOUS
<1>1. CASE Main
  BY <1>1, StartKeeps, StopKeeps DEF Main
<1>2. CASE LobbyThread \/ SendReturns
  BY <1>2, LobbyKeeps
<1>3. CASE DiscoveryThread \/ Signal \/ Arrive
  BY <1>3, DiscoveryKeeps
<1>4. CASE UNCHANGED vars
  BY <1>4 DEF vars, lobbyVars, discVars, IInv, TypeOK, LobbyKept, DiscoveryKept
<1>. QED  BY <1>1, <1>2, <1>3, <1>4 DEF Next

(* The flag of a server is set exactly while its thread may serve: it is   *)
(* set before the thread is there and cleared before it is joined.         *)
THEOREM ServerIInv == Spec => []IInv
<1>1. Init => IInv
  BY ServerInit
<1>2. IInv /\ [Next]_vars => IInv'
  BY ServerStep
<1>. QED  BY <1>1, <1>2, PTL DEF Spec

(* When main returns both threads have been joined or never were: nothing  *)
(* uses the managers that the end of main destroys.                        *)
THEOREM NoThreadLeftThm == Spec => []NoThreadLeft
<1>1. IInv => NoThreadLeft
  BY DEF IInv, LobbyKept, DiscoveryKept, NoThreadLeft
<1>. QED  BY <1>1, ServerIInv, PTL

----------------------------------------------------------------------------
(* What a step is to the one server and to the other. *)

LEMMA LobbyMaps ==
    ASSUME IInv, [Next]_vars
    PROVE  [LobbyService!Next]_lobbyState
<1>. USE DEF IInv, TypeOK, LobbyKept, StartPcs, LoopPcs, StopPcs, EndPcs, LobbyPcs,
             lobbyState, StateOf, LobbyService!Next, LobbyService!Serve,
             LobbyService!TellToStop, LobbyService!End, LobbyService!Kill, lobbyVars
<1>1. CASE Startup \/ StartDiscovery \/ SpawnDiscovery \/ OpenDatabase
  BY <1>1 DEF Startup, StartDiscovery, SpawnDiscovery, OpenDatabase
<1>2. CASE StartLobby  BY <1>2 DEF StartLobby
<1>3. CASE SpawnLobby  BY <1>3 DEF SpawnLobby
<1>4. CASE Watch \/ Sleep \/ StopDiscovery \/ JoinDiscovery
  BY <1>4 DEF Watch, Sleep, StopDiscovery, JoinDiscovery
<1>5. CASE StopLobby  BY <1>5 DEF StopLobby
<1>6. CASE JoinLobby  BY <1>6 DEF JoinLobby
<1>7. CASE LobbyThread \/ SendReturns
  BY <1>7 DEF LobbyThread, LobbyWhile, LobbyRound, SendReturns, Ended
<1>8. CASE DiscoveryThread \/ Signal \/ Arrive
  BY <1>8 DEF DiscoveryThread, DiscoveryWhile, Receive, ProcessPacket, Signal, Arrive
<1>9. CASE UNCHANGED vars  BY <1>9 DEF vars
<1>. QED  BY <1>1, <1>2, <1>3, <1>4, <1>5, <1>6, <1>7, <1>8, <1>9 DEF Next, Main

LEMMA DiscoveryMaps ==
    ASSUME IInv, [Next]_vars
    PROVE  [DiscoveryService!Next]_discState
<1>. USE DEF IInv, TypeOK, DiscoveryKept, StartPcs, LoopPcs, StopPcs, EndPcs, DiscPcs,
             discState, StateOf, DiscoveryService!Next, DiscoveryService!Serve,
             DiscoveryService!TellToStop, DiscoveryService!End, DiscoveryService!Kill,
             discVars
<1>1. CASE Startup \/ StartLobby \/ SpawnLobby \/ OpenDatabase
  BY <1>1 DEF Startup, StartLobby, SpawnLobby, OpenDatabase
<1>2. CASE StartDiscovery  BY <1>2 DEF StartDiscovery
<1>3. CASE SpawnDiscovery  BY <1>3 DEF SpawnDiscovery
<1>4. CASE Watch \/ Sleep \/ StopLobby \/ JoinLobby
  BY <1>4 DEF Watch, Sleep, StopLobby, JoinLobby
<1>5. CASE StopDiscovery  BY <1>5 DEF StopDiscovery
<1>6. CASE JoinDiscovery  BY <1>6 DEF JoinDiscovery
<1>7. CASE LobbyThread \/ SendReturns \/ Signal
  BY <1>7 DEF LobbyThread, LobbyWhile, LobbyRound, SendReturns, Signal
<1>8. CASE DiscoveryThread \/ Arrive
  BY <1>8 DEF DiscoveryThread, DiscoveryWhile, Receive, ProcessPacket, Arrive, Ended
<1>9. CASE UNCHANGED vars  BY <1>9 DEF vars
<1>. QED  BY <1>1, <1>2, <1>3, <1>4, <1>5, <1>6, <1>7, <1>8, <1>9 DEF Next, Main

(* Both servers implement Service: a thread serves until main tells it to  *)
(* stop, and is not started again.                                         *)
THEOREM ServersServeThm == Spec => ServersServe
<1>1. Init => LobbyService!Init /\ DiscoveryService!Init
  BY DEF Init, LobbyService!Init, DiscoveryService!Init, lobbyState, discState,
         StateOf
<1>2. IInv /\ [Next]_vars => [LobbyService!Next]_lobbyState
  BY LobbyMaps
<1>3. IInv /\ [Next]_vars => [DiscoveryService!Next]_discState
  BY DiscoveryMaps
<1>. QED  BY <1>1, <1>2, <1>3, ServerIInv, PTL
          DEF Spec, ServersServe, LobbyService!Spec, DiscoveryService!Spec
=============================================================================
