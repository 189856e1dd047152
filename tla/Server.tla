------------------------------- MODULE Server -------------------------------
(***************************************************************************)
(* The process: main starts the lobby server and the discovery server,     *)
(* each with a thread, watches over them, and on a signal, or when one of  *)
(* them did not start, stops the one and then the other and joins their    *)
(* threads.                                                                *)
(*                                                                         *)
(* What the threads do while they serve is in LobbySockets and             *)
(* GameSessions.  Here they are seen where they may fail to come back: the *)
(* lobby thread in a send to a client that does not read, the discovery    *)
(* thread in a recvfrom that has no timeout.                               *)
(***************************************************************************)
EXTENDS Naturals

CONSTANT MaxArrived   \* bound: how many datagrams wait in the UDP socket

ASSUME BoundAssumption == MaxArrived \in Nat

VARIABLES
    g_isRunning,   \* cleared by SIGINT and SIGTERM
    main,          \* where the main thread is
    lobbyRunning,  \* LobbyServer::m_running
    lobby,         \* where the thread of the lobby server is
    listening,     \* the two lobby ports have a socket
    discRunning,   \* DiscoveryServer::m_running
    disc,          \* where the thread of the discovery server is
    arrived,       \* datagrams, or errors, that recvfrom has not returned yet
    database       \* the one instance of Database exists

lobbyVars == <<lobbyRunning, lobby, listening>>
discVars == <<discRunning, disc, arrived>>
vars == <<g_isRunning, main, lobbyVars, discVars, database>>

StartPcs == {"startup", "startLobby", "spawnLobby", "startDiscovery",
             "spawnDiscovery", "openDatabase"}

LoopPcs == {"loop", "sleep"}
StopPcs == {"stopLobby", "joinLobby", "stopDiscovery", "joinDiscovery"}
EndPcs == {"returned", "aborted"}
LobbyPcs == {"none", "while", "round", "send", "ended", "joined"}
DiscPcs == {"none", "while", "recv", "packet", "ended", "joined"}

TypeOK ==
    /\ g_isRunning \in BOOLEAN
    /\ main \in StartPcs \cup LoopPcs \cup StopPcs \cup EndPcs
    /\ lobbyRunning \in BOOLEAN
    /\ lobby \in LobbyPcs
    /\ listening \in BOOLEAN
    /\ discRunning \in BOOLEAN
    /\ disc \in DiscPcs
    /\ arrived \in 0..MaxArrived
    /\ database \in BOOLEAN

Init ==
    /\ g_isRunning = TRUE
    /\ main = "startup"
    /\ lobbyRunning = FALSE
    /\ lobby = "none"
    /\ listening = FALSE
    /\ discRunning = FALSE
    /\ disc = "none"
    /\ arrived = 0
    /\ database = FALSE

Ended == main \in EndPcs

----------------------------------------------------------------------------
(* The main thread.                                                        *)

(* WSAStartup, Config::Load: main returns when one of them fails; a port   *)
(* in the file that is no number throws, and nobody catches.               *)
Startup ==
    /\ main = "startup"
    /\ main' \in {"startLobby", "returned", "aborted"}
    /\ UNCHANGED <<g_isRunning, lobbyVars, discVars, database>>

(* LobbyServer::Start: without one of the sixteen gateway ports it returns *)
(* and the server stays off; whether the two lobby ports could be opened   *)
(* is not asked.                                                           *)
StartLobby ==
    /\ main = "startLobby"
    /\ \/ main' = "startDiscovery" /\ UNCHANGED lobbyVars
       \/ /\ main' = "spawnLobby"
          /\ lobbyRunning' = TRUE
          /\ listening' \in BOOLEAN
          /\ UNCHANGED lobby
    /\ UNCHANGED <<g_isRunning, discVars, database>>

SpawnLobby ==
    /\ main = "spawnLobby"
    /\ lobby' = "while"
    /\ main' = "startDiscovery"
    /\ UNCHANGED <<g_isRunning, lobbyRunning, listening, discVars, database>>

(* Mutant: the thread is there before m_running is set.                    *)
StartDiscovery_late ==
    /\ main = "startDiscovery"
    /\ \/ main' = "openDatabase" /\ UNCHANGED disc
       \/ main' = "spawnDiscovery" /\ disc' = "while"
    /\ UNCHANGED <<g_isRunning, lobbyVars, discRunning, arrived, database>>

(* DiscoveryServer::Start: the socket is opened and bound, or nothing is   *)
(* started.                                                                *)
StartDiscovery ==
    /\ main = "startDiscovery"
    /\ \/ main' = "openDatabase" /\ UNCHANGED discRunning
       \/ main' = "spawnDiscovery" /\ discRunning' = TRUE
    /\ UNCHANGED <<g_isRunning, lobbyVars, disc, arrived, database>>

SpawnDiscovery ==
    /\ main = "spawnDiscovery"
    /\ disc' = "while"
    /\ main' = "openDatabase"
    /\ UNCHANGED <<g_isRunning, lobbyVars, discRunning, arrived, database>>

(* Database::Get: the file cannot be opened, and nobody catches.           *)
OpenDatabase ==
    /\ main = "openDatabase"
    /\ \/ main' = "loop" /\ database' = TRUE
       \/ ~database /\ main' = "aborted" /\ UNCHANGED database
    /\ UNCHANGED <<g_isRunning, lobbyVars, discVars>>

(* Mutant: when a server is not running there is nothing to stop.          *)
Watch_returns ==
    /\ main = "loop"
    /\ main' = IF ~g_isRunning THEN "stopLobby"
               ELSE IF lobbyRunning /\ discRunning THEN "sleep" ELSE "returned"
    /\ UNCHANGED <<g_isRunning, lobbyVars, discVars, database>>

(* Mutant: only the signal is looked at.                                   *)
Watch_signal ==
    /\ main = "loop"
    /\ main' = IF g_isRunning THEN "sleep" ELSE "stopLobby"
    /\ UNCHANGED <<g_isRunning, lobbyVars, discVars, database>>

Watch ==
    /\ main = "loop"
    /\ main' = IF g_isRunning /\ lobbyRunning /\ discRunning THEN "sleep"
               ELSE "stopLobby"
    /\ UNCHANGED <<g_isRunning, lobbyVars, discVars, database>>

Sleep ==
    /\ main = "sleep"
    /\ main' = "loop"
    /\ UNCHANGED <<g_isRunning, lobbyVars, discVars, database>>

(* LobbyServer::Stop, after the messages to the clients.                   *)
StopLobby ==
    /\ main = "stopLobby"
    /\ lobbyRunning' = FALSE
    /\ main' = "joinLobby"
    /\ UNCHANGED <<g_isRunning, lobby, listening, discVars, database>>

JoinLobby ==
    /\ main = "joinLobby"
    /\ lobby \in {"none", "ended"}
    /\ lobby' = IF lobby = "ended" THEN "joined" ELSE lobby
    /\ main' = "stopDiscovery"
    /\ UNCHANGED <<g_isRunning, lobbyRunning, listening, discVars, database>>

(* DiscoveryServer::Stop: the socket stays open, and recvfrom with it.     *)
StopDiscovery ==
    /\ main = "stopDiscovery"
    /\ discRunning' = FALSE
    /\ main' = "joinDiscovery"
    /\ UNCHANGED <<g_isRunning, lobbyVars, disc, arrived, database>>

JoinDiscovery ==
    /\ main = "joinDiscovery"
    /\ disc \in {"none", "ended"}
    /\ disc' = IF disc = "ended" THEN "joined" ELSE disc
    /\ main' = "returned"
    /\ UNCHANGED <<g_isRunning, lobbyVars, discRunning, arrived, database>>

Main ==
    \/ Startup \/ StartLobby \/ SpawnLobby \/ StartDiscovery \/ SpawnDiscovery
    \/ OpenDatabase \/ Watch \/ Sleep
    \/ StopLobby \/ JoinLobby \/ StopDiscovery \/ JoinDiscovery

----------------------------------------------------------------------------
(* The lobby thread.  The first round reads the sockets of the two lobby   *)
(* ports: without them the process ends.                                   *)
LobbyWhile ==
    /\ ~Ended /\ lobby = "while"
    /\ IF ~lobbyRunning THEN lobby' = "ended" /\ UNCHANGED main
       ELSE IF listening THEN lobby' = "round" /\ UNCHANGED main
       ELSE main' = "aborted" /\ UNCHANGED lobby
    /\ UNCHANGED <<g_isRunning, lobbyRunning, listening, discVars, database>>

(* The rest of a round: requests may be the first to ask for the database, *)
(* and messages are sent.  What a request throws nobody catches (but those *)
(* of an upload do): no database, an account that cannot be created, a     *)
(* packet shorter than what it is read as.                                 *)
LobbyRound ==
    /\ ~Ended /\ lobby = "round"
    /\ \/ lobby' \in {"while", "send"} /\ UNCHANGED <<main, database>>
       \/ lobby' = "round" /\ ~database /\ database' = TRUE /\ UNCHANGED main
       \/ main' = "aborted" /\ UNCHANGED <<lobby, database>>
    /\ UNCHANGED <<g_isRunning, lobbyRunning, listening, discVars>>

(* The client reads, or its connection breaks: send returns.               *)
SendReturns ==
    /\ ~Ended /\ lobby = "send"
    /\ lobby' = "while"
    /\ UNCHANGED <<g_isRunning, main, lobbyRunning, listening, discVars, database>>

----------------------------------------------------------------------------
(* The discovery thread.                                                   *)
DiscoveryWhile ==
    /\ ~Ended /\ disc = "while"
    /\ disc' = IF discRunning THEN "recv" ELSE "ended"
    /\ UNCHANGED <<g_isRunning, main, lobbyVars, discRunning, arrived, database>>

(* recvfrom: what is too short to be a handshake, or an error, is dropped. *)
Receive ==
    /\ ~Ended /\ disc = "recv"
    /\ arrived > 0
    /\ arrived' = arrived - 1
    /\ disc' \in {"packet", "while"}
    /\ UNCHANGED <<g_isRunning, main, lobbyVars, discRunning, database>>

ProcessPacket ==
    /\ ~Ended /\ disc = "packet"
    /\ disc' = "while"
    /\ UNCHANGED <<g_isRunning, main, lobbyVars, discRunning, arrived, database>>

----------------------------------------------------------------------------
(* From outside.                                                           *)
Signal ==
    /\ ~Ended
    /\ g_isRunning' = FALSE
    /\ UNCHANGED <<main, lobbyVars, discVars, database>>

(* A datagram for the UDP socket, from the time it is bound.               *)
Arrive ==
    /\ ~Ended
    /\ disc # "none" \/ main = "spawnDiscovery"
    /\ arrived < MaxArrived
    /\ arrived' = arrived + 1
    /\ UNCHANGED <<g_isRunning, main, lobbyVars, discRunning, disc, database>>

LobbyThread == LobbyWhile \/ LobbyRound
DiscoveryThread == DiscoveryWhile \/ Receive \/ ProcessPacket

Next == Main \/ LobbyThread \/ SendReturns \/ DiscoveryThread \/ Signal \/ Arrive

(* The three threads keep running; nothing is assumed of the signal, of    *)
(* clients and of the network.                                             *)
Spec ==
    /\ Init /\ [][Next]_vars
    /\ WF_vars(Main) /\ WF_vars(LobbyThread) /\ WF_vars(DiscoveryThread)

----------------------------------------------------------------------------
(* PROPERTIES *)

(* When main returns no thread is left that would go on with the servers   *)
(* and managers that are destroyed then, and no std::thread that is still  *)
(* joinable (main.cpp:98, and the returns before it).                      *)
NoThreadLeft ==
    main = "returned" => lobby \in {"none", "joined"} /\ disc \in {"none", "joined"}

(* Both servers keep the promise of Service: a thread that looks at        *)
(* m_running in another thread's time does not end before it is told to.   *)
StateOf(running, thread) ==
    IF main = "aborted" THEN "killed"
    ELSE IF thread \in {"ended", "joined"} THEN "over"
    ELSE IF running THEN "serving"
    ELSE IF thread = "none" THEN "off" ELSE "stopping"

lobbyState == StateOf(lobbyRunning, lobby)
discState == StateOf(discRunning, disc)

LobbyService == INSTANCE Service WITH state <- lobbyState
DiscoveryService == INSTANCE Service WITH state <- discState
ServersServe == LobbyService!Spec /\ DiscoveryService!Spec

(* After a signal, or when a server did not start, main comes to its end,  *)
(* unless one thing holds it for good: a client that does not read what it *)
(* is sent, or a recvfrom for which nothing arrives any more.  Nothing     *)
(* that main and the threads do to each other can.                         *)
MustStop == ~g_isRunning \/ (main = "loop" /\ ~(lobbyRunning /\ discRunning))
Held ==
    \/ main = "joinLobby" /\ lobby = "send"
    \/ main = "joinDiscovery" /\ disc = "recv" /\ arrived = 0

EndsOrIsHeld == MustStop ~> (Ended \/ []Held)

----------------------------------------------------------------------------
(* The inductive invariant. *)

(* A thread is spawned once its m_running is set, which stays set until    *)
(* main stops the server.                                                  *)
LobbyKept ==
    /\ main \in {"startup", "startLobby"} => lobby = "none" /\ ~lobbyRunning
    /\ main = "spawnLobby" => lobby = "none" /\ lobbyRunning
    /\ main \in {"stopDiscovery", "joinDiscovery", "returned"} => lobby \in {"none", "joined"}
    /\ lobby \in {"ended", "joined"} => ~lobbyRunning
    /\ main \notin {"spawnLobby", "aborted"} /\ lobby = "none" => ~lobbyRunning
    /\ main \in StartPcs \cup LoopPcs \cup {"stopLobby"} /\ lobby # "none" => lobbyRunning

DiscoveryKept ==
    /\ main \in StartPcs \ {"spawnDiscovery", "openDatabase"} => disc = "none" /\ ~discRunning
    /\ main = "spawnDiscovery" => disc = "none" /\ discRunning
    /\ main = "returned" => disc \in {"none", "joined"}
    /\ disc \in {"ended", "joined"} => ~discRunning
    /\ main \notin {"spawnDiscovery", "aborted"} /\ disc = "none" => ~discRunning
    /\ main \notin {"joinDiscovery", "returned", "aborted"} /\ disc # "none" => discRunning

IInv == TypeOK /\ LobbyKept /\ DiscoveryKept
=============================================================================
