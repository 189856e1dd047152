---------------------------- MODULE LobbySockets ----------------------------
(***************************************************************************)
(* The connections of LobbyServer: the loop of the lobby thread (drop,     *)
(* accept, read, handle, write), the buffers of each RealmSocket, and the  *)
(* threads that put messages in them from outside: the discovery thread,   *)
(* with notifications, and the main thread, when the server is stopped.    *)
(*                                                                         *)
(* A packet of a client is its length and its body, which TCP delivers in  *)
(* order, some at a time.  Of the messages to a client only their number   *)
(* is kept.  The sockets are blocking: once the client leaves Window of    *)
(* them unread, a send does not return until it reads.                     *)
(***************************************************************************)
EXTENDS Integers, Sequences, FiniteSets

CONSTANTS
    Clients,    \* connections, each made once
    Friends,    \* m_friendList: who is told that a user is gone
    NoClient,
    ChunkMax,   \* how many messages one send takes
    Window,     \* how many messages a client may leave unread
    Kinds,      \* bound: the kinds of packets that clients send
    MaxPackets, \* bound: how many packets a client sends
    MaxNotices  \* bound: messages of the discovery thread

ASSUME ClientsAssumption ==
    /\ IsFiniteSet(Clients)
    /\ NoClient \notin Clients
    /\ Friends \in [Clients -> SUBSET Clients]
ASSUME KindsAssumption == Kinds \subseteq {"request", "empty", "invalid"}
ASSUME SizesAssumption == ChunkMax \in Nat \ {0} /\ Window \in Nat \ {0}
ASSUME BoundsAssumption == MaxPackets \in Nat /\ MaxNotices \in Nat

VARIABLES
    link,     \* the client's end: "none", "waiting", "up", then "shut"
    listed,   \* m_clientSockets
    user,     \* "none", "online" in m_users, "held" out of it, "gone"
    wait,     \* flag.disconnected_wait
    forced,   \* flag.disconnected_forced
    packets,  \* what the client has sent, packet by packet
    inbox,    \* units the server has not received yet
    readBuf,  \* m_pendingReadBuffer
    handled,  \* the packets that were handled
    pending,  \* m_pendingWriteBuffer: how many messages are in it
    ahead,    \* how many of them were given to send already
    unread,   \* how many messages the client was sent and has not read
    lobby,    \* where the lobby thread is
    notices,  \* how many messages the discovery thread may still send
    main,     \* the main thread: "serving", "stopping", "stopped"
    stopList, \* m_clientSockets when the main thread begins to stop
    told      \* connections it has told that the server stops

connVars == <<link, listed, user, wait, forced>>
inVars == <<packets, inbox, readBuf, handled>>
outVars == <<pending, ahead, unread>>
mainVars == <<main, stopList, told>>
vars == <<connVars, inVars, outVars, lobby, notices, mainVars>>

----------------------------------------------------------------------------
InUnit == [packet : 1..MaxPackets, part : {"length", "body"}]
Packet(n, kind) ==
    IF kind = "request"
    THEN <<[packet |-> n, part |-> "length"], [packet |-> n, part |-> "body"]>>
    ELSE <<[packet |-> n, part |-> "length"]>>

Idle == [pc |-> "begin", todo |-> {}, client |-> NoClient, total |-> 0, sent |-> 0]
LobbyPcs == {"begin", "accept", "next", "process", "write", "send", "erase", "ended"}

TypeOK ==
    /\ link \in [Clients -> {"none", "waiting", "up", "shut"}]
    /\ listed \subseteq Clients
    /\ user \in [Clients -> {"none", "online", "held", "gone"}]
    /\ wait \in [Clients -> BOOLEAN]
    /\ forced \in [Clients -> BOOLEAN]
    /\ packets \in [Clients -> Seq(Kinds)]
    /\ inbox \in [Clients -> Seq(InUnit)]
    /\ readBuf \in [Clients -> Seq(InUnit)]
    /\ handled \in [Clients -> Seq(1..MaxPackets)]
    /\ pending \in [Clients -> Nat]
    /\ ahead \in [Clients -> Nat]
    /\ unread \in [Clients -> 0..Window]
    /\ lobby \in [pc : LobbyPcs, todo : SUBSET Clients, client : Clients \cup {NoClient},
                  total : Nat, sent : Nat]
    /\ notices \in 0..MaxNotices
    /\ main \in {"serving", "stopping", "stopped"}
    /\ stopList \subseteq Clients
    /\ told \subseteq Clients

Init ==
    /\ link = [c \in Clients |-> "none"]
    /\ listed = {}
    /\ user = [c \in Clients |-> "none"]
    /\ wait = [c \in Clients |-> FALSE]
    /\ forced = [c \in Clients |-> FALSE]
    /\ packets = [c \in Clients |-> <<>>]
    /\ inbox = [c \in Clients |-> <<>>]
    /\ readBuf = [c \in Clients |-> <<>>]
    /\ handled = [c \in Clients |-> <<>>]
    /\ pending = [c \in Clients |-> 0]
    /\ ahead = [c \in Clients |-> 0]
    /\ unread = [c \in Clients |-> 0]
    /\ lobby = Idle
    /\ notices = MaxNotices
    /\ main = "serving"
    /\ stopList = {}
    /\ told = {}

----------------------------------------------------------------------------
(* RealmSocket::send, count[c] messages to every client c, each under its  *)
(* write_mutex.                                                            *)
Send(count) ==
    /\ pending' = [c \in Clients |-> pending[c] + count[c]]
    /\ UNCHANGED <<ahead, unread>>

(* A user that is out of m_users is destroyed unless a save task or the    *)
(* discovery thread holds it; its destructor has the connection end.       *)
Online == {c \in Clients : user[c] = "online"}
Removed(c, held) ==
    IF user[c] # "online" THEN user[c] ELSE IF held THEN "held" ELSE "gone"
RemoveUser(c, held) ==
    /\ user' = [user EXCEPT ![c] = Removed(c, held)]
    /\ UNCHANGED link

(* NotifyFriendsOnlineStatus, when the user is removed: it is in m_users   *)
(* still, and it may be a friend of its own.                               *)
Farewell(c) == IF user[c] = "online" THEN Friends[c] \cap Online ELSE {}
Told(clients) == [c \in Clients |-> IF c \in clients THEN 1 ELSE 0]
FarewellAnd(c, own) ==
    [d \in Clients |-> Told(Farewell(c))[d] + (IF d = c THEN own ELSE 0)]

----------------------------------------------------------------------------
(* The clients, and time.                                                  *)

Connect(c) ==
    /\ link[c] = "none"
    /\ link' = [link EXCEPT ![c] = "waiting"]
    /\ UNCHANGED <<listed, user, wait, forced, inVars, outVars, lobby,
                   notices, mainVars>>

SendPacket(c, kind) ==
    /\ link[c] = "up"
    /\ Len(packets[c]) < MaxPackets
    /\ packets' = [packets EXCEPT ![c] = Append(@, kind)]
    /\ inbox' = [inbox EXCEPT ![c] = @ \o Packet(Len(packets[c]) + 1, kind)]
    /\ UNCHANGED <<connVars, readBuf, handled, outVars, lobby, notices, mainVars>>

(* The client reads what it was sent. *)
Take(c) ==
    /\ unread[c] > 0
    /\ unread' = [unread EXCEPT ![c] = 0]
    /\ UNCHANGED <<connVars, inVars, pending, ahead, lobby, notices, mainVars>>

(* The client closes the connection, or it breaks. *)
Shut(c) ==
    /\ link[c] = "up"
    /\ link' = [link EXCEPT ![c] = "shut"]
    /\ UNCHANGED <<listed, user, wait, forced, inVars, outVars, lobby,
                   notices, mainVars>>

(* The last save task that holds a removed user is replaced or done. *)
Release(c) ==
    /\ user[c] = "held"
    /\ user' = [user EXCEPT ![c] = "gone"]
    /\ wait' = [wait EXCEPT ![c] = TRUE]
    /\ UNCHANGED <<link, listed, forced, inVars, outVars, lobby,
                   notices, mainVars>>

----------------------------------------------------------------------------
(* The lobby thread: a round of Run.                                       *)

At(pc) == lobby.pc = pc
Goto(pc) == lobby' = [lobby EXCEPT !.pc = pc]
DoneWith == lobby' = [lobby EXCEPT !.pc = "next", !.client = NoClient,
                                   !.total = 0, !.sent = 0]

\* Mutant: a connection that waits to end ends only when it is forced to.
Problem_forcedOnly(c) == forced[c]

\* Mutant: the connection is dropped, and its user stays in m_users.
Drop_keepsUser(c, timeout, held) ==
    /\ At("begin")
    /\ main # "stopped"
    /\ c \in listed
    /\ forced[c] \/ (wait[c] /\ pending[c] = 0) \/ timeout
    /\ listed' = listed \ {c}
    /\ forced' = [forced EXCEPT ![c] = TRUE]
    /\ UNCHANGED <<link, user, wait, inVars, outVars, lobby, notices, mainVars>>

(* CheckSocketProblem; timeout: nothing was received for 30 seconds, in    *)
(* which the lobby thread may have been busy with another client.          *)
Problem(c) == forced[c] \/ (wait[c] /\ pending[c] = 0)

Drop(c, timeout, held) ==
    /\ At("begin")
    /\ main # "stopped"
    /\ c \in listed
    /\ Problem(c) \/ timeout
    /\ listed' = listed \ {c}
    /\ forced' = [forced EXCEPT ![c] = TRUE]
    /\ RemoveUser(c, held)
    /\ wait' = [wait EXCEPT ![c] = @ \/ (user[c] = "online" /\ ~held)]
    /\ Send(Told(Farewell(c)))
    /\ UNCHANGED <<inVars, lobby, notices, mainVars>>

(* The sets for select are made of the sockets that are there. *)
BeginRound ==
    /\ At("begin")
    /\ main # "stopped"
    /\ \A c \in listed : ~Problem(c)
    /\ lobby' = [lobby EXCEPT !.pc = "accept", !.todo = listed]
    /\ UNCHANGED <<connVars, inVars, outVars, notices, mainVars>>

EndRun ==
    /\ At("begin")
    /\ main = "stopped"
    /\ Goto("ended")
    /\ UNCHANGED <<connVars, inVars, outVars, notices, mainVars>>

(* A connection to a gateway port gets no user. *)
AcceptConnection(c, gateway) ==
    /\ At("accept")
    /\ link[c] = "waiting"
    /\ link' = [link EXCEPT ![c] = "up"]
    /\ listed' = listed \cup {c}
    /\ user' = [user EXCEPT ![c] = IF gateway THEN "none" ELSE "online"]
    /\ UNCHANGED <<wait, forced, inVars, outVars, lobby, notices, mainVars>>

EndRound ==
    /\ lobby.pc \in {"accept", "next"}
    /\ lobby.todo = {}
    /\ lobby' = Idle
    /\ UNCHANGED <<connVars, inVars, outVars, notices, mainVars>>

Serves(c) == lobby.pc \in {"accept", "next"} /\ c \in lobby.todo
Serve(c, pc) ==
    lobby' = [lobby EXCEPT !.pc = pc, !.todo = @ \ {c}, !.client = c]

(* Nothing to read, or ReadSocket returns at once. *)
ReadNothing(c) ==
    /\ Serves(c)
    /\ forced[c] \/ (inbox[c] = <<>> /\ link[c] # "shut")
    /\ Serve(c, "write")
    /\ UNCHANGED <<connVars, inVars, outVars, notices, mainVars>>

ReadEnd(c) ==
    /\ Serves(c)
    /\ ~forced[c]
    /\ link[c] = "shut"
    /\ forced' = [forced EXCEPT ![c] = TRUE]
    /\ Serve(c, "write")
    /\ UNCHANGED <<link, listed, user, wait, inVars, outVars, notices, mainVars>>

ReadSome(c, n) ==
    /\ Serves(c)
    /\ ~forced[c]
    /\ n \in 1..Len(inbox[c])
    /\ readBuf' = [readBuf EXCEPT ![c] = @ \o SubSeq(inbox[c], 1, n)]
    /\ inbox' = [inbox EXCEPT ![c] = SubSeq(@, n + 1, Len(@))]
    /\ Serve(c, "process")
    /\ UNCHANGED <<link, listed, user, wait, forced, packets, handled, outVars,
                   notices, mainVars>>

----------------------------------------------------------------------------
(* The lobby thread: ReadSocket's loop over the packets it has.            *)

Processing(c) == At("process") /\ lobby.client = c
First(c) == Head(readBuf[c])

(* What stands where a length is expected is taken for one. *)
FirstKind(c) == IF First(c).part = "length" THEN packets[c][First(c).packet] ELSE "invalid"
IsWhole(c) == readBuf[c] # <<>> /\ FirstKind(c) = "request" /\ Len(readBuf[c]) >= 2

(* Too little for a packet. *)
ReadDone(c) ==
    /\ Processing(c)
    /\ readBuf[c] # <<>> => FirstKind(c) = "request" /\ Len(readBuf[c]) < 2
    /\ Goto("write")
    /\ UNCHANGED <<connVars, inVars, outVars, notices, mainVars>>

\* Mutant: the loop goes on after a length that is none.
ReadInvalid_goesOn(c) ==
    /\ Processing(c)
    /\ readBuf[c] # <<>>
    /\ FirstKind(c) = "invalid"
    /\ wait' = [wait EXCEPT ![c] = TRUE]
    /\ UNCHANGED <<link, listed, user, forced, inVars, outVars, lobby, notices, mainVars>>

(* A length that is none: the packet stays in the buffer. *)
ReadInvalid(c) ==
    /\ Processing(c)
    /\ readBuf[c] # <<>>
    /\ FirstKind(c) = "invalid"
    /\ wait' = [wait EXCEPT ![c] = TRUE]
    /\ Goto("write")
    /\ UNCHANGED <<link, listed, user, forced, inVars, outVars, notices, mainVars>>

(* A packet without a body ends the loop, whatever else has come. *)
ReadEmpty(c) ==
    /\ Processing(c)
    /\ readBuf[c] # <<>>
    /\ FirstKind(c) = "empty"
    /\ readBuf' = [readBuf EXCEPT ![c] = Tail(@)]
    /\ Goto("write")
    /\ UNCHANGED <<connVars, packets, inbox, handled, outVars, notices, mainVars>>

\* Mutant: a packet that is handled stays in the buffer.
Handle_keeps(c) ==
    /\ Processing(c)
    /\ IsWhole(c)
    /\ Len(handled[c]) < MaxPackets
    /\ handled' = [handled EXCEPT ![c] = Append(@, First(c).packet)]
    /\ UNCHANGED <<packets, inbox, readBuf, lobby, notices, mainVars>>

\* Mutant: only one packet is handled each time something is read.
Handle_once(c) ==
    /\ Processing(c)
    /\ IsWhole(c)
    /\ readBuf' = [readBuf EXCEPT ![c] = SubSeq(@, 3, Len(@))]
    /\ handled' = [handled EXCEPT ![c] = Append(@, First(c).packet)]
    /\ Goto("write")
    /\ UNCHANGED <<packets, inbox, notices, mainVars>>

(* HandleRequest, the packet taken out of the buffer. *)
Handle(c) ==
    /\ Processing(c)
    /\ IsWhole(c)
    /\ readBuf' = [readBuf EXCEPT ![c] = SubSeq(@, 3, Len(@))]
    /\ handled' = [handled EXCEPT ![c] = Append(@, First(c).packet)]
    /\ UNCHANGED <<packets, inbox, lobby, notices, mainVars>>

(* Most requests are answered, some after messages to other users. *)
HandleRequest(c, others) ==
    /\ Handle(c)
    /\ others \subseteq Online \ {c}
    /\ Send(Told(others \cup {c}))
    /\ UNCHANGED connVars

(* A packet id nobody knows. *)
HandleUnknown(c) ==
    /\ Handle(c)
    /\ UNCHANGED <<connVars, outVars>>

(* RequestLogout: the user is removed, and then the answer is written. *)
HandleLogout(c, held) ==
    /\ Handle(c)
    /\ RemoveUser(c, held)
    /\ wait' = [wait EXCEPT ![c] = @ \/ (user[c] = "online" /\ ~held)]
    /\ Send(FarewellAnd(c, 1))
    /\ UNCHANGED <<listed, forced>>

(* RequestMatchGame_RTA of no user, or of one that has not logged in:      *)
(* Disconnect sends NotifyForcedLogout, and the answer follows.            *)
HandleRejected(c, held) ==
    /\ Handle(c)
    /\ RemoveUser(c, held)
    /\ wait' = [wait EXCEPT ![c] = TRUE]
    /\ Send(FarewellAnd(c, 2))
    /\ UNCHANGED <<listed, forced>>

----------------------------------------------------------------------------
(* The lobby thread: WriteSocket.                                          *)

Writing(c) == lobby.client = c
(* The socket is not writable, or there is nothing to write. *)
WriteNothing(c) ==
    /\ Writing(c) /\ At("write")
    /\ forced[c] \/ pending[c] = 0 \/ (unread[c] = Window /\ link[c] = "up")
    /\ DoneWith
    /\ UNCHANGED <<connVars, inVars, outVars, notices, mainVars>>

StartWrite(c) ==
    /\ Writing(c) /\ At("write")
    /\ ~forced[c]
    /\ pending[c] > 0
    /\ unread[c] < Window \/ link[c] = "shut"
    /\ lobby' = [lobby EXCEPT !.pc = "send", !.total = pending[c], !.sent = 0]
    /\ UNCHANGED <<connVars, inVars, outVars, notices, mainVars>>

(* One send, of n messages of a chunk; the buffer may grow meanwhile.      *)
Chunk == IF lobby.total - lobby.sent < ChunkMax THEN lobby.total - lobby.sent ELSE ChunkMax
AfterSending(n) ==
    lobby' = [lobby EXCEPT !.sent = @ + n,
                           !.pc = IF n < Chunk \/ lobby.sent + n = lobby.total
                                  THEN "erase" ELSE "send"]
SendChunk(c, n) ==
    /\ Writing(c) /\ At("send")
    /\ link[c] = "up"
    /\ n \in 1..Chunk
    /\ unread[c] + n <= Window
    /\ ahead' = [ahead EXCEPT ![c] = @ + n]
    /\ unread' = [unread EXCEPT ![c] = @ + n]
    /\ AfterSending(n)
    /\ UNCHANGED <<connVars, inVars, pending, notices, mainVars>>

(* A send to a client that is gone may still succeed. *)
SendLost(c, n) ==
    /\ Writing(c) /\ At("send")
    /\ link[c] = "shut"
    /\ n \in 1..Chunk
    /\ ahead' = [ahead EXCEPT ![c] = @ + n]
    /\ AfterSending(n)
    /\ UNCHANGED <<connVars, inVars, pending, unread, notices, mainVars>>

(* It fails: what was sent before stays in the buffer. *)
SendFails(c) ==
    /\ Writing(c) /\ At("send")
    /\ link[c] = "shut"
    /\ wait' = [wait EXCEPT ![c] = TRUE]
    /\ DoneWith
    /\ UNCHANGED <<link, listed, user, forced, inVars, outVars, notices, mainVars>>

\* Mutant: the whole buffer is cleared, with what came meanwhile.
EraseSent_all(c) ==
    /\ Writing(c) /\ At("erase")
    /\ pending' = [pending EXCEPT ![c] = 0]
    /\ ahead' = [ahead EXCEPT ![c] = @ - pending[c]]
    /\ DoneWith
    /\ UNCHANGED <<connVars, inVars, unread, notices, mainVars>>

(* The write_mutex is taken to erase what was sent. *)
EraseSent(c) ==
    /\ Writing(c) /\ At("erase")
    /\ pending' = [pending EXCEPT ![c] = @ - lobby.sent]
    /\ ahead' = [ahead EXCEPT ![c] = @ - lobby.sent]
    /\ DoneWith
    /\ UNCHANGED <<connVars, inVars, unread, notices, mainVars>>

----------------------------------------------------------------------------
(* The discovery thread and the main thread.                               *)

(* A notification, to a user the discovery thread has found. *)
Notify(c) ==
    /\ notices > 0
    /\ user[c] \in {"online", "held"}
    /\ notices' = notices - 1
    /\ Send(Told({c}))
    /\ UNCHANGED <<connVars, inVars, lobby, mainVars>>

(* The server is stopped: every connection gets NotifyForcedLogout, and    *)
(* then m_running is cleared.  The lobby thread changes the list meanwhile: *)
(* what it adds is not seen, and what it erases may hide another.          *)
BeginStop ==
    /\ main = "serving"
    /\ main' = "stopping"
    /\ stopList' = listed
    /\ UNCHANGED <<connVars, inVars, outVars, lobby, notices, told>>

StopConnection(c) ==
    /\ main = "stopping"
    /\ c \in (stopList \cap listed) \ told
    /\ Send(Told({c}))
    /\ told' = told \cup {c}
    /\ UNCHANGED <<connVars, inVars, lobby, notices, main, stopList>>

EndStop ==
    /\ main = "stopping"
    /\ stopList \subseteq listed => stopList \subseteq told
    /\ main' = "stopped"
    /\ UNCHANGED <<connVars, inVars, outVars, lobby, notices, stopList, told>>

----------------------------------------------------------------------------
Client ==
    \E c \in Clients :
        \/ Connect(c)
        \/ \E kind \in Kinds : SendPacket(c, kind)
        \/ Shut(c)

LobbyRound ==
    \/ \E c \in Clients, timeout, held \in BOOLEAN : Drop(c, timeout, held)
    \/ BeginRound \/ EndRound \/ EndRun
    \/ \E c \in Clients, gateway \in BOOLEAN : AcceptConnection(c, gateway)

LobbyRead ==
    \E c \in Clients :
        \/ ReadNothing(c) \/ ReadEnd(c)
        \/ \E n \in 1..(2 * MaxPackets) : ReadSome(c, n)
        \/ ReadDone(c) \/ ReadInvalid(c) \/ ReadEmpty(c)
        \/ \E others \in SUBSET Clients : HandleRequest(c, others)
        \/ HandleUnknown(c)
        \/ \E held \in BOOLEAN : HandleLogout(c, held) \/ HandleRejected(c, held)

LobbyWrite ==
    \E c \in Clients :
        \/ WriteNothing(c) \/ StartWrite(c)
        \/ \E n \in 1..ChunkMax : SendChunk(c, n) \/ SendLost(c, n)
        \/ SendFails(c) \/ EraseSent(c)

LobbyThread == LobbyRound \/ LobbyRead \/ LobbyWrite
MainThread == BeginStop \/ EndStop \/ \E c \in Clients : StopConnection(c)

Next ==
    \/ Client
    \/ \E c \in Clients : Take(c) \/ Release(c) \/ Notify(c)
    \/ LobbyThread
    \/ MainThread

(* The threads keep running. *)
Threads ==
    /\ WF_vars(LobbyThread)
    /\ WF_vars(EndStop \/ \E c \in Clients : StopConnection(c))

(* The clients read what they are sent. *)
ClientsRead == \A c \in Clients : WF_vars(Take(c))

Spec == Init /\ [][Next]_vars /\ Threads
ReadSpec == Spec /\ ClientsRead

----------------------------------------------------------------------------
(* PROPERTIES *)

(* A client gets a message once: the lobby thread sends some of the buffer *)
(* in chunks while other threads add to it, and then erases as much as it  *)
(* has sent.                                                               *)
SentOnce ==
    \A c \in Clients : link[c] = "up" =>
        ahead[c] = IF lobby.client = c THEN lobby.sent ELSE 0

(* The requests of a client are handled one by one, in order, none twice   *)
(* and none left out, however TCP cuts them; and none after an invalid     *)
(* length.                                                                 *)
IsHandled(c, n) == \E i \in DOMAIN handled[c] : handled[c][i] = n
RequestsInOrder ==
    \A c \in Clients : \A i \in DOMAIN handled[c] :
        LET n == handled[c][i] IN
        /\ n \in DOMAIN packets[c] /\ packets[c][n] = "request"
        /\ \A j \in 1..(i - 1) : handled[c][j] < n
        /\ \A m \in 1..(n - 1) :
              /\ packets[c][m] # "invalid"
              /\ packets[c][m] = "request" => IsHandled(c, m)

(* A user in m_users has its connection in m_clientSockets: what others    *)
(* queue for it is looked at again, and its silence noticed.               *)
OnlineAreListed == Online \subseteq listed

(* Between two rounds no whole request waits in a buffer, except behind a  *)
(* packet without a body: the client need not send more to be answered.    *)
NoRequestLeft ==
    \A c \in listed : At("begin") /\ IsWhole(c) =>
        First(c).packet > 1 /\ packets[c][First(c).packet - 1] = "empty"

(* "Check if we're waiting to disconnect after sending buffered data"      *)
(* (LobbyServer.cpp:236): a connection that waits to end does, when the    *)
(* client reads what is left for it.                                       *)
WaitingEnds ==
    \A c \in Clients : (c \in listed /\ wait[c]) ~> (c \notin listed \/ At("ended"))

(* "Stopping Lobby Server..." (LobbyServer.cpp:81): main joins the lobby   *)
(* thread, so it must come to an end.                                      *)
StopEnds == (main = "stopping") ~> At("ended")
----------------------------------------------------------------------------
(* The inductive invariant. *)

(* The lobby thread has a client from ReadSocket to the end of WriteSocket, *)
(* and is never past what it found in the buffer.                          *)
Connected(c) == link[c] \in {"up", "shut"}
Sent(c) == IF lobby.client = c THEN lobby.sent ELSE 0
LobbyShape ==
    /\ At("process") \/ At("write") \/ At("send") \/ At("erase")
          => lobby.client \in Clients /\ lobby.sent <= lobby.total
             /\ lobby.total <= pending[lobby.client]
    /\ ~At("send") /\ ~At("erase") => lobby.sent = 0 /\ lobby.total = 0
    /\ lobby.client # NoClient => Connected(lobby.client)
    /\ \A c \in listed \cup lobby.todo \cup Online : Connected(c)

(* What a failed send leaves behind is counted, but never sent. *)
AheadOfBuffer ==
    \A c \in Clients : /\ ahead[c] >= Sent(c)
                       /\ ~Connected(c) => ahead[c] = 0

(* The units of a client that are not handled yet, from its read buffer on *)
(* to its inbox.                                                           *)
Left(c) == Len(readBuf[c]) + Len(inbox[c])
UnitLeft(c, i) ==
    IF i <= Len(readBuf[c]) THEN readBuf[c][i] ELSE inbox[c][i - Len(readBuf[c])]
HasBody(c, unit) == unit.part = "length" /\ packets[c][unit.packet] = "request"
Following(c, unit) ==
    IF HasBody(c, unit) THEN [packet |-> unit.packet, part |-> "body"]
    ELSE [packet |-> unit.packet + 1, part |-> "length"]
FirstLeft(c) == IF Left(c) = 0 THEN Len(packets[c]) + 1 ELSE UnitLeft(c, 1).packet

(* They are the packets from the first one left to the last one sent.      *)
StreamInOrder ==
    \A c \in Clients :
        /\ Left(c) > 0 => UnitLeft(c, 1).part = "length"
        /\ \A i \in 1..Left(c) :
              /\ UnitLeft(c, i).packet \in DOMAIN packets[c]
              /\ i < Left(c) => UnitLeft(c, i + 1) = Following(c, UnitLeft(c, i))
              /\ i = Left(c) => Following(c, UnitLeft(c, i)) =
                    [packet |-> Len(packets[c]) + 1, part |-> "length"]

(* All requests before the first packet left have been handled. *)
HandledBefore ==
    \A c \in Clients :
        /\ \A n \in 1..(FirstLeft(c) - 1) :
              /\ packets[c][n] # "invalid"
              /\ packets[c][n] = "request" => IsHandled(c, n)
        /\ \A i \in DOMAIN handled[c] :
              /\ handled[c][i] < FirstLeft(c)
              /\ packets[c][handled[c][i]] = "request"
              /\ \A j \in 1..(i - 1) : handled[c][j] < handled[c][i]

WholeBehindEmpty ==
    \A c \in Clients : IsWhole(c) /\ ~Processing(c) =>
        First(c).packet > 1 /\ packets[c][First(c).packet - 1] = "empty"

IInv ==
    /\ TypeOK
    /\ LobbyShape
    /\ AheadOfBuffer
    /\ StreamInOrder
    /\ HandledBefore
    /\ WholeBehindEmpty
    /\ SentOnce
    /\ OnlineAreListed
=============================================================================
