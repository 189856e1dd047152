# Verification of Champions Reborn Server

Champions Reborn is a replacement for the lobby and matchmaking servers of two
PlayStation 2 games, *Champions of Norrath* (CON) and *Champions: Return to
Arms* (RTA). Clients log in over TCP, talk in chat rooms, list and make games,
and, in RTA, keep their characters on the server. When a game is made or joined,
each console sends a UDP handshake to a discovery server, which learns its
address and introduces guests and hosts to each other; the game itself is then
played between the consoles.

This directory holds TLA+ models of that server, configurations that TLC checks
them with, and theorems about them whose proofs TLAPS checks.

    GameSessions    the list of games, the lobby and the discovery thread
    GameLifecycle   what the list of games promises: an abstract specification
    ChatRooms       public and private rooms and the ids users keep of them
    CharacterSaves  accounts, logins, uploads of characters and their tables
    CharacterStore  what a client that uploads a character is promised: abstract
    CharacterData   the bytes of an upload: checked, trimmed, stored, sent back
    Social          friends and ignored users, their tables, who is shown online
    LobbySockets    connections: the lobby thread's loop, buffers, sends, Stop
    Server          main, both servers' Start and Stop, signals
    Service         what main relies on in a server: an abstract specification

`X_proofs` holds the theorems about `X`, and `MCX` instantiates `X` for TLC.

## 1. Inventory

### Threads

| thread | runs | shares |
|---|---|---|
| lobby | `LobbyServer::Run`: drop, accept, read, dispatch a request, write. Every request handler, and so the whole of chat, accounts and saves, runs here | users, games, sockets |
| discovery | `DiscoveryServer::Run`: one UDP packet at a time, `ProcessPacket` | users, games; it sends to the sockets of users |
| main | starts both, sleeps until a signal comes or a server has ended, `LobbyServer::Stop`, `DiscoveryServer::Stop` | `m_clientSockets`, write buffers, `m_running` |

`GameSessionManager::m_dataMutex` guards the two lists of games but not what a
session holds; `UserManager::m_mutex` guards `m_users` but not what a user
holds; `RealmSocket::write_mutex` guards inserting into the write buffer and
erasing from it, but not the sending from it. A user or a session that left its
list lives on as long as a `shared_ptr` is held: by the discovery thread, by the
lobby thread or by a save task.

### Components

| component | state | operations | what is hard, and what makes it correct |
|---|---|---|---|
| `GameSessionManager`, `GameSession` | two lists of games, `m_uniqueGameIndex`; per game state, name, seats (`weak_ptr`), player count, host address | create, open, join, seat, start, cancel, update, terminate, on disconnect | both threads act on one session outside the lock, and requests of either game may come from any connection. Names in RTA are unique, a game that its host still points at ends when the host leaves and not when another user that is logged in does, a game never comes back, nobody sits twice, a handshake opens its host's game |
| matchmaking requests | `m_isHost`, `m_gameId`, addresses of a user | `RequestCreate{Public,Private}Game`, `GetGame`, `DoClientDiscovery`, `UserJoinSuccess`, `CancelGame`, `StartGame`, `UpdateGameData`, `MatchGame` | several fields written one after the other while the other thread reads them |
| `DiscoveryServer` | a UDP socket, `m_running` | `Start`, `Stop`; `ProcessPacket`: record the address, then open the host's game or introduce the guest | packets are lost, repeated and late; each read may be stale by the next; `recvfrom` has no timeout |
| `UserManager`, `RealmUser` | `m_users`; session and account ids, rooms, game, character, lists | create, find, remove (leaves game and rooms, tells friends) | removal is one of four ways out; the destructor asks for the connection to end |
| `LobbyServer` | listeners, `m_clientSockets`, `m_running` | accept, `ReadSocket`, `HandleRequest`, `WriteSocket`, `CheckSocketProblem`, `Stop` | TCP cuts requests anywhere; three threads fill write buffers; blocking sends. Requests are handled once and in order, messages are sent once, connections and the server come to an end |
| `RealmSocket` | read and write buffer, flags, time of the last receive | `send` | as above |
| `ChatRoomManager`, `ChatRoomSession` | rooms by id, members (`weak_ptr`); ids kept by users | make, join, leave by name or id, close, on disconnect | a user keeps one id per type of room but may join more. Ids kept and members agree, names are unique, no empty private room |
| chat requests | — | enter, leave, create, list, speak, instant message | the last three change nothing |
| `CharacterSaveManager`, `CharacterSaveTask` | tasks by session id of the owner | begin, append, commit | an upload spans requests, another user's character, other logins, restarts. Stored rows are whole uploads, written once, in the right account |
| character requests | the character a user plays | create, save, append, load, list | as above |
| accounts and login | session, account, handle of a user; table of accounts | login, create account, logout | an account is online once |
| friends and ignored users | two lists per user, two tables | add, remove, get, tell friends | statements fail, handles are not unique, a connection may log in twice. Memory and tables agree; who was told that a user is online is told when it leaves, and the requests that tell nobody are the only exceptions |
| `Database` | SQLite tables | one statement per operation, writes in a transaction | a failing statement must not count as stored |
| information requests | — | encryption key, rules, statistics, server address | answers that depend on no state |
| codecs | — | run-length code, metadata, chunks of a character; `ByteStream`, `ByteBufferReader` | the check of an upload counts bytes that another function unpacks. What is stored is what was sent, and no byte more |
| cryptography | — | `RealmCrypt`, Rijndael, password hashes | — |
| main, configuration, logging | `g_isRunning` | start both servers, watch over them, stop and join them | ports and the database may fail to open, the signal may come at any line, either server may not have started. No thread is left, and main ends |
| SQLite | — | vendored | — |

`PROJECT.json` names the sources of each component and how far it is modelled,
and lists as hazards the places where the code could go wrong and a test would
hardly notice, each with the properties that cover it.

## 2. Modules and how they correspond to the code

### GameSessions

Variables are fields: `gameId`, `isHost`, `sessionId` of a user; `addrKnown`,
whether the discovery address was recorded; `game`, the sessions; `listed`, the
union of the two lists; `next`, `m_uniqueGameIndex`. `pinned` are users that only
a save task keeps alive. `lobby` and `disc` are where the two threads are, with
the locals they hold.

A request is one step where the discovery thread could not tell; it is cut, one
step per field, where it could: creating a game (`StartCreating`, `SetGameId`,
`SeatHost`, `ListGame`, for RTA with the check for the name in the first and the
listing in the last) and being pointed at one (`GetGame`, `EnterGame`,
`BecomeGuest`). The discovery thread reads one shared thing per step: `Receive`,
`RecordAddress`, `Branch`, then `FindGame`, `OpenCheck`, `OpenCopy`, `Publish`,
`Announce` for a host, `JoinState`, `JoinOwner`, `JoinAddr`, `Introduce` or
`Terminate` for a guest. A handshake that is lost is a `Receive` that does not
happen; one that is repeated or late is a `Receive` at any time.

`HandleRequest` goes by the packet's id alone, and the handlers that make a game or
point at one do not look at `m_gameType`: a user of either type may send them all,
and the game is of the request's `kind`. What looks for a game later (`Find` in a
cancel, an update, a disconnect or a handshake) uses `TypeOf` of the user, as the
code uses its `m_gameType`, and does not find a game of the other kind. The count of
players is an `int8_t`: clients report any of its values (`Counts`), and what is
raised or lowered wraps (`AsInt8`).

`Live(u)` says that a `weak_ptr` to the user still locks: it is in `m_users`,
pinned, or held by the discovery thread. A string or an integer that one thread
writes while the other reads it is read as the old or the new value; the torn
string that C++ permits is outside the model.

Left out: description, mission and attributes of a game, the two listing
requests (they read), what games do to chat rooms (`ChatRooms` has those steps).

### GameLifecycle

What a client that looks at the list can rely on. A game is announced once, in
the order of the ids; it is closed until its host is known to be reachable, then
open, and once gone it stays gone. `GameSessions` implements it under the
mapping `phase`: an id is `unborn` until it is on the list, then `closed` or
`open` by the state of its session, and `gone` when it is off the list.

### ChatRooms

`room` is `m_chatSessionList` by id, `roomIndex` the next id, `publicRoom` and
`privateRoom` the ids a user keeps. Everything runs on the lobby thread, so a
request is one step: `EnterRoom`, `LeaveRoom`, `CreatePrivateRoom`, what
`CancelGame` and `StartGame` do to rooms, and `RemoveUser`. `wandered` is a
history variable: the users that took a second room of a type while they kept
one, whom the code forgets in the first room.

### CharacterSaves

`tasks` is `m_tasks` by session id; `accounts` and `row` are the tables; `begun`,
`sending` and `stored` record what each upload was begun for, who is sending
which and which have been written. The data of a character is the set of uploads
its chunks came from and its size, which is all the properties tell apart. A
user may save the character of another user of its party: the task then has
another target. `Restart` empties what is in memory and keeps the tables;
`CreateAccountThrows` is the exception of `CreateNewAccount` for a taken name,
which nobody catches and which ends the server. A statement may fail
(`CommitFails`).

`CommitSave` is the UPDATE by account and character: one that matches no row
succeeds and changes nothing. What the bytes of an upload are is in
`CharacterData`.

### CharacterStore

What a client that is logged in and uploads a character can rely on: its upload is
open until it is stored or given up, and an upload that was given up is never
stored, however late its chunks come. A stored one is whole, alone and once in a
row, and a row is only written over for its account. `CharacterSaves` implements it
under two mappings. `phase`: an upload is `open` while its session is still the
sender's and has a task, `stored` or `over` after that, and `unborn` for good if it
was begun without a login. `shelf`: a row is its account and the uploads of
logged-in clients it is made of.

### CharacterData

One client and its one character, as bytes. `Compress` is what a client sends
(`RLEZ::Compress`, which the server has but never calls), followed by garbage
that a client may leave in its buffer; `Unpack` is what it does with a character
it loads. `Scan` is the loop of `CharacterSaveTask::Validate`, which counts what
`Unpack` would produce and remembers where the last whole run ended; `Trimmed` is
its `resize`. `BeginCharacter`, `BeginJunk` and `AppendPiece` cut an upload
anywhere and call any piece the last; `Commit` validates once more, as the code
does, and may fail. `GetCharacterData` sends `Chunks`, of which the last is
filled up and marked, and `GetCharacterList` the metadata that `Serialize` stored
and `Deserialize` reads. A string is a number here: what a key or a value says is
never looked at. Bytes are read one at a time, in functions of how many were read
(`CompressSteps`, `UnpackSteps`, `ScanSteps`), so that what the loops compute can be
proved by induction.

`saving` in a task, a row and a reply is a history variable: what the client
wanted to save. `RealmCharacter::Deserialize` has no body left at this commit, so a
download has no metadata; only the list shows it.

### Social

`m_users` in order, since `FindUserByChatHandle` takes the first of a handle;
`accountId`, `friendList`, `ignoreList` of a user; `accounts`, `friendRows`,
`ignoreRows` the tables. `Handle` gives an account its handle, which the table
does not make unique. A request is one step (the lobby thread runs them all), with
the statement it makes: one that is refused or fails changes nothing, in the table
or in memory. `Login` loads the lists as far as the statements get: an error in
the middle leaves a part of the rows, which the code takes for all of them.
`CreateAccount` on a connection that is logged in keeps the lists of the first
account.

Three history variables. `unsure` are the users whose lists the code itself cannot
know to be their rows, for one of these two reasons. `shown` are, for each user,
the handles it was told are online and has not been told since are not: what its
client shows. `dropped` are those of them whose end the code will not tell it: their
user, or it, logged in to another account or made one, or their user took it off its
list of friends. None of the three requests tells anybody (`LostWith`,
`RemoveFriend`).

### LobbySockets

A packet of a client is two units, its length and its body, in `inbox` until the
server has received them, then in `readBuf`; TCP may deliver any number at a
time. A packet is a request, one that says it has no body (`empty`, four bytes),
or one with an impossible length (`invalid`). Of messages to a client only the
number is kept: `pending` in the write buffer, `ahead` of them given to `send`
already but not erased yet, `unread` on the client's side. One `send` takes up to
`ChunkMax` and blocks when the client has left `Window` unread, for no socket is
made non-blocking.

`lobby.pc` is the place of the lobby thread in `Run`: `begin` (`Drop` for every
problem `CheckSocketProblem` finds), `accept`, `next` (which socket to serve),
`process` (the loop over packets), `write`, `send`, `erase`, `ended`. `main`,
`stopList` and `told` are `Stop`, which walks `m_clientSockets` with no lock while
the lobby thread changes it: connections that were there from beginning to end
are told, the others may or may not be.

Left out: packets that say they are one to three bytes long, a `select` that
fails, the capacity of an `fd_set`, and the bytes a `send` reads from a buffer
that another thread makes move. Data that arrives between `select` and `recv` is the same as data that
arrives later.

### Server and Service

`main`, `lobby` and `disc` are where the three threads are; `lobbyRunning` and
`discRunning` the two `m_running`; `listening` says that both lobby ports have a
socket, which `Start` does not ask but the first round of `Run` needs. `Startup` is
`WSAStartup` and `Config::Load`, which may fail or throw; `StartLobby`,
`SpawnLobby`, `StartDiscovery`, `SpawnDiscovery` set `m_running` and then make
the thread; `OpenDatabase` is `Database::Get`, which the lobby thread may have
called before. `Watch` and `Sleep` are main's loop, `StopLobby`, `JoinLobby`,
`StopDiscovery`, `JoinDiscovery` its end. `LobbyRound` may abort in any
round: what a request throws (an account that cannot be created, a packet that ends
before what is read from it) nobody catches. `Signal` comes at any time, `Arrive` is
the network. What a thread does while it serves is in `LobbySockets` and
`GameSessions`; here it is seen where it may fail to come back: in a `send`
(`SendReturns` is the client's doing) or in `recvfrom` (`Receive` needs a
datagram).

`Service` is what main relies on: a server serves until it is told to stop, its
thread ends after that and at no other time, and is started once; the end of the
process may cut this short. `Server` implements it twice, once per server, under
`StateOf`.

## 3. What is checked

Passing runs:

| run | instance | shows |
|---|---|---|
| GamesThreeUsers | 3 CON users, 1 game, 2 seats, reported counts of -1 and 1 | nobody has two seats (`OneSeatEach`); a user that is logged in and leaves does not end somebody else's game (`StrangerCannotEndGame`); who takes a seat raises the count by one, within the game's maximum (`SeatingIsCounted`) |
| GamesTwoGames | 2 RTA users, 2 games of either kind, 1 seat | the inductive invariant; a game of its host's type that the host points at ends when the host leaves (`DepartedHostEndsGame`); the list implements `GameLifecycle` |
| GamesHandshake | 2 RTA users, 1 game of either kind, 2 seats, reported counts of 0 | the handshake of a host opens its game, if it is of the host's type (`HandshakeOpensGame`, liveness); a game that has lost its host goes when a joiner's handshake is processed, or gets a host again (`HostlessGameEnds`, liveness) |
| Rooms | 3 users, 1 public and up to 4 private rooms, 2 names | ids kept and members agree both ways, names are unique, public rooms stay, empty private rooms go |
| SavesTwoUsers | 2 users, 2 accounts, 2 uploads, 2 rows, 3 sessions | rows are whole uploads in the right account, an upload is stored once, an account is online once; a row is only ever written for a user that is in its account and plays it (`RowsChangeInAccount`); the uploads implement `CharacterStore` |
| Transfer | every character of 4 bytes of 0 and 1, one byte of header, pieces of any size, 3 kinds of garbage, every junk of up to 4 bytes, 2 uploads, chunks of 3 | the inductive invariant; `Validate` and `Unpack` agree at every piece (`ValidateAgreesWithUnpack`); an upload is let through when its last compressed byte has come and no sooner (`AcceptedWhenWhole`); the row is the header and the compressed character and no byte more, however it was cut (`StoredIsSaved`); what is sent back is what was saved (`RepliesAreSaved`) |
| Social | 3 users, 3 accounts of which 2 share a handle, 2 rows | the inductive invariant; lists are rows (`ListsAreRows`); what a client shows as online is online, unless `dropped` has it or another account has the client's own handle (`ShownUnlessDropped`) |
| Lobby | 1 client, 2 packets of any kind, 1 notification | requests are handled once, in order, and none waits in the buffer; connections and the server come to an end when the client reads |
| LobbyTwo | 2 clients, 1 request each, friends of each other | no message is lost or sent twice by `WriteSocket`; who is online is looked at |
| Server | one process, up to 2 datagrams waiting | the inductive invariant; main never returns with a thread that runs or waits to be joined (`NoThreadLeft`); both servers implement `Service` (`ServersServe`); after a signal, or when a server did not start, main ends unless a `send` or `recvfrom` holds it for good (`EndsOrIsHeld`, liveness) |

Runs that show a disagreement between the code and what it says:

| run | property | what happens |
|---|---|---|
| GamesCancel | `CancelRemovesEmptyGames` | a user that asked for a game and has no seat cancels; the player count reaches zero, and the game is removed as empty with its host in it |
| SavesTarget | `SavedWhereBegun` | the target takes up another character during the upload, and the save is written over that one |

Places where the model follows the code into a state that looks unwanted, with no
run of their own:

* the player count keeps members whose connection ended, so a game with free
  seats can be refused as full (`GetGame` has the refusal);
* a host makes a second game and leaves the first without it, or cancels while
  guests stay: the game is listed until a joiner's handshake (`HostlessGameEnds`);
* the owner of a game is known by its session id, and users that have not logged in
  all have the empty one: one of them leaves, is taken for the owner, and the game of
  another ends;
* a guest makes a game of its own: `m_isHost` is set and `m_gameId` not yet when its
  handshake is read, and the game of its former host is opened with its address;
* a client reports -128 players, and a cancel lowers that to 127 (`AsInt8`);
* a user of one game makes a game of the other: it is listed, its host's handshake
  does not open it and its host's departure does not end it, as both look in the
  list of `m_gameType`;
* two CON games of one name, as the name that is looked for is not the name that
  is listed;
* after a second login of a connection a save matches no row, changes nothing and
  is reported as done (`CommitSave`);
* a connection logs in to a second account, or makes one, and the friends that were told
  of the first go on showing it; so does a friend that a user takes off its list, when
  the user leaves (`dropped`);
* a client that does not read holds the lobby thread in `send`, and `Stop` waits;
  the discovery thread sits in `recvfrom`, and `Stop` waits for one more datagram.
  `EndsOrIsHeld` says that these two are all that can hold main;
* a lobby port that is taken is not noticed by `Start`, and the first round of the
  lobby thread uses a socket that is not there (`LobbyWhile` aborts);
* a connection that logs in as one account and creates another keeps the first
  one's lists; what it removes from them it removes from the other's rows.

### Bounds, and why they are enough

* *Users.* Three are needed for a seat to be reused while two others compete for
  the rest; what two users do to one game, room or task is covered by two. A user
  connects once: a client that returns is another user object.
* *Games.* Two games with one seat let a user host one, turn to the other, and
  leave either; one game with two seats lets a member leave and return to a seat
  while another holds the other. `OneSeatEach` and the state of a seat concern one
  game at a time.
* *Counts.* What clients report is empty in GamesTwoGames and GamesCancel, as it hides
  the counting of the server. GamesHandshake has 0; GamesThreeUsers has -1 and 1, as the
  count and as the maximum, which are too few and too many, and none at all. From -128
  or 127 a count may be lowered a hundred times, which tells no property more than
  from 1; that it never wraps when it is raised is proved for every value
  (`SeatingIsCountedThm`).
* *Kinds.* The users of a run are of one type but send the requests of both; with one
  type of users, both kinds of games are made, found and not found.
* *Rooms.* With two names, one of which is the public room's, and three users, four
  private rooms are made, closed and made again.
* *Saves.* `Size` 2 means an upload takes at least two chunks when it is whole
  and can be cut, too short or too long; two uploads let one be given up for the
  other, and three sessions let a connection log in again. SavesTarget needs a
  third upload: two characters and a save.
* *Lobby.* Two packets are four units: an incomplete packet behind a complete
  one, two in one read, one cut between length and body. `ChunkMax` and `Window` 2
  with up to six messages make a send take several chunks and block half way.
* *Transfer.* With bytes 0 and 1 the longest run after a zero is 1, as 255 is for
  real: a character of four bytes has runs that fill the count, runs that need a
  second one and a run at the end. With chunks of 3 the last one is full for some
  characters and filled up for others. Metadata may have two keys (4 for real): a
  client sends two, or one too many.
* *Social.* Three accounts, two with one handle, are an ambiguous handle and one of
  its own; three connections are a friend at each of them. Two rows of the two
  tables together are a friend on each side, two friends of one user, or a friend and
  an ignored user.
* *Server.* The threads are what they are; two datagrams are one in `recvfrom` and
  one that waits.
* `MaxArrived`, `MaxGames`, `MaxRooms`, `MaxSessions`, `MaxUploads`, `MaxRows`, `MaxPackets` and
  `MaxNotices` bound counters in guards. The theorems hold for all their values.

`CHECK_DEADLOCK FALSE` is in every configuration: users may all leave, packets are
bounded, and the server may be stopped; there is nothing left to do then.

*Symmetry and views.* Users of one game, and accounts, are interchangeable.
`Social` uses the symmetry of its users and of the two accounts that share a
handle. `MCGameSessions!View` drops what no step and no property of the runs that use it
reads any more: sessions that no list and no thread holds, fields of destroyed
users, the address copied for a client's list. `MCLobbySockets!View` drops the
buffers of a connection that is forced, unlisted and not being served.
`MCSocial!OwedView` keeps of `shown` and `dropped` their difference: all that the
properties ask, and all that determines what it is next. Runs
with a liveness property use neither symmetry nor view.

### Fairness

`GameSessions` has weak fairness of the lobby thread's step in a request and of
the discovery thread's step in a packet. Both are plain code with no wait but for
a mutex that is never held across one. Nothing is assumed of clients: that a
request or a handshake comes is never assured. `HandshakeOpensGame` begins when
the discovery thread has a packet, and `HostlessGameEnds` when it is about to read the
state of the game.

`LobbySockets` has weak fairness of the lobby thread (`select` has a timeout, so
the loop goes round) and of main once it is stopping. A step in `send` is not
enabled while the client's window is full, so `Threads` does not promise that
a send returns. `ClientsRead`, weak fairness of each client's reading, does; it is
not something the code can bring about: without it `StopEnds` does not hold, and
`Server` says what holds instead. `WaitingEnds` rests on the bound on
packets as well: a client that goes on asking for things keeps its write buffer
from becoming empty, and the code only ends the connection when it is.

`Server` has weak fairness of its three threads and of nothing else: a step in `send`
or `recvfrom` belongs to the outside, so no signal, client or datagram is assumed
to come. `EndsOrIsHeld` therefore names the two places where main may wait for
good. `Transfer`, `Social`, rooms and saves have safety properties only.

## 4. What is proved

Each theorem is for every value of the constants that satisfies the assumptions
of its module, which are weak: sets of users are finite, the values that stand
for "none" are not in them, bounds are natural numbers. `GameSessions` also
assumes 1 to 126 seats (the code has 4) and that reported counts are values of an
`int8_t`, which is what `%hhd` makes of any text.

| module | theorems |
|---|---|
| GameSessions_proofs | `Invariance`: `IInv` is invariant. From it `ListedNotStartedThm`, `RtaNamesUniqueThm`, `OneSeatEachThm`, `DepartedHostEndsGameThm`, and the action properties `StrangerCannotEndGameThm` and `SeatingIsCountedThm` |
| GameLifecycle_proofs | `Refinement`: `GameSessions!Spec` implements `GameLifecycle!Spec` under `phase` |
| ChatRooms_proofs | `RoomsIInv`; from it `RoomsKept`, `RoomsOnlyKept`, `RoomsNamed`, `RoomsPublicStay`, `RoomsNotEmpty` |
| CharacterSaves_proofs | `SavesIInv`; from it `SavesWhole`, `SavesInAccount`, `SavesOnlineOnce`, the action properties `SavesOnce` and `SavesChangeInAccount`, and the refinement `SavesImplementStore`: the uploads implement `CharacterStore` |
| Social_proofs | `SocialIInv`; from it `SocialListsAreRows`, `SocialShownUnlessDropped` |
| Server_proofs | `ServerIInv`; from it `NoThreadLeftThm`, and the refinement `ServersServeThm`: both servers implement `Service` |
| CharacterData_proofs | about the conversions, for every sequence of bytes: `ValidateIsExact`, `AcceptedIsWhole`, `TrimmedIsCharacter`, `DownloadUnpacks`, `MetadataComesBack`. `TransferIInv`; from it `TransferTypes`, `TransferValidates`, `TransferAccepts`, `TransferStores`, `TransferReplies` |
| LobbySockets_proofs | `Invariance`; from it `TypeCorrect`, `SentOnceThm`, `OnlineAreListedThm`, `RequestsInOrderThm`, `NoRequestLeftThm` |

All follow one argument: `Init => IInv`, a lemma per action (or per group of
actions that change the same variables) for `IInv /\ [Next]_vars => IInv'`, and
`IInv` implies the property. TLC checks each `IInv` too. What the strengthenings
are for:

* *GameSessions.* `RtaNamesUnique` is about the list, but it is at risk while a game is
  being made and is not listed yet: `CreatingNameFree` carries the check of the name
  to the step that lists the game, and `CreatingFresh` says that nobody else has
  the session meanwhile. `SeatingIsCounted` needs no bound on what clients report: a
  member is seated when the count is below the maximum, both values of an `int8_t`,
  so that one more is one too. `SeatedConnected`,
  `HeldConnected` and `SessionIdsDiffer` say that who sits has been there and that
  a session id is its user's, on which `AddMember` and the owner test rest.
* *GameLifecycle.* The refinement uses `CreatingFresh` and that ids only grow; a
  step of either thread is an announcement, an opening, an end or a stutter.
* *ChatRooms.* The properties are inductive together with `FreshIds`.
* *CharacterSaves.* A commit reads the task of a session. `SessionsApart` says that
  the session is one user's, `TasksAreOfUploads` that the task holds chunks of the
  one upload that user is sending and was begun for the account it is logged in
  to, `NamelessApart` keeps what users without a session collect away from it, and
  `UploadsBegun` makes a new upload new. `StoredOnce` follows as the task's upload
  is not in `stored`, and `RowsChangeInAccount` from what a commit does with the
  account its target is in. For the refinement of `CharacterStore`, `SessionsApart` makes the
  upload that is stored the only one of its session, and `TasksAreOfUploads` makes it the
  one that is open: a step of the server closes uploads, opens one and closes the older
  one of the session, stores the open one, or is not seen.
* *Social.* `AccountOnlineOnce` makes the user of an account the only one that changes
  its rows; `BlankBeforeLogin` and `RowsOfAccounts` give a new account empty lists;
  `OwedByFriend` is why the departure reaches whoever was told of the arrival and
  was not dropped: the user still has it on its list. It is stated of handles that only one account
  has, for the code looks for the first user of a handle.
* *Server.* `LobbyKept` and `DiscoveryKept` say, by where main is, which thread is
  there and what its `m_running` is: that it is set before the spawn is why the
  thread does not end at once, and that main stops the server before it joins is
  why the thread ends before main does.
* *CharacterData.* `TaskIsOfUpload`: what a task has, followed by what the client has
  yet to send, is the header, the compressed character and some garbage, and its
  metadata is what the server read of what was sent. `RowHasMetadata`: so has a row.
  What a commit then stores follows from what the conversions do, below.
* *LobbySockets.* `LobbyShape` and `AheadOfBuffer` give `SentOnce`: what was sent is in
  the front of the buffer and is as much as will be erased. `StreamInOrder` says
  that the read buffer followed by what is under way is the tail of what the
  client sent, `HandledBefore` that everything before it was handled, and
  `WholeBehindEmpty` where a whole request may wait.

What the conversions of `CharacterData` do to a sequence of any length is proved by
induction on how many bytes were read. The library's induction theorems take an
operator, so `CharacterData_proofs` states induction of sets (`LeastNatural` and
`SetInduction`, from the order of the naturals being well-founded) and recursion
(`Recursion`: the steps of a function of two arguments can be taken one after
another), which give each of the three loops its defining equation. On these rest:

* `ScanAgrees`: after every byte, `Validate` has counted what `Unpack` has produced,
  until it has enough and stops there; so `ValidateIsExact`;
* `CompressCodes`: what `Compress` has written after every byte unpacks to what it
  has read, and no beginning of it ends at the end of a run and unpacks to as much.
  It is stronger than that the two are inverse: that no beginning of a compressed
  character passes for the character is what `AcceptedIsWhole` and
  `TrimmedIsCharacter` need, when garbage follows and only a part has come;
* `ChunkIs`, `GatheredIs`: chunks put together are the data and then zeros;
  `UnpackGrows`: what more bytes unpack to begins with what the first ones do, so
  that the zeros do not change the character (`DownloadUnpacks`).

Only model-checked: the liveness properties (`HandshakeOpensGame`,
`HostlessGameEnds`, `WaitingEnds`, `StopEnds`, `EndsOrIsHeld`), which need fairness
and ENABLED, and of course the violations.

`StrangerCannotEndGame` excepts users that have not logged in, and `RowsAreWholeUploads`
and its like except uploads of such users: they share the empty session id, and
the code takes one for another. `DepartedHostEndsGame` and
`HandshakeOpensGame` are about games of their host's own type that the host points at;
the code does not look for others. `ShownUnlessDropped` excepts what is `dropped`, where
nobody is told, and users whose handle another account has. `NoRequestLeft` excepts
what waits behind an empty packet. `InKeptRoomsOnly` excepts users that wandered, and
`RtaNamesUnique` the empty name, which `FindRoom`'s and the games' lookups never find.

## 5. What is not modelled

The order in which the modules were written: the games first, since two threads
meet there; then rooms and saves, which are sequential but span many requests;
the connections, on which three threads act; then friends, the process and the
bytes of a character. What a next step would take:

1. *Composition.* A game that is cancelled or started with the room of its name, and
   a user removed from game, rooms and tasks at once, over `GameSessions`, `ChatRooms`
   and `CharacterSaves`: that no component keeps a user the others have let go.
2. *Readers.* The bounded reads of `ByteStream` and `ByteBufferReader`, one by one.
   They are checks of a position against a size; tests reach them.

Left out for good:

* a statement that fails in `LoadCharacterSlots`: it returns the characters read so
  far, and the list is answered as a success with slots missing (`CharacterData`
  loads a whole list or none);
* a `send` that fails on a connection that stays open: the next one would send again
  what went out before it. In `LobbySockets` a send fails when the connection is shut;
* cryptography: no model checker tells a cipher from another bijection;
* logging, and the text of the configuration (loading it is a step that succeeds,
  fails or throws);
* information requests, whose answers depend on no state;
* the fields of `RealmCharacter` (most of its file), which are set to zero and never
  read at this commit, as the bodies of its `Serialize` and `Deserialize` are
  commented out, and the table `RealmSession`, which no statement uses;
* SQLite: vendored in `src/Dependency/sqlite`, about 267 000 of the repository's
  279 000 lines of implementation. Its statements are modelled as the server uses
  them: each happens as a whole or fails. Shares of the repository's lines are to
  be read against the other 12 000.

Undefined behaviour that the models leave out: a `std::string` written by one
thread while another reads it (`m_discoveryAddr`), a buffer that an insertion moves
while `send` reads it, the vector of connections that `Stop` walks while it grows,
allocation for a packet that says it is one to three bytes long, and an `fd_set`
with more sockets than it has room for. The users or messages that such a read
could confuse are still told apart in the models: what is read is the old or the
new value.

## 6. Running it

    tlc -config GamesTwoGames.cfg MCGameSessions
    tlapm GameSessions_proofs.tla

`PROJECT.json` pairs each run with its module and configuration, each definition
with the lines of `src/` it models, and each property with a mutation of the code
that TLC catches it with.
