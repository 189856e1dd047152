--------------------------- MODULE CharacterSaves ---------------------------
(***************************************************************************)
(* The characters of Return to Arms: CharacterSaveManager collects the     *)
(* chunks of an upload in a task, one task per session id, and commits the *)
(* task to the database with the last chunk.  A user may save the          *)
(* character of another user of its party.                                 *)
(*                                                                         *)
(* All of it runs on the lobby thread, so a request is one step.  What is  *)
(* in memory is lost when the server ends; the two tables stay.            *)
(***************************************************************************)
EXTENDS Integers, FiniteSets

CONSTANTS
    Users,       \* RealmUser objects, one per connection of a client
    Accounts,    \* the account names clients use, and their ids
    NoAccount,   \* m_accountId of a user that has not logged in
    Size,        \* CHARACTER_DATA_SIZE, in the unit that chunks come in
    MaxSessions, \* bound: how many session ids are given out
    MaxUploads,  \* bound: how many uploads clients begin
    MaxRows      \* bound: how many characters the database holds

ASSUME UsersAssumption == IsFiniteSet(Users)
ASSUME AccountsAssumption == NoAccount \notin Accounts
ASSUME SizeAssumption == Size \in Nat \ {0}
ASSUME BoundsAssumption == MaxSessions \in Nat /\ MaxUploads \in Nat /\ MaxRows \in Nat

NoSession == 0     \* the empty m_sessionId
Sessions == 1..MaxSessions
Uploads == 1..MaxUploads
Rows == 1..MaxRows
NoCharacter == 0
NoUpload == 0

VARIABLES
    status,      \* "absent", then "online" while in m_users, then "removed"
    sessionId,   \* m_sessionId
    accountId,   \* m_accountId
    characterId, \* m_characterId: the character the user plays
    tasks,       \* m_tasks, by the session id of the owner
    nextSession, \* the session id that is given out next
    accounts,    \* the table RealmUsers
    row,         \* the table RealmCharacters
    sending,     \* the upload the client of a user is in the middle of
    begun,       \* what each upload was begun for
    stored,      \* the uploads that have been written to the table
    nextUpload

userVars == <<status, sessionId, accountId, characterId>>
tables == <<accounts, row>>
uploadVars == <<sending, begun, stored, nextUpload>>
vars == <<userVars, tasks, nextSession, tables, uploadVars>>

----------------------------------------------------------------------------
(* Character data, as far as the properties tell it apart: the uploads its *)
(* chunks are from, and how much of a character it decompresses to.        *)
Data == [from : SUBSET Uploads, size : 0..Size]
NoData == [from |-> {}, size |-> 0]
WithChunk(data, upload, size) ==
    IF size = 0 THEN data
    ELSE [from |-> data.from \cup {upload},
          size |-> IF data.size + size < Size THEN data.size + size ELSE Size]

Task == [type : {"new", "save"}, target : Users, character : Rows \cup {NoCharacter},
         meta : BOOLEAN, data : Data]
NoTask == [type |-> "none"]

Row == [account : Accounts, data : Data]
NoRow == [account |-> NoAccount]

Upload == [type : {"new", "save"}, session : Sessions \cup {NoSession},
           account : Accounts \cup {NoAccount}, character : Rows \cup {NoCharacter}]
Unbegun == [type |-> "none"]

TypeOK ==
    /\ status \in [Users -> {"absent", "online", "removed"}]
    /\ sessionId \in [Users -> Sessions \cup {NoSession}]
    /\ accountId \in [Users -> Accounts \cup {NoAccount}]
    /\ characterId \in [Users -> Rows \cup {NoCharacter}]
    /\ tasks \in [Sessions \cup {NoSession} -> Task \cup {NoTask}]
    /\ nextSession \in 1..(MaxSessions + 1)
    /\ accounts \subseteq Accounts
    /\ row \in [Rows -> Row \cup {NoRow}]
    /\ sending \in [Users -> Uploads \cup {NoUpload}]
    /\ begun \in [Uploads -> Upload \cup {Unbegun}]
    /\ stored \subseteq Uploads
    /\ nextUpload \in 1..(MaxUploads + 1)

Init ==
    /\ status = [u \in Users |-> "absent"]
    /\ sessionId = [u \in Users |-> NoSession]
    /\ accountId = [u \in Users |-> NoAccount]
    /\ characterId = [u \in Users |-> NoCharacter]
    /\ tasks = [s \in Sessions \cup {NoSession} |-> NoTask]
    /\ nextSession = 1
    /\ accounts = {}
    /\ row = [c \in Rows |-> NoRow]
    /\ sending = [u \in Users |-> NoUpload]
    /\ begun = [n \in Uploads |-> Unbegun]
    /\ stored = {}
    /\ nextUpload = 1

----------------------------------------------------------------------------
(* Connections and accounts.                                               *)

Connect(u) ==
    /\ status[u] = "absent"
    /\ status' = [status EXCEPT ![u] = "online"]
    /\ UNCHANGED <<sessionId, accountId, characterId, tasks, nextSession,
                   tables, uploadVars>>

(* The user is removed; the tasks that hold it stay, and so does what they *)
(* read from it.                                                           *)
RemoveUser(u) ==
    /\ status[u] = "online"
    /\ status' = [status EXCEPT ![u] = "removed"]
    /\ UNCHANGED <<sessionId, accountId, characterId, tasks, nextSession,
                   tables, uploadVars>>

(* GenerateSessionId: sixteen random digits, no two alike. *)
LogIn(u, a) ==
    /\ nextSession \in Sessions
    /\ sessionId' = [sessionId EXCEPT ![u] = nextSession]
    /\ nextSession' = nextSession + 1
    /\ accountId' = [accountId EXCEPT ![u] = a]

(* Mutants: nobody asks whether the account is online; a user that logs in *)
(* again keeps its session id.                                             *)
Login_twice(u, a) ==
    /\ status[u] = "online"
    /\ a \in accounts
    /\ LogIn(u, a)
    /\ UNCHANGED <<status, characterId, tasks, tables, uploadVars>>

Login_keepsSession(u, a) ==
    /\ status[u] = "online"
    /\ a \in accounts
    /\ \A v \in Users : status[v] = "online" => accountId[v] # a
    /\ nextSession \in Sessions
    /\ sessionId' = [sessionId EXCEPT ![u] = IF @ = NoSession THEN nextSession ELSE @]
    /\ nextSession' = nextSession + 1
    /\ accountId' = [accountId EXCEPT ![u] = a]
    /\ UNCHANGED <<status, characterId, tasks, tables, uploadVars>>

(* RequestLogin with the right password, for an account nobody uses.  The  *)
(* character of an earlier login of the connection stays.                  *)
Login(u, a) ==
    /\ status[u] = "online"
    /\ a \in accounts
    /\ \A v \in Users : status[v] = "online" => accountId[v] # a
    /\ LogIn(u, a)
    /\ UNCHANGED <<status, characterId, tasks, tables, uploadVars>>

CreateAccount(u, a) ==
    /\ status[u] = "online"
    /\ a \notin accounts
    /\ accounts' = accounts \cup {a}
    /\ LogIn(u, a)
    /\ UNCHANGED <<status, characterId, tasks, row, uploadVars>>

(* The server ends and is started again: the memory is gone. *)
Restarted ==
    /\ status' = [u \in Users |-> IF status[u] = "absent" THEN "absent" ELSE "removed"]
    /\ sessionId' = [u \in Users |-> NoSession]
    /\ accountId' = [u \in Users |-> NoAccount]
    /\ characterId' = [u \in Users |-> NoCharacter]
    /\ tasks' = [s \in Sessions \cup {NoSession} |-> NoTask]
    /\ sending' = [u \in Users |-> NoUpload]
    /\ UNCHANGED <<nextSession, tables, begun, stored, nextUpload>>

Restart == Restarted

(* A name that is taken, or an insert that fails: CreateNewAccount throws, *)
(* and nothing on the lobby thread catches.                                *)
CreateAccountThrows(u) ==
    /\ status[u] = "online"
    /\ Restarted

----------------------------------------------------------------------------
(* Uploads.                                                                *)

(* Mutant: the task of an unfinished upload is filled up. *)
Begin_keepsTask(owner, target, type, meta, size) ==
    LET s == sessionId[owner] IN
    /\ nextUpload \in Uploads
    /\ tasks' = [tasks EXCEPT ![s] =
          [type |-> type, target |-> target, meta |-> meta,
           character |-> IF type = "new" THEN NoCharacter ELSE characterId[target],
           data |-> WithChunk(IF @ = NoTask THEN NoData ELSE @.data, nextUpload, size)]]
    /\ begun' = [begun EXCEPT ![nextUpload] =
          [type |-> type, session |-> s,
           account |-> accountId[target], character |-> characterId[target]]]
    /\ sending' = [sending EXCEPT ![owner] = nextUpload]
    /\ nextUpload' = nextUpload + 1
    /\ UNCHANGED <<userVars, nextSession, tables, stored>>

(* BeginSaveTask replaces the task of the owner's session; the request     *)
(* carries the first chunk.                                                *)
Begin(owner, target, type, meta, size) ==
    LET s == sessionId[owner] IN
    /\ nextUpload \in Uploads
    /\ tasks' = [tasks EXCEPT ![s] =
          [type |-> type, target |-> target, meta |-> meta,
           character |-> IF type = "new" THEN NoCharacter ELSE characterId[target],
           data |-> WithChunk(NoData, nextUpload, size)]]
    /\ begun' = [begun EXCEPT ![nextUpload] =
          [type |-> type, session |-> s,
           account |-> accountId[target], character |-> characterId[target]]]
    /\ sending' = [sending EXCEPT ![owner] = nextUpload]
    /\ nextUpload' = nextUpload + 1
    /\ UNCHANGED <<userVars, nextSession, tables, stored>>

(* RequestCreateNewCharacter does not ask for a login. *)
CreateNewCharacter(u, meta, size) ==
    /\ status[u] = "online"
    /\ Begin(u, u, "new", meta, size)

SaveCharacter(u, member, meta, size) ==
    /\ status[u] = "online"
    /\ accountId[u] # NoAccount
    /\ status[member] = "online"
    /\ accountId[member] # NoAccount
    /\ Begin(u, member, "save", meta, size)

(* Validate: enough data for a character, and its metadata. *)
Valid(task) == task.meta /\ task.data.size = Size

(* The task of u's session with the next chunk of the client's upload.     *)
HasTask(u) == status[u] = "online" /\ sending[u] # NoUpload /\ tasks[sessionId[u]] # NoTask
WithData(task, data) ==
    [type |-> task.type, target |-> task.target, character |-> task.character,
     meta |-> task.meta, data |-> data]
Appended(u, size) ==
    LET task == tasks[sessionId[u]]
    IN  WithData(task, WithChunk(task.data, sending[u], size))

(* A chunk that does not complete the upload: it is not the last, or what  *)
(* has come is not valid, and then the task stays.                         *)
AppendData(u, size, endOfData) ==
    /\ HasTask(u)
    /\ size > 0
    /\ ~(endOfData /\ Valid(Appended(u, size)))
    /\ tasks' = [tasks EXCEPT ![sessionId[u]] = Appended(u, size)]
    /\ UNCHANGED <<userVars, nextSession, tables, uploadVars>>

IsNextRow(c) == row[c] = NoRow /\ \A d \in Rows : row[d] = NoRow => c <= d

CommitNew(task) ==
    /\ task.type = "new"
    /\ accountId[task.target] # NoAccount
    /\ \E c \in Rows :
          /\ IsNextRow(c)
          /\ row' = [row EXCEPT ![c] = [account |-> accountId[task.target],
                                        data |-> task.data]]
          /\ characterId' = [characterId EXCEPT ![task.target] = c]
    /\ stored' = stored \cup task.data.from

(* Mutant: the row is looked for by the id of the character alone. *)
CommitSave_byId(task) ==
    LET c == characterId[task.target] IN
    /\ task.type = "save"
    /\ task.character # NoCharacter
    /\ c # NoCharacter
    /\ accountId[task.target] # NoAccount
    /\ row' = [row EXCEPT ![c] = [account |-> row[c].account, data |-> task.data]]
    /\ stored' = stored \cup task.data.from
    /\ UNCHANGED characterId

(* The task must have a character; the row that is written is that of the  *)
(* character its target plays now, if the target's account has it.         *)
CommitSave(task) ==
    LET c == characterId[task.target] IN
    /\ task.type = "save"
    /\ task.character # NoCharacter
    /\ c # NoCharacter
    /\ accountId[task.target] # NoAccount
    /\ IF row[c].account = accountId[task.target]
       THEN /\ row' = [row EXCEPT ![c] = [account |-> row[c].account,
                                           data |-> task.data]]
            /\ stored' = stored \cup task.data.from
       ELSE UNCHANGED <<row, stored>>
    /\ UNCHANGED characterId

(* The commit is refused, or the database fails and rolls back. *)
CommitFails == UNCHANGED <<row, characterId, stored>>

(* Mutant: the task is looked up and not taken out. *)
AppendLast_keepsTask(u, size) ==
    LET task == Appended(u, size) IN
    /\ HasTask(u)
    /\ size > 0
    /\ Valid(task)
    /\ tasks' = [tasks EXCEPT ![sessionId[u]] = task]
    /\ CommitNew(task) \/ CommitSave(task) \/ CommitFails
    /\ UNCHANGED <<status, sessionId, accountId, nextSession, accounts,
                   sending, begun, nextUpload>>

(* The last chunk of a valid upload: CommitSaveTask takes the task out of  *)
(* m_tasks, whatever comes of it.                                          *)
AppendLast(u, size) ==
    LET task == Appended(u, size) IN
    /\ HasTask(u)
    /\ size > 0
    /\ Valid(task)
    /\ tasks' = [tasks EXCEPT ![sessionId[u]] = NoTask]
    /\ CommitNew(task) \/ CommitSave(task) \/ CommitFails
    /\ UNCHANGED <<status, sessionId, accountId, nextSession, accounts,
                   sending, begun, nextUpload>>

(* RequestGetNetCharacterData: the row of the account with that id. *)
GetCharacterData(u, c) ==
    /\ status[u] = "online"
    /\ row[c] # NoRow
    /\ row[c].account = accountId[u]
    /\ characterId' = [characterId EXCEPT ![u] = c]
    /\ UNCHANGED <<status, sessionId, accountId, tasks, nextSession, tables,
                   uploadVars>>

----------------------------------------------------------------------------
AccountStep ==
    \E u \in Users :
        \/ Connect(u)
        \/ RemoveUser(u)
        \/ \E a \in Accounts : Login(u, a) \/ CreateAccount(u, a)
        \/ CreateAccountThrows(u)

UploadStep ==
    \E u \in Users, size \in 0..Size :
        \/ \E meta \in BOOLEAN :
              \/ CreateNewCharacter(u, meta, size)
              \/ \E member \in Users : SaveCharacter(u, member, meta, size)
        \/ \E endOfData \in BOOLEAN : AppendData(u, size, endOfData)
        \/ AppendLast(u, size)

Next ==
    \/ AccountStep
    \/ UploadStep
    \/ \E u \in Users, c \in Rows : GetCharacterData(u, c)
    \/ Restart

Spec == Init /\ [][Next]_vars

----------------------------------------------------------------------------
(* PROPERTIES *)

(* The uploads that were begun by a user that had logged in.  Users that   *)
(* have not logged in share the empty session id, and so one task.         *)
Named(n) == begun[n] # Unbegun /\ begun[n].session # NoSession

(* A stored character is one whole upload: chunks of an upload that was    *)
(* given up, that failed or that a restart cut off never end up in a row   *)
(* with those of another.                                                  *)
RowsAreWholeUploads ==
    \A c \in Rows : row[c] # NoRow =>
        /\ row[c].data.size = Size
        /\ \A n \in row[c].data.from : Named(n) => row[c].data.from = {n}

(* A new character belongs to the account its upload was begun for, though *)
(* the commit reads the account of the user long after: a user that logs   *)
(* in to another account on the way leaves its task behind.                *)
NewCharacterStaysInAccount ==
    \A c \in Rows : row[c] # NoRow =>
        \A n \in row[c].data.from :
            Named(n) /\ begun[n].type = "new" => row[c].account = begun[n].account

(* An upload is written once, however often its last chunk comes.          *)
StoredOnce ==
    [][\A c \in Rows : row'[c] # row[c] =>
          \A n \in row'[c].data.from : Named(n) => n \notin stored]_vars

(* A character that exists is changed by nothing but a save, whose target  *)
(* plays it and is logged in to its account when the save is committed.  A *)
(* connection that has logged in to a second account still has the         *)
(* character of the first: it must not write over it.                      *)
RowsChangeInAccount ==
    [][\A c \in Rows : row[c] # NoRow /\ row'[c] # row[c] =>
          /\ row'[c] # NoRow /\ row'[c].account = row[c].account
          /\ \E u \in Users :
                /\ tasks[sessionId[u]] # NoTask /\ tasks'[sessionId[u]] = NoTask
                /\ tasks[sessionId[u]].type = "save"
                /\ characterId[tasks[sessionId[u]].target] = c
                /\ accountId[tasks[sessionId[u]].target] = row[c].account]_vars

(* An account is online once: the tables are keyed by the account, and two *)
(* users of one account would save over each other.                        *)
AccountOnlineOnce ==
    \A u, v \in Users :
        /\ status[u] = "online" /\ status[v] = "online"
        /\ accountId[u] = accountId[v] /\ accountId[u] # NoAccount
        => u = v

----------------------------------------------------------------------------
(* What is promised to a client: CharacterStore. *)

(* The task of its session collects what u is sending. *)
OpenUpload(n) ==
    \E u \in Users : /\ sending[u] = n
                     /\ sessionId[u] = begun[n].session
                     /\ tasks[sessionId[u]] # NoTask

phase == [n \in Uploads |-> IF ~Named(n) THEN "unborn"
                           ELSE IF n \in stored THEN "stored"
                           ELSE IF OpenUpload(n) THEN "open"
                           ELSE "over"]

shelf == [c \in Rows |-> IF row[c] = NoRow THEN [uploads |-> {}]
                        ELSE [account |-> row[c].account,
                              uploads |-> {n \in row[c].data.from : Named(n)}]]

Store == INSTANCE CharacterStore

(* The promise is kept: an upload that was given up, for a newer one, for  *)
(* another login, by a failed commit or by a restart, never gets into a    *)
(* row, however late its chunks come; one that is stored is whole, alone   *)
(* and once in a row of the account it is for.                             *)
ImplementsStore == Store!Spec

----------------------------------------------------------------------------
(* The inductive invariant. *)

(* Session ids are fresh, and so a session is one user's. *)
SessionsApart ==
    /\ \A u \in Users : sessionId[u] < nextSession
    /\ \A u, v \in Users :
          sessionId[u] = sessionId[v] /\ sessionId[u] # NoSession => u = v
    /\ \A s \in Sessions : s >= nextSession => tasks[s] = NoTask

AccountsKnown ==
    \A u \in Users : /\ accountId[u] \in accounts \cup {NoAccount}
                     /\ status[u] = "absent" => accountId[u] = NoAccount

(* Only uploads that were begun are sent, stored and in rows. *)
UploadsBegun ==
    /\ \A n \in Uploads : begun[n] # Unbegun <=> n < nextUpload
    /\ \A n \in stored : n < nextUpload
    /\ \A u \in Users : sending[u] # NoUpload => sending[u] < nextUpload
    /\ \A c \in Rows : row[c] # NoRow => \A n \in row[c].data.from : n < nextUpload

(* What is sent and collected under the empty session id was begun there.  *)
NamelessApart ==
    /\ \A u \in Users : sessionId[u] = NoSession /\ sending[u] # NoUpload
                         => begun[sending[u]].session = NoSession
    /\ tasks[NoSession] # NoTask =>
          \A n \in tasks[NoSession].data.from :
             n < nextUpload /\ begun[n].session = NoSession

(* The task of the session of a user is for what its client is sending. *)
TaskIsOfUpload(u) ==
    LET task == tasks[sessionId[u]]
        n == sending[u]
    IN  /\ n # NoUpload
        /\ begun[n].session = sessionId[u] /\ begun[n].type = task.type
        /\ n \notin stored /\ task.data.from \subseteq {n}
        /\ task.type = "new" => task.target = u /\ begun[n].account = accountId[u]
TasksAreOfUploads ==
    \A u \in Users : sessionId[u] # NoSession /\ tasks[sessionId[u]] # NoTask
                     => TaskIsOfUpload(u)

IInv ==
    /\ TypeOK
    /\ SessionsApart
    /\ AccountsKnown
    /\ AccountOnlineOnce
    /\ UploadsBegun
    /\ NamelessApart
    /\ TasksAreOfUploads
    /\ RowsAreWholeUploads
    /\ NewCharacterStaysInAccount

----------------------------------------------------------------------------
(* What the code says and does not keep. *)

(* "the target user whose character is being saved"                        *)
(* (CharacterSaveManager.cpp:7): the upload ends in the character that was *)
(* played when the save was begun.                                         *)
SavedWhereBegun ==
    \A c \in Rows : row[c] # NoRow =>
        \A n \in row[c].data.from :
            Named(n) /\ begun[n].type = "save" => begun[n].character = c
=============================================================================
