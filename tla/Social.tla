------------------------------- MODULE Social -------------------------------
(***************************************************************************)
(* Friends and ignored users of Return to Arms: two lists that a RealmUser *)
(* holds in memory, the two tables they come from, and the messages that   *)
(* tell the friends of a user that it is online or no longer is.           *)
(*                                                                         *)
(* All of it runs on the lobby thread, so a request is one step.  What is  *)
(* in memory is lost when the server ends; the tables stay.                *)
(***************************************************************************)
EXTENDS Naturals, FiniteSets, Sequences, SequencesExt

CONSTANTS
    Users,        \* RealmUser objects; an object is used again once it is gone
    Accounts,     \* the account names clients use, and their ids
    Handles,      \* chat handles
    Handle,       \* the chat_handle of each account, which need not be unique
    NoAccount,    \* m_accountId of a user that has not logged in
    NoHandle,     \* the empty m_chatHandle of such a user
    MaxRows       \* bound: how many rows the two tables hold together

ASSUME AccountsAssumption == NoAccount \notin Accounts /\ IsFiniteSet(Accounts)
ASSUME HandlesAssumption == NoHandle \notin Handles /\ IsFiniteSet(Handles)
ASSUME HandleAssumption == Handle \in [Accounts -> Handles]
ASSUME BoundsAssumption == MaxRows \in Nat

VARIABLES
    m_users,      \* the users that are connected, oldest first
    accountId,    \* m_accountId
    friendList,   \* m_friendList
    ignoreList,   \* m_ignoreList
    accounts,     \* the table RealmUsers
    friendRows,   \* the table UserFriendList
    ignoreRows,   \* the table UserIgnoredList
    unsure,       \* history: users whose lists were not loaded, or not whole
    shown,        \* history: the handles each user was told are online, and
                  \* has not been told since are not
    dropped       \* history: those of them whose end the user will not be
                  \* told: their user, or it, took another account since, or
                  \* their user took it off its friend list

lists == <<friendList, ignoreList>>
tables == <<accounts, friendRows, ignoreRows>>
seen == <<shown, dropped>>
vars == <<m_users, accountId, lists, tables, unsure, seen>>

TypeOK ==
    /\ m_users \in Seq(Users)
    /\ accountId \in [Users -> Accounts \cup {NoAccount}]
    /\ friendList \in [Users -> SUBSET Handles]
    /\ ignoreList \in [Users -> SUBSET Handles]
    /\ accounts \subseteq Accounts
    /\ friendRows \in [Accounts -> SUBSET Handles]
    /\ ignoreRows \in [Accounts -> SUBSET Handles]
    /\ unsure \subseteq Users
    /\ shown \in [Users -> SUBSET Handles]
    /\ dropped \in [Users -> SUBSET Handles]

----------------------------------------------------------------------------
Connected == ToSet(m_users)

(* m_chatHandle, which is set together with m_accountId.                   *)
HandleOf(account) == IF account = NoAccount THEN NoHandle ELSE Handle[account]
ChatHandle(u) == HandleOf(accountId[u])

(* FindUserByChatHandle: the oldest connection that has the handle, for    *)
(* the accounts that ids gives the users.                                  *)
IsFound(ids, v, h) ==
    \E i \in DOMAIN m_users :
        /\ m_users[i] = v /\ HandleOf(ids[v]) = h
        /\ \A j \in 1..(i - 1) : HandleOf(ids[m_users[j]]) # h

(* NotifyFriendsOnlineStatus: the users found for a list of handles.       *)
Told(ids, list) == {v \in Users : \E h \in list : IsFound(ids, v, h)}

(* What receivers were told of h.                                          *)
TellOnline(receivers, h, lost) ==
    /\ shown' = [v \in Users |-> IF v \in receivers THEN shown[v] \cup {h} ELSE shown[v]]
    /\ dropped' = [v \in Users |-> IF v \in receivers THEN lost[v] \ {h} ELSE lost[v]]

(* u takes another account: nobody is told, and u is not found any more by *)
(* those that would tell it.                                               *)
LostWith(u) ==
    [v \in Users |-> IF v = u THEN shown[u]
                     ELSE dropped[v] \cup (shown[v] \cap {ChatHandle(u)})]

(* u leaves, and receivers are told.                                       *)
TellOffline(u, receivers) ==
    LET Rest(f) == [v \in Users |-> IF v = u THEN {}
                                    ELSE IF v \in receivers THEN f[v] \ {ChatHandle(u)}
                                    ELSE f[v]]
    IN  shown' = Rest(shown) /\ dropped' = Rest(dropped)

RowsTaken ==
    LET Pairs(rows) == {p \in Accounts \X Handles : p[2] \in rows[p[1]]}
    IN  Cardinality(Pairs(friendRows)) + Cardinality(Pairs(ignoreRows))

HasRoom == RowsTaken < MaxRows

NoLists == [u \in Users |-> {}]
Init ==
    /\ m_users = <<>>
    /\ accountId = [u \in Users |-> NoAccount]
    /\ friendList = NoLists
    /\ ignoreList = NoLists
    /\ accounts = {}
    /\ friendRows = [a \in Accounts |-> {}]
    /\ ignoreRows = [a \in Accounts |-> {}]
    /\ unsure = {}
    /\ shown = NoLists
    /\ dropped = NoLists

----------------------------------------------------------------------------
(* Connections and accounts.                                               *)

Connect(u) ==
    /\ u \notin Connected
    /\ m_users' = Append(m_users, u)
    /\ UNCHANGED <<accountId, lists, tables, unsure, seen>>

(* Mutant: whether the account is online already is not asked.             *)
Login_twice(u, a) ==
    /\ u \in Connected /\ a \in accounts
    /\ accountId' = [accountId EXCEPT ![u] = a]
    /\ friendList' = [friendList EXCEPT ![u] = friendRows[a]]
    /\ ignoreList' = [ignoreList EXCEPT ![u] = ignoreRows[a]]
    /\ unsure' = unsure \ {u}
    /\ TellOnline(Told(accountId', friendRows[a]), Handle[a], LostWith(u))
    /\ UNCHANGED <<m_users, tables>>

(* ProcessLoginRTA: the account is not online, not even here; both lists   *)
(* are loaded, as far as the statements get, and the friends are told.     *)
Login(u, a) ==
    /\ u \in Connected /\ a \in accounts
    /\ \A v \in Connected : accountId[v] # a
    /\ accountId' = [accountId EXCEPT ![u] = a]
    /\ \E friends \in SUBSET friendRows[a], ignored \in SUBSET ignoreRows[a] :
          /\ friendList' = [friendList EXCEPT ![u] = friends]
          /\ ignoreList' = [ignoreList EXCEPT ![u] = ignored]
          /\ unsure' = IF friends = friendRows[a] /\ ignored = ignoreRows[a]
                       THEN unsure \ {u} ELSE unsure \cup {u}
          /\ TellOnline(Told(accountId', friends), Handle[a], LostWith(u))
    /\ UNCHANGED <<m_users, tables>>

(* RequestCreateAccount logs the user in as the new account, with the      *)
(* lists it has and without telling anybody.                               *)
CreateAccount(u, a) ==
    /\ u \in Connected /\ a \notin accounts
    /\ accounts' = accounts \cup {a}
    /\ accountId' = [accountId EXCEPT ![u] = a]
    /\ unsure' = IF friendList[u] = {} /\ ignoreList[u] = {}
                 THEN unsure \ {u} ELSE unsure \cup {u}
    /\ dropped' = LostWith(u)
    /\ UNCHANGED <<m_users, lists, friendRows, ignoreRows, shown>>

(* Mutant: the friends are told when the user is off the list already.     *)
RemoveUser_first(u) ==
    /\ \E i \in DOMAIN m_users : m_users[i] = u /\ m_users' = RemoveAt(m_users, i)
    /\ accountId' = [accountId EXCEPT ![u] = NoAccount]
    /\ friendList' = [friendList EXCEPT ![u] = {}]
    /\ ignoreList' = [ignoreList EXCEPT ![u] = {}]
    /\ unsure' = unsure \ {u}
    /\ TellOffline(u, Told(accountId', friendList'[u]))
    /\ UNCHANGED tables

(* UserManager::RemoveUser: the friends are told while u is still found.   *)
RemoveUser(u) ==
    /\ \E i \in DOMAIN m_users : m_users[i] = u /\ m_users' = RemoveAt(m_users, i)
    /\ accountId' = [accountId EXCEPT ![u] = NoAccount]
    /\ friendList' = [friendList EXCEPT ![u] = {}]
    /\ ignoreList' = [ignoreList EXCEPT ![u] = {}]
    /\ unsure' = unsure \ {u}
    /\ TellOffline(u, Told(accountId, friendList[u]))
    /\ UNCHANGED tables

(* The process ends, by a signal or by an exception nobody catches, and is *)
(* started again.                                                          *)
Restart ==
    /\ m_users' = <<>>
    /\ accountId' = [u \in Users |-> NoAccount]
    /\ friendList' = NoLists /\ ignoreList' = NoLists
    /\ unsure' = {}
    /\ shown' = NoLists /\ dropped' = NoLists
    /\ UNCHANGED tables

----------------------------------------------------------------------------
(* Requests.  One that is refused, or whose statement fails, changes       *)
(* nothing; without an account every statement is refused.                 *)

LoggedIn(u) == u \in Connected /\ accountId[u] # NoAccount

With(rows, u, h) == [rows EXCEPT ![accountId[u]] = @ \cup {h}]
Less(rows, u, h) == [rows EXCEPT ![accountId[u]] = @ \ {h}]

(* Mutant: the friend is on the list whether or not it could be saved.     *)
AddFriend_unsaved(u, h) ==
    /\ LoggedIn(u) /\ HasRoom
    /\ h \notin friendList[u]
    /\ \E target \in Users :
          IsFound(accountId, target, h) /\ ChatHandle(u) \notin ignoreList[target]
    /\ friendRows' \in {friendRows, With(friendRows, u, h)}
    /\ friendList' = [friendList EXCEPT ![u] = @ \cup {h}]
    /\ UNCHANGED <<m_users, accountId, ignoreList, accounts, ignoreRows, unsure, seen>>

AddFriend(u, h) ==
    /\ LoggedIn(u) /\ HasRoom
    /\ h \notin friendList[u]
    /\ \E target \in Users :
          IsFound(accountId, target, h) /\ ChatHandle(u) \notin ignoreList[target]
    /\ friendRows' = With(friendRows, u, h)
    /\ friendList' = [friendList EXCEPT ![u] = @ \cup {h}]
    /\ UNCHANGED <<m_users, accountId, ignoreList, accounts, ignoreRows, unsure, seen>>

RemoveFriend(u, h) ==
    /\ LoggedIn(u)
    /\ h \in friendList[u]
    /\ friendRows' = Less(friendRows, u, h)
    /\ friendList' = [friendList EXCEPT ![u] = @ \ {h}]
    /\ dropped' = [v \in Users |-> IF ChatHandle(v) = h
                                   THEN dropped[v] \cup (shown[v] \cap {ChatHandle(u)})
                                   ELSE dropped[v]]
    /\ UNCHANGED <<m_users, accountId, ignoreList, accounts, ignoreRows, unsure, shown>>

AddIgnore(u, h) ==
    /\ LoggedIn(u) /\ HasRoom
    /\ h \notin friendList[u] \cup ignoreList[u]
    /\ \E target \in Users : IsFound(accountId, target, h)
    /\ ignoreRows' = With(ignoreRows, u, h)
    /\ ignoreList' = [ignoreList EXCEPT ![u] = @ \cup {h}]
    /\ UNCHANGED <<m_users, accountId, friendList, accounts, friendRows, unsure, seen>>

RemoveIgnore(u, h) ==
    /\ LoggedIn(u)
    /\ h \in ignoreList[u]
    /\ ignoreRows' = Less(ignoreRows, u, h)
    /\ ignoreList' = [ignoreList EXCEPT ![u] = @ \ {h}]
    /\ UNCHANGED <<m_users, accountId, friendList, accounts, friendRows, unsure, seen>>

Next ==
    \/ Restart
    \/ \E u \in Users :
          \/ Connect(u)
          \/ RemoveUser(u)
          \/ \E a \in Accounts : Login(u, a) \/ CreateAccount(u, a)
          \/ \E h \in Handles : \/ AddFriend(u, h) \/ RemoveFriend(u, h)
                                \/ AddIgnore(u, h) \/ RemoveIgnore(u, h)

Spec == Init /\ [][Next]_vars

----------------------------------------------------------------------------
(* An account is online once, so nobody but its user changes its rows      *)
(* (RequestLogin.cpp:54).                                                  *)
AccountOnlineOnce ==
    \A u, v \in Connected : accountId[u] = accountId[v] /\ LoggedIn(u) => u = v

(* The lists a user holds in memory are the rows of its account, through   *)
(* failing statements, a second login and restarts, unless they were not   *)
(* loaded whole or belong to an account it had before.                     *)
ListsAreRows ==
    \A u \in Connected \ unsure :
        LoggedIn(u) => /\ friendList[u] = friendRows[accountId[u]]
                       /\ ignoreList[u] = ignoreRows[accountId[u]]

(* A handle that nobody else's account has.                                *)
IsOwn(a) == \A b \in Accounts : Handle[b] = Handle[a] => b = a

(* A user that was told a handle is online is told when it no longer is:   *)
(* what its client shows as online is online, unless another account has   *)
(* the user's own handle, or one of the three requests that tell nobody    *)
(* came between: a second login, a new account on a connection that is     *)
(* logged in, and a friend taken off the list (NotifyFriendsOnlineStatus   *)
(* at both ends of a session).                                             *)
Owed(v) == shown[v] \ dropped[v]

ShownUnlessDropped ==
    \A v \in Connected : \A h \in Owed(v) :
        IsOwn(accountId[v]) => \E u \in Connected : ChatHandle(u) = h

----------------------------------------------------------------------------
(* The inductive invariant.                                                *)

ConnectedOnce ==
    \A i, j \in DOMAIN m_users : m_users[i] = m_users[j] => i = j

(* A user that is not logged in has nothing, and no one is logged in that  *)
(* is not connected or whose account does not exist.                       *)
BlankBeforeLogin ==
    \A u \in Users :
        IF accountId[u] = NoAccount
        THEN friendList[u] = {} /\ ignoreList[u] = {} /\ u \notin unsure
             /\ Owed(u) = {}
        ELSE u \in Connected /\ accountId[u] \in accounts

RowsOfAccounts ==
    \A a \in Accounts \ accounts : friendRows[a] = {} /\ ignoreRows[a] = {}

(* Whoever is owed a word about a handle is on the list of its user.       *)
OwedByFriend ==
    \A v \in Users : \A h \in Owed(v) :
        IsOwn(accountId[v]) =>
            \E u \in Connected : ChatHandle(u) = h /\ ChatHandle(v) \in friendList[u]

IInv ==
    /\ TypeOK /\ ConnectedOnce /\ BlankBeforeLogin /\ RowsOfAccounts
    /\ AccountOnlineOnce /\ ListsAreRows /\ OwedByFriend
=============================================================================
