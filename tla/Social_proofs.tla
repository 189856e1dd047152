--------------------------- MODULE Social_proofs ----------------------------
(***************************************************************************)
(* That the lists of friends and ignored users agree with their tables,    *)
(* and that who was told of a user is told of its end, for any users,      *)
(* accounts and handles, but for the requests that tell nobody.            *)
(***************************************************************************)
EXTENDS Social, SequenceTheorems, TLAPS

----------------------------------------------------------------------------
(* The vector of connections.                                              *)

LEMMA AppendUser ==
    ASSUME NEW S, NEW s \in Seq(S), NEW e \in S, e \notin ToSet(s),
           \A i, j \in DOMAIN s : s[i] = s[j] => i = j
    PROVE  /\ Append(s, e) \in Seq(S)
           /\ ToSet(Append(s, e)) = ToSet(s) \cup {e}
           /\ \A i, j \in DOMAIN Append(s, e) : Append(s, e)[i] = Append(s, e)[j] => i = j
<1>1. /\ Append(s, e) \in Seq(S)
      /\ DOMAIN Append(s, e) = 1..(Len(s) + 1)
      /\ DOMAIN s = 1..Len(s) /\ Len(s) \in Nat
      /\ \A i \in 1..Len(s) : Append(s, e)[i] = s[i]
      /\ Append(s, e)[Len(s) + 1] = e
  OBVIOUS
<1>2. ToSet(Append(s, e)) = ToSet(s) \cup {e}
  <2> HIDE DEF ToSet
  <2>1. ToSet(s) = {s[i] : i \in 1..Len(s)}
    BY <1>1 DEF ToSet
  <2>2. ToSet(Append(s, e)) = {Append(s, e)[i] : i \in 1..(Len(s) + 1)}
    BY <1>1 DEF ToSet
  <2> QED
    BY <1>1, <2>1, <2>2
<1>3. \A i \in 1..Len(s) : s[i] # e
  BY <1>1 DEF ToSet
<1> QED
  BY <1>1, <1>2, <1>3

LEMMA RemoveUserAt ==
    ASSUME NEW S, NEW s \in Seq(S), NEW k \in DOMAIN s,
           \A i, j \in DOMAIN s : s[i] = s[j] => i = j
    PROVE  /\ RemoveAt(s, k) \in Seq(S)
           /\ ToSet(RemoveAt(s, k)) = ToSet(s) \ {s[k]}
           /\ \A i, j \in DOMAIN RemoveAt(s, k) :
                 RemoveAt(s, k)[i] = RemoveAt(s, k)[j] => i = j
<1> DEFINE r == RemoveAt(s, k)
           front == SubSeq(s, 1, k - 1)
           back == SubSeq(s, k + 1, Len(s))
<1>1. Len(s) \in Nat /\ DOMAIN s = 1..Len(s) /\ k \in 1..Len(s)
      /\ \A i \in 1..Len(s) : s[i] \in S
  OBVIOUS
<1>2. /\ front \in Seq(S) /\ Len(front) = k - 1
      /\ \A i \in 1..(k - 1) : front[i] = s[i]
  BY <1>1, SubSeqProperties
<1>3. /\ back \in Seq(S) /\ Len(back) = Len(s) - k
      /\ \A i \in 1..(Len(s) - k) : back[i] = s[k + i]
  <2>1. k + 1 \in Int /\ Len(s) \in Int /\ \A i \in (k + 1)..Len(s) : s[i] \in S
    BY <1>1
  <2>2. /\ back \in Seq(S)
        /\ Len(back) = IF k + 1 <= Len(s) THEN Len(s) - (k + 1) + 1 ELSE 0
        /\ \A i \in 1..(Len(s) - (k + 1) + 1) : back[i] = s[(k + 1) + i - 1]
    BY <2>1, SubSeqProperties
  <2> QED
    BY <1>1, <2>2
<1>4. r = front \o back
  BY DEF RemoveAt
<1> HIDE DEF r, front, back
<1>5. /\ r \in Seq(S) /\ Len(r) = Len(s) - 1 /\ DOMAIN r = 1..(Len(s) - 1)
      /\ \A i \in 1..(Len(s) - 1) : r[i] = IF i < k THEN s[i] ELSE s[i + 1]
  <2>1. /\ r \in Seq(S) /\ Len(r) = Len(front) + Len(back)
        /\ \A i \in 1..(Len(front) + Len(back)) :
              r[i] = IF i <= Len(front) THEN front[i] ELSE back[i - Len(front)]
    <3>1. /\ front \o back \in Seq(S)
          /\ Len(front \o back) = Len(front) + Len(back)
          /\ \A i \in 1..(Len(front) + Len(back)) :
                (front \o back)[i] = IF i <= Len(front) THEN front[i] ELSE back[i - Len(front)]
      BY <1>2, <1>3
    <3> QED
      BY <3>1, <1>4, Zenon
  <2>2. DOMAIN r = 1..Len(r)
    BY <2>1
  <2>3. Len(front) + Len(back) = Len(s) - 1
    BY <1>1, <1>2, <1>3
  <2>4. ASSUME NEW i \in 1..(Len(s) - 1)
        PROVE  r[i] = IF i < k THEN s[i] ELSE s[i + 1]
    <3>1. CASE i < k
      BY <1>1, <1>2, <2>1, <2>3, <3>1
    <3>2. CASE ~(i < k)
      <4>1. i - Len(front) \in 1..(Len(s) - k) /\ ~(i <= Len(front))
        BY <1>1, <1>2, <3>2
      <4>2. r[i] = s[k + (i - Len(front))]
        BY <1>3, <2>1, <2>3, <4>1
      <4> QED
        BY <1>1, <1>2, <3>2, <4>2
    <3> QED
      BY <3>1, <3>2
  <2> QED
    BY <2>1, <2>2, <2>3, <2>4
<1>6. ToSet(r) = ToSet(s) \ {s[k]}
  <2>1. ASSUME NEW x \in ToSet(r) PROVE x \in ToSet(s) \ {s[k]}
    <3>1. PICK i \in 1..(Len(s) - 1) : x = r[i]
      BY <1>5, <2>1 DEF ToSet
    <3>2. CASE i < k
      <4>1. x = s[i] /\ i \in DOMAIN s /\ i # k
        BY <1>1, <1>5, <3>1, <3>2
      <4> QED
        BY <4>1 DEF ToSet
    <3>3. CASE ~(i < k)
      <4>1. x = s[i + 1] /\ i + 1 \in DOMAIN s /\ i + 1 # k
        BY <1>1, <1>5, <3>1, <3>3
      <4> QED
        BY <4>1 DEF ToSet
    <3> QED
      BY <3>2, <3>3
  <2>2. ASSUME NEW x \in ToSet(s) \ {s[k]} PROVE x \in ToSet(r)
    <3>1. PICK i \in DOMAIN s : x = s[i]
      BY <2>2 DEF ToSet
    <3>2. i # k
      BY <2>2, <3>1
    <3>3. CASE i < k
      <4>1. i \in 1..(Len(s) - 1) /\ r[i] = x
        BY <1>1, <1>5, <3>1, <3>3
      <4> QED
        BY <1>5, <4>1 DEF ToSet
    <3>4. CASE i > k
      <4>1. i - 1 \in 1..(Len(s) - 1) /\ ~(i - 1 < k) /\ (i - 1) + 1 = i
        BY <1>1, <3>4
      <4>2. r[i - 1] = x
        BY <1>5, <3>1, <4>1
      <4> QED
        BY <1>5, <4>1, <4>2 DEF ToSet
    <3> QED
      BY <1>1, <3>2, <3>3, <3>4
  <2> QED
    BY <2>1, <2>2
<1>7. ASSUME NEW i \in DOMAIN r, NEW j \in DOMAIN r, r[i] = r[j] PROVE i = j
  <2> DEFINE p(n) == IF n < k THEN n ELSE n + 1
  <2>1. /\ i \in 1..(Len(s) - 1) /\ j \in 1..(Len(s) - 1)
        /\ p(i) \in DOMAIN s /\ p(j) \in DOMAIN s
        /\ r[i] = s[p(i)] /\ r[j] = s[p(j)]
    BY <1>1, <1>5
  <2>2. p(i) = p(j)
    BY <1>7, <2>1
  <2> QED
    BY <1>1, <2>1, <2>2
<1> QED
  BY <1>5, <1>6, <1>7 DEF r

----------------------------------------------------------------------------
(* Handles and lookups.                                                    *)

LEMMA HandleTypes ==
    /\ \A a \in Accounts : HandleOf(a) = Handle[a] /\ Handle[a] \in Handles
    /\ HandleOf(NoAccount) = NoHandle /\ NoHandle \notin Handles
BY AccountsAssumption, HandlesAssumption, HandleAssumption DEF HandleOf

LEMMA ConnectedUsers ==
    ASSUME TypeOK
    PROVE  /\ Connected \subseteq Users
           /\ \A i \in DOMAIN m_users : m_users[i] \in Connected
           /\ \A v \in Connected : \E i \in DOMAIN m_users : m_users[i] = v
           /\ DOMAIN m_users = 1..Len(m_users) /\ Len(m_users) \in Nat
<1>1. m_users \in Seq(Users)
  BY DEF TypeOK
<1> QED
  BY <1>1 DEF Connected, ToSet

LEMMA FoundIs ==
    ASSUME TypeOK, NEW ids, NEW v, NEW h, IsFound(ids, v, h)
    PROVE  v \in Connected /\ HandleOf(ids[v]) = h
BY ConnectedUsers DEF IsFound

(* The only connection with its handle is the one that is found.           *)
LEMMA AloneIsFound ==
    ASSUME TypeOK, ConnectedOnce, NEW ids, NEW v \in Connected,
           \A w \in Connected : HandleOf(ids[w]) = HandleOf(ids[v]) => w = v
    PROVE  IsFound(ids, v, HandleOf(ids[v]))
<1>1. PICK i \in DOMAIN m_users : m_users[i] = v
  BY ConnectedUsers
<1>2. ASSUME NEW j \in 1..(i - 1)
      PROVE  HandleOf(ids[m_users[j]]) # HandleOf(ids[v])
  <2>1. j \in DOMAIN m_users /\ j # i
    BY ConnectedUsers
  <2>2. m_users[j] # v
    BY <1>1, <2>1 DEF ConnectedOnce
  <2>3. m_users[j] \in Connected
    BY <2>1, ConnectedUsers
  <2> QED
    BY <2>2, <2>3
<1> QED
  BY <1>1, <1>2 DEF IsFound

(* A user whose handle is its own is found by it.                          *)
LEMMA OwnIsFound ==
    ASSUME TypeOK, ConnectedOnce, BlankBeforeLogin, AccountOnlineOnce,
           NEW v \in Users, accountId[v] # NoAccount, IsOwn(accountId[v])
    PROVE  v \in Connected /\ IsFound(accountId, v, ChatHandle(v))
<1>1. v \in Connected /\ accountId[v] \in Accounts
  BY DEF TypeOK, BlankBeforeLogin
<1>2. ASSUME NEW w \in Connected, HandleOf(accountId[w]) = HandleOf(accountId[v])
      PROVE  w = v
  <2>1. accountId[w] \in Accounts \cup {NoAccount}
    BY ConnectedUsers DEF TypeOK
  <2>2. accountId[w] \in Accounts
    BY <1>1, <1>2, <2>1, HandleTypes
  <2>3. accountId[w] = accountId[v]
    BY <1>1, <1>2, <2>2, HandleTypes DEF IsOwn
  <2> QED
    BY <1>1, <2>3 DEF AccountOnlineOnce, LoggedIn
<1> QED
  BY <1>1, <1>2, AloneIsFound DEF ChatHandle

----------------------------------------------------------------------------
(* The invariant, action by action.                                        *)

LEMMA InitIInv == Init => IInv
<1> SUFFICES ASSUME Init PROVE IInv
  OBVIOUS
<1> USE DEF Init, NoLists
<1>1. Connected = {}
  BY DEF Connected, ToSet
<1>2. TypeOK
  BY DEF TypeOK
<1>3. ConnectedOnce
  BY DEF ConnectedOnce
<1>4. BlankBeforeLogin /\ RowsOfAccounts /\ OwedByFriend
  BY DEF BlankBeforeLogin, RowsOfAccounts, OwedByFriend, Owed
<1>5. AccountOnlineOnce /\ ListsAreRows
  BY <1>1 DEF AccountOnlineOnce, ListsAreRows
<1> QED
  BY <1>2, <1>3, <1>4, <1>5 DEF IInv

LEMMA RestartIInv == IInv /\ Restart => IInv'
<1> SUFFICES ASSUME IInv, Restart PROVE IInv'
  OBVIOUS
<1> USE DEF Restart, NoLists, tables
<1>1. Connected' = {}
  BY DEF Connected, ToSet
<1>2. TypeOK'
  BY DEF TypeOK, IInv
<1>3. ConnectedOnce'
  BY DEF ConnectedOnce
<1>4. BlankBeforeLogin' /\ OwedByFriend'
  BY DEF BlankBeforeLogin, OwedByFriend, Owed
<1>5. RowsOfAccounts'
  BY DEF RowsOfAccounts, IInv
<1>6. AccountOnlineOnce' /\ ListsAreRows'
  BY <1>1 DEF AccountOnlineOnce, ListsAreRows
<1> QED
  BY <1>2, <1>3, <1>4, <1>5, <1>6 DEF IInv

LEMMA ConnectIInv == ASSUME NEW u \in Users, IInv, Connect(u) PROVE IInv'
<1> USE DEF Connect, tables, lists, seen
<1>1. /\ m_users' \in Seq(Users)
      /\ Connected' = Connected \cup {u}
      /\ ConnectedOnce'
  <2>1. m_users \in Seq(Users)
    BY DEF IInv, TypeOK
  <2>2. \A i, j \in DOMAIN m_users : m_users[i] = m_users[j] => i = j
    BY DEF IInv, ConnectedOnce
  <2>3. u \notin ToSet(m_users)
    BY DEF Connected
  <2> QED
    BY <2>1, <2>2, <2>3, AppendUser DEF Connected, ConnectedOnce
<1>2. TypeOK'
  BY <1>1 DEF IInv, TypeOK
<1>3. BlankBeforeLogin' /\ RowsOfAccounts'
  BY <1>1 DEF IInv, BlankBeforeLogin, Owed, RowsOfAccounts
<1>4. accountId[u] = NoAccount
  BY DEF IInv, BlankBeforeLogin
<1>5. AccountOnlineOnce' /\ ListsAreRows'
  BY <1>1, <1>4 DEF IInv, AccountOnlineOnce, ListsAreRows, LoggedIn
<1>6. OwedByFriend'
  BY <1>1 DEF IInv, OwedByFriend, Owed, ChatHandle, HandleOf, IsOwn
<1> QED
  BY <1>1, <1>2, <1>3, <1>5, <1>6 DEF IInv

LEMMA LoginIInv ==
    ASSUME NEW u \in Users, NEW a \in Accounts, IInv, Login(u, a)
    PROVE  IInv'
<1>1. PICK friends \in SUBSET friendRows[a], ignored \in SUBSET ignoreRows[a] :
          /\ friendList' = [friendList EXCEPT ![u] = friends]
          /\ ignoreList' = [ignoreList EXCEPT ![u] = ignored]
          /\ unsure' = IF friends = friendRows[a] /\ ignored = ignoreRows[a]
                       THEN unsure \ {u} ELSE unsure \cup {u}
          /\ TellOnline(Told(accountId', friends), Handle[a], LostWith(u))
  BY DEF Login
<1>2. /\ u \in Connected /\ a \in accounts
      /\ \A v \in Connected : accountId[v] # a
      /\ accountId' = [accountId EXCEPT ![u] = a]
      /\ UNCHANGED <<m_users, tables>>
      /\ Connected' = Connected
  BY DEF Login, Connected
<1>3. TypeOK /\ ConnectedOnce /\ BlankBeforeLogin /\ RowsOfAccounts
      /\ AccountOnlineOnce /\ ListsAreRows /\ OwedByFriend
  BY DEF IInv
<1>4. friends \in SUBSET Handles /\ ignored \in SUBSET Handles /\ Handle[a] \in Handles
  BY <1>3, HandleTypes DEF TypeOK
<1>5. TypeOK'
  BY <1>1, <1>2, <1>3, <1>4 DEF TypeOK, TellOnline, LostWith, tables
<1>6. ConnectedOnce' /\ RowsOfAccounts'
  BY <1>2, <1>3 DEF ConnectedOnce, RowsOfAccounts, tables
<1>7. BlankBeforeLogin'
  <2> SUFFICES ASSUME NEW v \in Users
               PROVE  IF accountId'[v] = NoAccount
                      THEN /\ friendList'[v] = {} /\ ignoreList'[v] = {} /\ v \notin unsure'
                           /\ Owed(v)' = {}
                      ELSE v \in Connected' /\ accountId'[v] \in accounts'
    BY DEF BlankBeforeLogin
  <2>1. CASE v = u
    BY <1>2, <1>3, <2>1, AccountsAssumption DEF TypeOK, tables
  <2>2. CASE v # u
    <3>1. accountId'[v] = accountId[v] /\ friendList'[v] = friendList[v]
          /\ ignoreList'[v] = ignoreList[v] /\ (v \in unsure' <=> v \in unsure)
      BY <1>1, <1>2, <1>3, <2>2 DEF TypeOK
    <3>2. CASE accountId[v] = NoAccount
      <4>1. ASSUME NEW k \in friends PROVE ~IsFound(accountId', v, k)
        <5>1. HandleOf(accountId'[v]) # k
          BY <1>4, <3>1, <3>2, HandleTypes
        <5> QED
          BY <1>3, <5>1, FoundIs
      <4>2. v \notin Told(accountId', friends)
        BY <4>1 DEF Told
      <4>3. Owed(v) = {}
        BY <1>3, <3>2 DEF BlankBeforeLogin
      <4>4. shown'[v] = shown[v] /\ dropped[v] \subseteq dropped'[v]
        BY <1>1, <2>2, <4>2 DEF TellOnline, LostWith
      <4>5. Owed(v)' = {}
        BY <4>3, <4>4 DEF Owed
      <4> QED
        BY <1>3, <3>1, <3>2, <4>5 DEF BlankBeforeLogin
    <3>3. CASE accountId[v] # NoAccount
      BY <1>2, <1>3, <3>1, <3>3 DEF BlankBeforeLogin, tables
    <3> QED
      BY <3>2, <3>3
  <2> QED
    BY <2>1, <2>2
<1>8. AccountOnlineOnce'
  BY <1>2, <1>3, ConnectedUsers DEF TypeOK, AccountOnlineOnce, LoggedIn
<1>9. ListsAreRows'
  <2> SUFFICES ASSUME NEW v \in Connected', v \notin unsure', LoggedIn(v)'
               PROVE  /\ friendList'[v] = friendRows'[accountId'[v]]
                      /\ ignoreList'[v] = ignoreRows'[accountId'[v]]
    BY DEF ListsAreRows
  <2>1. v \in Users
    BY <1>2, <1>3, ConnectedUsers
  <2>2. CASE v = u
    BY <1>1, <1>2, <1>3, <2>2 DEF TypeOK, tables
  <2>3. CASE v # u
    <3>1. /\ accountId'[v] = accountId[v] /\ friendList'[v] = friendList[v]
          /\ ignoreList'[v] = ignoreList[v] /\ v \notin unsure
      BY <1>1, <1>2, <1>3, <2>1, <2>3 DEF TypeOK
    <3> QED
      BY <1>2, <1>3, <3>1 DEF ListsAreRows, LoggedIn, tables
  <2> QED
    BY <2>2, <2>3
<1>10. OwedByFriend'
  <2> SUFFICES ASSUME NEW v \in Users, NEW h \in Owed(v)', IsOwn(accountId'[v])
               PROVE  \E w \in Connected' :
                         ChatHandle(w)' = h /\ ChatHandle(v)' \in friendList'[w]
    BY DEF OwedByFriend, IsOwn
  <2>0. ChatHandle(u)' = Handle[a] /\ friendList'[u] = friends
    BY <1>1, <1>2, <1>3, HandleTypes DEF TypeOK, ChatHandle
  <2>1. CASE v \in Told(accountId', friends) /\ h = Handle[a]
    <3>1. PICK k \in friends : IsFound(accountId', v, k)
      BY <2>1 DEF Told
    <3>2. HandleOf(accountId'[v]) = k
      BY <1>3, <3>1, FoundIs
    <3>3. ChatHandle(v)' = k
      BY <3>2 DEF ChatHandle, HandleOf
    <3> QED
      BY <1>2, <2>0, <2>1, <3>3
  <2>2. CASE ~(v \in Told(accountId', friends) /\ h = Handle[a])
    <3>1. v # u /\ h \in Owed(v) /\ h # ChatHandle(u)
      <4>1. /\ shown' = [x \in Users |-> IF x \in Told(accountId', friends)
                                         THEN shown[x] \cup {Handle[a]} ELSE shown[x]]
            /\ dropped' = [x \in Users |-> IF x \in Told(accountId', friends)
                                           THEN LostWith(u)[x] \ {Handle[a]} ELSE LostWith(u)[x]]
        BY <1>1 DEF TellOnline
      <4>2. h \in shown'[v] /\ h \notin dropped'[v]
        BY DEF Owed
      <4>3. h \in shown[v] /\ h \notin LostWith(u)[v]
        <5>1. CASE v \in Told(accountId', friends)
          BY <2>2, <4>1, <4>2, <5>1
        <5>2. CASE v \notin Told(accountId', friends)
          BY <4>1, <4>2, <5>2
        <5> QED
          BY <5>1, <5>2
      <4> QED
        BY <4>3 DEF LostWith, Owed
    <3>2. accountId'[v] = accountId[v]
      BY <1>2, <1>3, <3>1 DEF TypeOK
    <3>3. PICK w \in Connected : ChatHandle(w) = h /\ ChatHandle(v) \in friendList[w]
      BY <1>3, <3>1, <3>2 DEF OwedByFriend
    <3>4. w # u /\ w \in Users
      BY <1>3, <3>1, <3>3, ConnectedUsers
    <3>5. ChatHandle(w)' = h /\ ChatHandle(v)' = ChatHandle(v) /\ friendList'[w] = friendList[w]
      BY <1>1, <1>2, <1>3, <3>2, <3>3, <3>4 DEF TypeOK, ChatHandle, HandleOf
    <3> QED
      BY <1>2, <3>3, <3>5
  <2> QED
    BY <2>1, <2>2
<1> QED
  BY <1>5, <1>6, <1>7, <1>8, <1>9, <1>10 DEF IInv

LEMMA CreateAccountIInv ==
    ASSUME NEW u \in Users, NEW a \in Accounts, IInv, CreateAccount(u, a)
    PROVE  IInv'
<1>1. /\ u \in Connected /\ a \notin accounts
      /\ accounts' = accounts \cup {a}
      /\ accountId' = [accountId EXCEPT ![u] = a]
      /\ unsure' = IF friendList[u] = {} /\ ignoreList[u] = {}
                   THEN unsure \ {u} ELSE unsure \cup {u}
      /\ dropped' = LostWith(u)
      /\ UNCHANGED <<m_users, friendList, ignoreList, friendRows, ignoreRows, shown>>
      /\ Connected' = Connected
  BY DEF CreateAccount, Connected, lists
<1>2. TypeOK /\ ConnectedOnce /\ BlankBeforeLogin /\ RowsOfAccounts
      /\ AccountOnlineOnce /\ ListsAreRows /\ OwedByFriend
  BY DEF IInv
<1>3. TypeOK'
  BY <1>1, <1>2 DEF TypeOK, LostWith
<1>4. ConnectedOnce' /\ RowsOfAccounts'
  BY <1>1, <1>2 DEF ConnectedOnce, RowsOfAccounts
<1>5. BlankBeforeLogin'
  <2> SUFFICES ASSUME NEW v \in Users
               PROVE  IF accountId'[v] = NoAccount
                      THEN /\ friendList'[v] = {} /\ ignoreList'[v] = {} /\ v \notin unsure'
                           /\ Owed(v)' = {}
                      ELSE v \in Connected' /\ accountId'[v] \in accounts'
    BY DEF BlankBeforeLogin
  <2>1. CASE v = u
    BY <1>1, <1>2, <2>1, AccountsAssumption DEF TypeOK
  <2>2. CASE v # u
    <3>1. accountId'[v] = accountId[v] /\ (v \in unsure' <=> v \in unsure)
          /\ dropped[v] \subseteq dropped'[v]
      BY <1>1, <1>2, <2>2 DEF TypeOK, LostWith
    <3> QED
      BY <1>1, <1>2, <3>1 DEF BlankBeforeLogin, Owed
  <2> QED
    BY <2>1, <2>2
<1>6. \A v \in Connected : accountId[v] # a
  BY <1>1, <1>2, ConnectedUsers, AccountsAssumption DEF BlankBeforeLogin
<1>7. AccountOnlineOnce'
  BY <1>1, <1>2, <1>6, ConnectedUsers DEF TypeOK, AccountOnlineOnce, LoggedIn
<1>8. ListsAreRows'
  <2> SUFFICES ASSUME NEW v \in Connected', v \notin unsure', LoggedIn(v)'
               PROVE  /\ friendList'[v] = friendRows'[accountId'[v]]
                      /\ ignoreList'[v] = ignoreRows'[accountId'[v]]
    BY DEF ListsAreRows
  <2>1. v \in Users
    BY <1>1, <1>2, ConnectedUsers
  <2>2. CASE v = u
    BY <1>1, <1>2, <2>2 DEF TypeOK, RowsOfAccounts
  <2>3. CASE v # u
    BY <1>1, <1>2, <2>1, <2>3 DEF TypeOK, ListsAreRows, LoggedIn
  <2> QED
    BY <2>2, <2>3
<1>9. OwedByFriend'
  <2> SUFFICES ASSUME NEW v \in Users, NEW h \in Owed(v)', IsOwn(accountId'[v])
               PROVE  \E w \in Connected' :
                         ChatHandle(w)' = h /\ ChatHandle(v)' \in friendList'[w]
    BY DEF OwedByFriend, IsOwn
  <2>1. v # u /\ h \in Owed(v) /\ h # ChatHandle(u)
    BY <1>1 DEF LostWith, Owed
  <2>2. accountId'[v] = accountId[v]
    BY <1>1, <1>2, <2>1 DEF TypeOK
  <2>3. PICK w \in Connected : ChatHandle(w) = h /\ ChatHandle(v) \in friendList[w]
    BY <1>2, <2>1, <2>2 DEF OwedByFriend
  <2>4. w # u /\ w \in Users
    BY <1>2, <2>1, <2>3, ConnectedUsers
  <2>5. ChatHandle(w)' = h /\ ChatHandle(v)' = ChatHandle(v)
    BY <1>1, <1>2, <2>2, <2>3, <2>4 DEF TypeOK, ChatHandle, HandleOf
  <2> QED
    BY <1>1, <2>3, <2>5
<1> QED
  BY <1>3, <1>4, <1>5, <1>7, <1>8, <1>9 DEF IInv

LEMMA RemoveUserIInv ==
    ASSUME NEW u \in Users, IInv, RemoveUser(u)
    PROVE  IInv'
<1>1. /\ accountId' = [accountId EXCEPT ![u] = NoAccount]
      /\ friendList' = [friendList EXCEPT ![u] = {}]
      /\ ignoreList' = [ignoreList EXCEPT ![u] = {}]
      /\ unsure' = unsure \ {u}
      /\ TellOffline(u, Told(accountId, friendList[u]))
      /\ UNCHANGED <<accounts, friendRows, ignoreRows>>
  BY DEF RemoveUser, tables
<1>2. TypeOK /\ ConnectedOnce /\ BlankBeforeLogin /\ RowsOfAccounts
      /\ AccountOnlineOnce /\ ListsAreRows /\ OwedByFriend
  BY DEF IInv
<1>3. m_users' \in Seq(Users) /\ Connected' = Connected \ {u} /\ ConnectedOnce'
  <2>1. PICK i \in DOMAIN m_users : m_users[i] = u /\ m_users' = RemoveAt(m_users, i)
    BY DEF RemoveUser
  <2>2. m_users \in Seq(Users) /\ \A k, j \in DOMAIN m_users : m_users[k] = m_users[j] => k = j
    BY <1>2 DEF TypeOK, ConnectedOnce
  <2> QED
    BY <2>1, <2>2, RemoveUserAt DEF Connected, ConnectedOnce
<1>4. TypeOK'
  BY <1>1, <1>2, <1>3 DEF TypeOK, TellOffline
<1>5. ASSUME NEW v \in Users, v # u
      PROVE  /\ accountId'[v] = accountId[v] /\ friendList'[v] = friendList[v]
             /\ ignoreList'[v] = ignoreList[v] /\ (v \in unsure' <=> v \in unsure)
             /\ shown'[v] \subseteq shown[v] /\ dropped'[v] \subseteq dropped[v]
             /\ ChatHandle(v)' = ChatHandle(v)
             /\ Owed(v)' = IF v \in Told(accountId, friendList[u])
                           THEN Owed(v) \ {ChatHandle(u)} ELSE Owed(v)
  <2>1. /\ accountId'[v] = accountId[v] /\ friendList'[v] = friendList[v]
        /\ ignoreList'[v] = ignoreList[v] /\ (v \in unsure' <=> v \in unsure)
    BY <1>1, <1>2, <1>5 DEF TypeOK
  <2>2. CASE v \in Told(accountId, friendList[u])
    <3>1. shown'[v] = shown[v] \ {ChatHandle(u)} /\ dropped'[v] = dropped[v] \ {ChatHandle(u)}
      BY <1>1, <1>5, <2>2 DEF TellOffline
    <3> QED
      BY <2>1, <2>2, <3>1 DEF Owed, ChatHandle, HandleOf
  <2>3. CASE v \notin Told(accountId, friendList[u])
    <3>1. shown'[v] = shown[v] /\ dropped'[v] = dropped[v]
      BY <1>1, <1>5, <2>3 DEF TellOffline
    <3> QED
      BY <2>1, <2>3, <3>1 DEF Owed, ChatHandle, HandleOf
  <2> QED
    BY <2>2, <2>3
<1>6. BlankBeforeLogin'
  <2> SUFFICES ASSUME NEW v \in Users
               PROVE  IF accountId'[v] = NoAccount
                      THEN /\ friendList'[v] = {} /\ ignoreList'[v] = {} /\ v \notin unsure'
                           /\ Owed(v)' = {}
                      ELSE v \in Connected' /\ accountId'[v] \in accounts'
    BY DEF BlankBeforeLogin
  <2>1. CASE v = u
    BY <1>1, <1>2, <2>1 DEF TypeOK, TellOffline, Owed
  <2>2. CASE v # u
    BY <1>1, <1>2, <1>3, <1>5, <2>2 DEF BlankBeforeLogin
  <2> QED
    BY <2>1, <2>2
<1>7. RowsOfAccounts'
  BY <1>1, <1>2 DEF RowsOfAccounts
<1>8. \A v \in Connected' : v \in Connected /\ v \in Users /\ v # u
  BY <1>2, <1>3, ConnectedUsers
<1>9. AccountOnlineOnce' /\ ListsAreRows'
  BY <1>1, <1>2, <1>5, <1>8 DEF AccountOnlineOnce, ListsAreRows, LoggedIn
<1>10. OwedByFriend'
  <2> SUFFICES ASSUME NEW v \in Users, NEW h \in Owed(v)', IsOwn(accountId'[v])
               PROVE  \E w \in Connected' :
                         ChatHandle(w)' = h /\ ChatHandle(v)' \in friendList'[w]
    BY DEF OwedByFriend, IsOwn
  <2>1. v # u
    BY <1>1 DEF TellOffline, Owed
  <2>2. h \in Owed(v) /\ IsOwn(accountId[v])
    BY <1>5, <2>1
  <2>3. PICK w \in Connected : ChatHandle(w) = h /\ ChatHandle(v) \in friendList[w]
    BY <1>2, <2>2 DEF OwedByFriend
  <2>4. CASE w = u
    <3>1. accountId[v] # NoAccount
      BY <1>2, <2>2 DEF BlankBeforeLogin, Owed
    <3>2. IsFound(accountId, v, ChatHandle(v))
      BY <1>2, <2>2, <3>1, OwnIsFound
    <3>3. v \in Told(accountId, friendList[u])
      BY <2>3, <2>4, <3>2 DEF Told
    <3>4. Owed(v)' = Owed(v) \ {h}
      BY <1>5, <2>1, <2>3, <2>4, <3>3
    <3> QED
      BY <3>4
  <2>5. CASE w # u
    BY <1>2, <1>3, <1>5, <2>1, <2>3, <2>5, ConnectedUsers
  <2> QED
    BY <2>4, <2>5
<1> QED
  BY <1>3, <1>4, <1>6, <1>7, <1>9, <1>10 DEF IInv

(* The four requests change the lists and rows of one account alike.       *)
LEMMA ListsStayRows ==
    ASSUME NEW u \in Users, IInv, LoggedIn(u),
           UNCHANGED <<m_users, accountId, accounts, unsure>>,
           NEW h \in Handles,
           \/ /\ friendRows' = With(friendRows, u, h)
              /\ friendList' = [friendList EXCEPT ![u] = @ \cup {h}]
              /\ UNCHANGED <<ignoreRows, ignoreList>>
           \/ /\ friendRows' = Less(friendRows, u, h)
              /\ friendList' = [friendList EXCEPT ![u] = @ \ {h}]
              /\ UNCHANGED <<ignoreRows, ignoreList>>
           \/ /\ ignoreRows' = With(ignoreRows, u, h)
              /\ ignoreList' = [ignoreList EXCEPT ![u] = @ \cup {h}]
              /\ UNCHANGED <<friendRows, friendList>>
           \/ /\ ignoreRows' = Less(ignoreRows, u, h)
              /\ ignoreList' = [ignoreList EXCEPT ![u] = @ \ {h}]
              /\ UNCHANGED <<friendRows, friendList>>,
           shown' = shown, dropped' \in [Users -> SUBSET Handles],
           \A v \in Users : Owed(v)' \subseteq Owed(v)
    PROVE  /\ TypeOK' /\ ConnectedOnce' /\ BlankBeforeLogin' /\ RowsOfAccounts'
           /\ AccountOnlineOnce' /\ ListsAreRows'
<1>1. TypeOK /\ ConnectedOnce /\ BlankBeforeLogin /\ RowsOfAccounts
      /\ AccountOnlineOnce /\ ListsAreRows
  BY DEF IInv
<1>2. /\ accountId[u] \in Accounts /\ accountId[u] \in accounts /\ u \in Connected
      /\ accountId[u] # NoAccount
  BY <1>1 DEF LoggedIn, BlankBeforeLogin, TypeOK
<1>3. Connected' = Connected
  BY DEF Connected
<1>4. TypeOK'
  BY <1>1, <1>2 DEF TypeOK, With, Less
<1>5. ConnectedOnce' /\ AccountOnlineOnce'
  BY <1>1, <1>3 DEF ConnectedOnce, AccountOnlineOnce, LoggedIn
<1>6. /\ \A v \in Users : v # u => friendList'[v] = friendList[v] /\ ignoreList'[v] = ignoreList[v]
      /\ \A a \in Accounts : a # accountId[u] =>
            friendRows'[a] = friendRows[a] /\ ignoreRows'[a] = ignoreRows[a]
  BY <1>1, <1>2 DEF TypeOK, With, Less
<1>7. BlankBeforeLogin'
  BY <1>1, <1>2, <1>3, <1>6 DEF BlankBeforeLogin
<1>8. RowsOfAccounts'
  BY <1>1, <1>2, <1>6 DEF RowsOfAccounts
<1>9. ListsAreRows'
  <2> SUFFICES ASSUME NEW v \in Connected, v \notin unsure, LoggedIn(v)
               PROVE  /\ friendList'[v] = friendRows'[accountId[v]]
                      /\ ignoreList'[v] = ignoreRows'[accountId[v]]
    BY <1>3 DEF ListsAreRows, LoggedIn
  <2>1. /\ friendList[v] = friendRows[accountId[v]] /\ ignoreList[v] = ignoreRows[accountId[v]]
        /\ v \in Users /\ accountId[v] \in Accounts
    BY <1>1, ConnectedUsers DEF ListsAreRows, LoggedIn, TypeOK
  <2>2. CASE v = u
    <3>1. /\ friendList \in [Users -> SUBSET Handles] /\ friendRows \in [Accounts -> SUBSET Handles]
          /\ ignoreList \in [Users -> SUBSET Handles] /\ ignoreRows \in [Accounts -> SUBSET Handles]
          /\ friendList[u] = friendRows[accountId[u]] /\ ignoreList[u] = ignoreRows[accountId[u]]
      BY <1>1, <2>1, <2>2 DEF TypeOK
    <3> DEFINE a == accountId[u]
    <3>2. \/ friendRows'[a] = friendRows[a] \cup {h} /\ friendList'[u] = friendList[u] \cup {h}
          \/ friendRows'[a] = friendRows[a] \ {h} /\ friendList'[u] = friendList[u] \ {h}
          \/ friendRows'[a] = friendRows[a] /\ friendList'[u] = friendList[u]
      BY <1>2, <3>1 DEF With, Less
    <3>3. \/ ignoreRows'[a] = ignoreRows[a] \cup {h} /\ ignoreList'[u] = ignoreList[u] \cup {h}
          \/ ignoreRows'[a] = ignoreRows[a] \ {h} /\ ignoreList'[u] = ignoreList[u] \ {h}
          \/ ignoreRows'[a] = ignoreRows[a] /\ ignoreList'[u] = ignoreList[u]
      BY <1>2, <3>1 DEF With, Less
    <3> QED
      BY <2>2, <3>1, <3>2, <3>3
  <2>3. CASE v # u
    <3>1. accountId[v] # accountId[u]
      BY <1>1, <1>2, <2>3 DEF AccountOnlineOnce, LoggedIn
    <3> QED
      BY <1>6, <2>1, <2>3, <3>1
  <2> QED
    BY <2>2, <2>3
<1> QED
  BY <1>4, <1>5, <1>7, <1>8, <1>9

LEMMA RequestIInv ==
    ASSUME NEW u \in Users, NEW h \in Handles, IInv,
           AddFriend(u, h) \/ RemoveFriend(u, h) \/ AddIgnore(u, h) \/ RemoveIgnore(u, h)
    PROVE  IInv'
<1>1. TypeOK /\ OwedByFriend
  BY DEF IInv
<1>2. LoggedIn(u) /\ UNCHANGED <<m_users, accountId, accounts, unsure>>
  BY DEF AddFriend, RemoveFriend, AddIgnore, RemoveIgnore
<1>3. /\ Connected' = Connected /\ \A v \in Users : ChatHandle(v)' = ChatHandle(v)
      /\ Connected \subseteq Users
  BY <1>1, <1>2, ConnectedUsers DEF Connected, ChatHandle, HandleOf
<1>4. CASE AddFriend(u, h)
  <2>1. /\ friendRows' = With(friendRows, u, h)
        /\ friendList' = [friendList EXCEPT ![u] = @ \cup {h}]
        /\ UNCHANGED <<ignoreRows, ignoreList, seen>>
    BY <1>4 DEF AddFriend
  <2>2. TypeOK' /\ ConnectedOnce' /\ BlankBeforeLogin' /\ RowsOfAccounts'
        /\ AccountOnlineOnce' /\ ListsAreRows'
    BY <1>1, <1>2, <2>1, ListsStayRows DEF TypeOK, seen, Owed
  <2>3. \A w \in Users : friendList[w] \subseteq friendList'[w]
    BY <1>1, <2>1 DEF TypeOK
  <2>4. OwedByFriend'
    BY <1>1, <1>2, <1>3, <2>1, <2>3 DEF OwedByFriend, Owed, seen, IsOwn
  <2> QED
    BY <2>2, <2>4 DEF IInv
<1>5. CASE RemoveFriend(u, h)
  <2>1. /\ friendRows' = Less(friendRows, u, h)
        /\ friendList' = [friendList EXCEPT ![u] = @ \ {h}]
        /\ dropped' = [v \in Users |-> IF ChatHandle(v) = h
                                       THEN dropped[v] \cup (shown[v] \cap {ChatHandle(u)})
                                       ELSE dropped[v]]
        /\ UNCHANGED <<ignoreRows, ignoreList, shown>>
    BY <1>5 DEF RemoveFriend
  <2>2. /\ dropped' \in [Users -> SUBSET Handles]
        /\ \A v \in Users : Owed(v)' \subseteq Owed(v)
        /\ \A v \in Users : ChatHandle(v) = h => ChatHandle(u) \notin Owed(v)'
    BY <1>1, <2>1 DEF TypeOK, Owed
  <2>3. TypeOK' /\ ConnectedOnce' /\ BlankBeforeLogin' /\ RowsOfAccounts'
        /\ AccountOnlineOnce' /\ ListsAreRows'
    BY <1>2, <2>1, <2>2, ListsStayRows
  <2>4. OwedByFriend'
    <3> SUFFICES ASSUME NEW v \in Users, NEW k \in Owed(v)', IsOwn(accountId'[v])
                 PROVE  \E w \in Connected' :
                           ChatHandle(w)' = k /\ ChatHandle(v)' \in friendList'[w]
      BY DEF OwedByFriend, IsOwn
    <3>1. PICK w \in Connected : ChatHandle(w) = k /\ ChatHandle(v) \in friendList[w]
      BY <1>1, <1>2, <2>2 DEF OwedByFriend
    <3>2. ~(w = u /\ ChatHandle(v) = h)
      BY <2>2, <3>1
    <3>3. ChatHandle(v) \in friendList'[w]
      BY <1>1, <1>3, <2>1, <3>1, <3>2 DEF TypeOK
    <3> QED
      BY <1>3, <3>1, <3>3
  <2> QED
    BY <2>3, <2>4 DEF IInv
<1>6. CASE AddIgnore(u, h)
  <2>1. /\ ignoreRows' = With(ignoreRows, u, h)
        /\ ignoreList' = [ignoreList EXCEPT ![u] = @ \cup {h}]
        /\ UNCHANGED <<friendRows, friendList, seen>>
    BY <1>6 DEF AddIgnore
  <2>2. TypeOK' /\ ConnectedOnce' /\ BlankBeforeLogin' /\ RowsOfAccounts'
        /\ AccountOnlineOnce' /\ ListsAreRows'
    BY <1>1, <1>2, <2>1, ListsStayRows DEF TypeOK, seen, Owed
  <2>3. OwedByFriend'
    BY <1>1, <1>2, <1>3, <2>1 DEF OwedByFriend, Owed, seen, IsOwn
  <2> QED
    BY <2>2, <2>3 DEF IInv
<1>7. CASE RemoveIgnore(u, h)
  <2>1. /\ ignoreRows' = Less(ignoreRows, u, h)
        /\ ignoreList' = [ignoreList EXCEPT ![u] = @ \ {h}]
        /\ UNCHANGED <<friendRows, friendList, seen>>
    BY <1>7 DEF RemoveIgnore
  <2>2. TypeOK' /\ ConnectedOnce' /\ BlankBeforeLogin' /\ RowsOfAccounts'
        /\ AccountOnlineOnce' /\ ListsAreRows'
    BY <1>1, <1>2, <2>1, ListsStayRows DEF TypeOK, seen, Owed
  <2>3. OwedByFriend'
    BY <1>1, <1>2, <1>3, <2>1 DEF OwedByFriend, Owed, seen, IsOwn
  <2> QED
    BY <2>2, <2>3 DEF IInv
<1> QED
  BY <1>4, <1>5, <1>6, <1>7

----------------------------------------------------------------------------
LEMMA NextIInv == IInv /\ [Next]_vars => IInv'
<1> SUFFICES ASSUME IInv, [Next]_vars PROVE IInv'
  OBVIOUS
<1>1. CASE Restart
  BY <1>1, RestartIInv
<1>2. ASSUME NEW u \in Users, Connect(u) PROVE IInv'
  BY <1>2, ConnectIInv
<1>3. ASSUME NEW u \in Users, RemoveUser(u) PROVE IInv'
  BY <1>3, RemoveUserIInv
<1>4. ASSUME NEW u \in Users, NEW a \in Accounts, Login(u, a) \/ CreateAccount(u, a)
      PROVE  IInv'
  BY <1>4, LoginIInv, CreateAccountIInv
<1>5. ASSUME NEW u \in Users, NEW h \in Handles,
             AddFriend(u, h) \/ RemoveFriend(u, h) \/ AddIgnore(u, h) \/ RemoveIgnore(u, h)
      PROVE  IInv'
  BY <1>5, RequestIInv
<1>6. CASE UNCHANGED vars
  <2>1. UNCHANGED <<m_users, accountId, friendList, ignoreList, accounts, friendRows,
                    ignoreRows, unsure, shown, dropped>>
    BY <1>6 DEF vars, lists, tables, seen
  <2>2. Connected' = Connected
    BY <2>1 DEF Connected
  <2>3. TypeOK' /\ ConnectedOnce' /\ RowsOfAccounts'
    BY <2>1 DEF IInv, TypeOK, ConnectedOnce, RowsOfAccounts
  <2>6. BlankBeforeLogin'
    BY <2>1, <2>2 DEF IInv, BlankBeforeLogin, Owed
  <2>4. AccountOnlineOnce' /\ ListsAreRows'
    BY <2>1, <2>2 DEF IInv, AccountOnlineOnce, ListsAreRows, LoggedIn
  <2>5. OwedByFriend'
    BY <2>1, <2>2 DEF IInv, OwedByFriend, Owed, ChatHandle, HandleOf, IsOwn
  <2> QED
    BY <2>3, <2>4, <2>5, <2>6 DEF IInv
<1> QED
  BY <1>1, <1>2, <1>3, <1>4, <1>5, <1>6 DEF Next

(* The inductive invariant holds for any users, accounts and handles.      *)
THEOREM SocialIInv == Spec => []IInv
BY InitIInv, NextIInv, PTL DEF Spec

(* The lists in memory are the rows of the account (RequestAddFriend.cpp,  *)
(* RequestRemoveFriend.cpp, RequestAddIgnore.cpp, RequestRemoveIgnore.cpp, *)
(* RequestLogin.cpp:70).                                                   *)
THEOREM SocialListsAreRows == Spec => []ListsAreRows
<1>1. IInv => ListsAreRows
  BY DEF IInv
<1> QED
  BY <1>1, SocialIInv, PTL

(* A user that was told a handle is online is told when it no longer is,   *)
(* unless one of the requests that tell nobody came between, or another    *)
(* account has its own handle (NotifyFriendsOnlineStatus from              *)
(* RequestLogin.cpp:76 and from RealmUserManager.cpp:66).                  *)
THEOREM SocialShownUnlessDropped == Spec => []ShownUnlessDropped
<1>1. IInv => ShownUnlessDropped
  BY ConnectedUsers DEF IInv, OwedByFriend, ShownUnlessDropped
<1> QED
  BY <1>1, SocialIInv, PTL
=============================================================================
