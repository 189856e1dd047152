----------------------- MODULE CharacterSaves_proofs -----------------------
(***************************************************************************)
(* Proofs that the invariants of CharacterSaves hold for any users,        *)
(* accounts and uploads.  The properties about rows hold because what a    *)
(* task has collected is what its user's client is sending now             *)
(* (TasksAreOfUploads); that is kept because a session id is given out     *)
(* once (SessionsApart) and an upload is begun once (UploadsBegun).        *)
(***************************************************************************)
EXTENDS CharacterSaves, TLAPS

LEMMA InitIInv == Init => IInv
<1> SUFFICES ASSUME Init PROVE IInv
    OBVIOUS
<1> USE DEF Init, NoSession, NoUpload, NoCharacter
<1>1. TypeOK
  <2>1. nextSession \in 1..(MaxSessions + 1) /\ nextUpload \in 1..(MaxUploads + 1)
      BY BoundsAssumption
  <2>. QED
      BY <2>1 DEF TypeOK
<1>2. SessionsApart /\ AccountsKnown /\ AccountOnlineOnce
    BY DEF SessionsApart, AccountsKnown, AccountOnlineOnce
<1>3. UploadsBegun
    BY DEF UploadsBegun, Uploads
<1>4. NamelessApart /\ TasksAreOfUploads
    BY DEF NamelessApart, TasksAreOfUploads
<1>5. RowsAreWholeUploads /\ NewCharacterStaysInAccount
    BY DEF RowsAreWholeUploads, NewCharacterStaysInAccount
<1>. QED
    BY <1>1, <1>2, <1>3, <1>4, <1>5 DEF IInv

(* The shape of a task and of a row, and what a chunk does to the data. *)
LEMMA TaskShape ==
    ASSUME TypeOK, NEW s \in Sessions \cup {NoSession}, tasks[s] # NoTask
    PROVE  tasks[s] \in Task /\ tasks[s].data \in Data
BY DEF TypeOK, Task

LEMMA RowShape ==
    ASSUME TypeOK, NEW c \in Rows, row[c] # NoRow
    PROVE  row[c] \in Row
BY DEF TypeOK

LEMMA ARowIsNotNoRow ==
    ASSUME NEW x \in Row PROVE x # NoRow /\ x.account # NoAccount
BY AccountsAssumption DEF Row, NoRow

LEMMA ChunkShape ==
    ASSUME NEW data \in Data, NEW n \in Uploads, NEW size \in 0..Size
    PROVE  /\ WithChunk(data, n, size) \in Data
           /\ WithChunk(data, n, size).from \subseteq data.from \cup {n}
<1>1. CASE size = 0
    BY <1>1 DEF WithChunk
<1>2. CASE size # 0
  <2> DEFINE sum == IF data.size + size < Size THEN data.size + size ELSE Size
             from == data.from \cup {n}
  <2>1. data.from \subseteq Uploads /\ data.size \in 0..Size
      BY DEF Data
  <2>2. sum \in 0..Size
      BY <2>1, SizeAssumption
  <2>3. WithChunk(data, n, size) = [from |-> from, size |-> sum]
      BY <1>2 DEF WithChunk
  <2>4. from \in SUBSET Uploads
      BY <2>1
  <2> HIDE DEF sum, from
  <2>5. [from |-> from, size |-> sum] \in Data
      BY <2>2, <2>4 DEF Data
  <2>. QED
      BY <2>3, <2>5 DEF from
<1>. QED
    BY <1>1, <1>2

LEMMA NoDataShape == NoData \in Data
BY SizeAssumption DEF NoData, Data

(* A user that has no task gets no part of the invariant to keep: Connect, *)
(* RemoveUser and GetCharacterData.                                        *)
LEMMA UserStep ==
    ASSUME IInv, status' \in [Users -> {"absent", "online", "removed"}],
           characterId' \in [Users -> Rows \cup {NoCharacter}],
           \A v \in Users : status'[v] = "online" =>
              status[v] = "online" \/ accountId[v] = NoAccount,
           \A v \in Users : status'[v] = "absent" => status[v] = "absent",
           UNCHANGED <<sessionId, accountId, tasks, nextSession, tables, uploadVars>>
    PROVE  IInv'
<1> USE DEF IInv, tables, uploadVars
<1>1. TypeOK'
    BY DEF TypeOK
<1>2. SessionsApart' /\ AccountsKnown' /\ UploadsBegun' /\ NamelessApart'
    BY DEF SessionsApart, AccountsKnown, UploadsBegun, NamelessApart
<1>3. AccountOnlineOnce'
    BY DEF AccountOnlineOnce
<1>4. TasksAreOfUploads'
    BY DEF TasksAreOfUploads, TaskIsOfUpload
<1>5. RowsAreWholeUploads' /\ NewCharacterStaysInAccount'
    BY DEF RowsAreWholeUploads, NewCharacterStaysInAccount, Named
<1>. QED
    BY <1>1, <1>2, <1>3, <1>4, <1>5

LEMMA LogInStep ==
    ASSUME IInv, NEW u \in Users, NEW a \in Accounts,
           status[u] = "online", LogIn(u, a), a \in accounts', accounts \subseteq accounts',
           accounts' \subseteq Accounts,
           \A v \in Users : status[v] = "online" => accountId[v] # a,
           UNCHANGED <<status, characterId, tasks, row, uploadVars>>
    PROVE  IInv'
<1> USE DEF IInv, uploadVars
<1>1. /\ nextSession \in Sessions /\ nextSession' = nextSession + 1
      /\ nextSession # NoSession
      /\ \A v \in Users : /\ sessionId'[v] = IF v = u THEN nextSession ELSE sessionId[v]
                          /\ accountId'[v] = IF v = u THEN a ELSE accountId[v]
    BY DEF LogIn, TypeOK, Sessions, NoSession
<1>2. TypeOK'
  <2>1. nextSession' \in 1..(MaxSessions + 1)
      BY <1>1, BoundsAssumption DEF Sessions
  <2>2. /\ sessionId' \in [Users -> Sessions \cup {NoSession}]
        /\ accountId' \in [Users -> Accounts \cup {NoAccount}]
      BY DEF LogIn, TypeOK
  <2>. QED
      BY <2>1, <2>2 DEF TypeOK
<1>3. SessionsApart'
  <2>1. \A v \in Users : sessionId[v] \in Int /\ sessionId[v] < nextSession
      BY DEF SessionsApart, TypeOK, Sessions, NoSession
  <2>2. nextSession \in Int
      BY DEF TypeOK
  <2>3. \A v \in Users : sessionId'[v] < nextSession'
      BY <1>1, <2>1, <2>2
  <2>4. \A v, w \in Users :
           sessionId'[v] = sessionId'[w] /\ sessionId'[v] # NoSession => v = w
      BY <1>1, <2>1, <2>2 DEF SessionsApart
  <2>5. \A s \in Sessions : s >= nextSession' => tasks'[s] = NoTask
      BY <1>1, <2>2 DEF SessionsApart, Sessions
  <2>. QED
      BY <2>3, <2>4, <2>5 DEF SessionsApart
<1>4. AccountsKnown'
    BY <1>1 DEF AccountsKnown
<1>5. AccountOnlineOnce'
    BY <1>1 DEF AccountOnlineOnce
<1>6. UploadsBegun'
    BY DEF UploadsBegun
<1>7. NamelessApart'
    BY <1>1 DEF NamelessApart
<1>8. tasks[nextSession] = NoTask
    BY <1>1 DEF SessionsApart, Sessions
<1>9. TasksAreOfUploads'
    BY <1>1, <1>8 DEF TasksAreOfUploads, TaskIsOfUpload
<1>10. RowsAreWholeUploads' /\ NewCharacterStaysInAccount'
    BY DEF RowsAreWholeUploads, NewCharacterStaysInAccount, Named
<1>. QED
    BY <1>2, <1>3, <1>4, <1>5, <1>6, <1>7, <1>9, <1>10

LEMMA RestartStep == ASSUME IInv, Restarted PROVE IInv'
<1> USE DEF IInv, Restarted, tables
<1>1. TypeOK'
    BY DEF TypeOK
<1>2. SessionsApart'
    BY DEF SessionsApart, TypeOK, NoSession
<1>3. AccountsKnown' /\ AccountOnlineOnce'
    BY DEF AccountsKnown, AccountOnlineOnce
<1>4. UploadsBegun'
    BY DEF UploadsBegun
<1>5. NamelessApart' /\ TasksAreOfUploads'
    BY DEF NamelessApart, TasksAreOfUploads
<1>6. RowsAreWholeUploads' /\ NewCharacterStaysInAccount'
    BY DEF RowsAreWholeUploads, NewCharacterStaysInAccount, Named
<1>. QED
    BY <1>1, <1>2, <1>3, <1>4, <1>5, <1>6

(* An upload is begun under the session of its owner, with a task that     *)
(* takes the place of the session's.                                       *)
LEMMA BeginStep ==
    ASSUME IInv, NEW u \in Users, NEW target \in Users, NEW type \in {"new", "save"},
           NEW meta \in BOOLEAN, NEW size \in 0..Size,
           type = "new" => target = u, Begin(u, target, type, meta, size)
    PROVE  IInv'
<1> USE DEF IInv
<1> DEFINE s == sessionId[u]
           n == nextUpload
           data == WithChunk(NoData, n, size)
           task == [type |-> type, target |-> target, meta |-> meta,
                    character |-> IF type = "new" THEN NoCharacter ELSE characterId[target],
                    data |-> data]
           upload == [type |-> type, session |-> s,
                      account |-> accountId[target], character |-> characterId[target]]
<1>1. /\ n \in Uploads /\ n # NoUpload /\ n \in Int /\ nextUpload' = n + 1
      /\ s \in Sessions \cup {NoSession}
      /\ tasks' = [tasks EXCEPT ![s] = task]
      /\ begun' = [begun EXCEPT ![n] = upload]
      /\ sending' = [sending EXCEPT ![u] = n]
      /\ UNCHANGED <<userVars, nextSession, tables, stored>>
    BY DEF Begin, TypeOK, Uploads, NoUpload
<1>2. data \in Data /\ data.from \subseteq {n}
    BY <1>1, NoDataShape, ChunkShape DEF NoData
<1> HIDE DEF data
<1>3. task \in Task /\ upload \in Upload
    BY <1>1, <1>2 DEF Task, Upload, TypeOK
<1>4. task # NoTask /\ upload # Unbegun
    BY <1>3 DEF Task, NoTask, Upload, Unbegun
<1>5. /\ task.type = type /\ task.target = target /\ task.data = data
      /\ upload.type = type /\ upload.session = s /\ upload.account = accountId[target]
    OBVIOUS
<1> HIDE DEF task, upload, s, n
<1>6. /\ \A r \in Sessions \cup {NoSession} : tasks'[r] = IF r = s THEN task ELSE tasks[r]
      /\ \A k \in Uploads : begun'[k] = IF k = n THEN upload ELSE begun[k]
      /\ \A v \in Users : sending'[v] = IF v = u THEN n ELSE sending[v]
    BY <1>1 DEF TypeOK
<1>7. TypeOK'
  <2>1. nextUpload' \in 1..(MaxUploads + 1)
      BY <1>1, BoundsAssumption DEF Uploads
  <2>2. /\ tasks' \in [Sessions \cup {NoSession} -> Task \cup {NoTask}]
        /\ begun' \in [Uploads -> Upload \cup {Unbegun}]
        /\ sending' \in [Users -> Uploads \cup {NoUpload}]
      BY <1>1, <1>3 DEF TypeOK
  <2>. QED
      BY <1>1, <2>1, <2>2 DEF TypeOK, userVars, tables
<1>8. SessionsApart'
  <2>1. s < nextSession /\ s \in Int /\ nextSession \in Int
      BY <1>1 DEF SessionsApart, TypeOK, s, Sessions, NoSession
  <2>2. \A r \in Sessions : r >= nextSession' => tasks'[r] = NoTask
      BY <1>1, <1>6, <2>1 DEF SessionsApart, userVars, Sessions
  <2>. QED
      BY <1>1, <2>2 DEF SessionsApart, userVars
<1>9. AccountsKnown' /\ AccountOnlineOnce'
    BY <1>1 DEF AccountsKnown, AccountOnlineOnce, userVars, tables
<1>10. /\ \A k \in Uploads : k < n => begun'[k] = begun[k]
       /\ \A k \in Uploads : Named(k)' => Named(k) \/ k = n
    BY <1>1, <1>6 DEF Named, NoSession
<1>11. \A v \in Users : sending[v] # NoUpload => sending[v] \in Uploads /\ sending[v] < n
    BY DEF UploadsBegun, TypeOK, n
<1>12. UploadsBegun'
  <2>1. \A k \in Uploads : begun'[k] # Unbegun <=> k < nextUpload'
      BY <1>1, <1>4, <1>6 DEF UploadsBegun, n, Uploads
  <2>2. \A k \in Uploads : k < n => k < nextUpload'
      BY <1>1 DEF Uploads
  <2>3. \A k \in stored : k < nextUpload'
      BY <2>2 DEF UploadsBegun, TypeOK, n
  <2>4. \A v \in Users : sending'[v] # NoUpload => sending'[v] < nextUpload'
    <3>1. n < nextUpload'
        BY <1>1
    <3>. QED
        BY <1>6, <1>11, <2>2, <3>1
  <2>5. \A c \in Rows : row[c] # NoRow => \A k \in row[c].data.from : k < nextUpload'
      BY <2>2, RowShape DEF UploadsBegun, Row, Data, n
  <2>. QED
      BY <1>1, <2>1, <2>3, <2>4, <2>5 DEF UploadsBegun, tables
<1>13. NamelessApart'
  <2>1. ASSUME NEW v \in Users, sessionId[v] = NoSession, sending'[v] # NoUpload
        PROVE  begun'[sending'[v]].session = NoSession
    <3>1. CASE v = u
        BY <1>1, <1>5, <1>6, <2>1, <3>1 DEF s
    <3>2. CASE v # u
        BY <1>6, <1>10, <1>11, <2>1, <3>2 DEF NamelessApart
    <3>. QED
        BY <3>1, <3>2
  <2>2. ASSUME tasks'[NoSession] # NoTask, NEW k \in tasks'[NoSession].data.from
        PROVE  k < nextUpload' /\ begun'[k].session = NoSession
    <3>1. CASE s = NoSession
        BY <1>1, <1>2, <1>5, <1>6, <2>2, <3>1
    <3>2. CASE s # NoSession
      <4>1. tasks[NoSession] # NoTask /\ k \in tasks[NoSession].data.from
          BY <1>6, <2>2, <3>2
      <4>2. k \in Uploads /\ k < n /\ begun[k].session = NoSession
          BY <4>1, TaskShape DEF NamelessApart, Data, n
      <4>. QED
          BY <1>1, <1>10, <4>2 DEF Uploads
    <3>. QED
        BY <3>1, <3>2
  <2>. QED
      BY <1>1, <2>1, <2>2 DEF NamelessApart, userVars
<1>14. TasksAreOfUploads'
  <2> SUFFICES ASSUME NEW v \in Users, sessionId[v] # NoSession,
                      tasks'[sessionId[v]] # NoTask
               PROVE  TaskIsOfUpload(v)'
      BY <1>1 DEF TasksAreOfUploads, userVars
  <2>1. CASE v = u
    <3>1. n \notin stored
        BY <1>1 DEF UploadsBegun, n
    <3>2. tasks'[sessionId[v]] = task /\ sending'[v] = n /\ begun'[n] = upload
        BY <1>1, <1>6, <2>1 DEF s
    <3>. QED
        BY <1>1, <1>2, <1>5, <2>1, <3>1, <3>2 DEF TaskIsOfUpload, userVars, s
  <2>2. CASE v # u
    <3>1. sessionId[v] # s
        BY <2>2 DEF SessionsApart, s
    <3>2. tasks'[sessionId[v]] = tasks[sessionId[v]] /\ sending'[v] = sending[v]
        BY <1>6, <2>2, <3>1 DEF TypeOK
    <3>3. TaskIsOfUpload(v)
        BY <3>2 DEF TasksAreOfUploads
    <3>4. begun'[sending[v]] = begun[sending[v]]
        BY <1>10, <1>11, <3>3 DEF TaskIsOfUpload
    <3>. QED
        BY <1>1, <3>2, <3>3, <3>4 DEF TaskIsOfUpload, userVars
  <2>. QED
      BY <2>1, <2>2
<1>15. ASSUME NEW c \in Rows, row[c] # NoRow, NEW k \in row[c].data.from
       PROVE  /\ Named(k)' => Named(k)
              /\ begun'[k] = begun[k]
  <2>1. k \in Uploads /\ k < n
      BY <1>15, RowShape DEF UploadsBegun, Row, Data, n
  <2>2. begun'[k] = begun[k]
      BY <1>10, <2>1
  <2>. QED
      BY <2>2 DEF Named
<1>16. RowsAreWholeUploads' /\ NewCharacterStaysInAccount'
    BY <1>1, <1>15 DEF RowsAreWholeUploads, NewCharacterStaysInAccount, tables
<1>. QED
    BY <1>7, <1>8, <1>9, <1>12, <1>13, <1>14, <1>16

(* What the task of a user is with the chunk it sends: what it has named   *)
(* uploads from, it has from the one upload its client is sending.         *)
LEMMA AppendedIs ==
    ASSUME IInv, NEW u \in Users, NEW size \in 0..Size, HasTask(u)
    PROVE  LET task == Appended(u, size)
               old == tasks[sessionId[u]]
           IN  /\ task \in Task /\ task # NoTask
               /\ sending[u] \in Uploads /\ sending[u] < nextUpload
               /\ task.type = old.type /\ task.target = old.target
               /\ task.data.from \subseteq old.data.from \cup {sending[u]}
               /\ \A n \in task.data.from : n \in Uploads /\ n < nextUpload
               /\ sessionId[u] = NoSession =>
                     \A n \in task.data.from : begun[n].session = NoSession
               /\ sessionId[u] # NoSession => task.data.from \subseteq {sending[u]}
<1> USE DEF IInv
<1> DEFINE old == tasks[sessionId[u]]
           n == sending[u]
           data == WithChunk(old.data, n, size)
<1>1. sessionId[u] \in Sessions \cup {NoSession} /\ old # NoTask
    BY DEF HasTask, TypeOK
<1>2. old \in Task /\ old.data \in Data
    BY <1>1, TaskShape
<1>3. n \in Uploads /\ n < nextUpload
    BY DEF HasTask, TypeOK, UploadsBegun
<1>4. data \in Data /\ data.from \subseteq old.data.from \cup {n}
    BY <1>2, <1>3, ChunkShape
<1>5. Appended(u, size) = [type |-> old.type, target |-> old.target,
                           character |-> old.character, meta |-> old.meta, data |-> data]
    BY DEF Appended, WithData
<1> HIDE DEF old, n, data
<1>6. Appended(u, size) \in Task /\ Appended(u, size) # NoTask
    BY <1>2, <1>4, <1>5 DEF Task, NoTask
<1>7. sessionId[u] = NoSession =>
         /\ begun[n].session = NoSession
         /\ \A k \in old.data.from : k < nextUpload /\ begun[k].session = NoSession
    BY <1>1 DEF NamelessApart, HasTask, old, n
<1>8. sessionId[u] # NoSession => old.data.from \subseteq {n}
    BY <1>1 DEF TasksAreOfUploads, TaskIsOfUpload, old, n
<1>9. Appended(u, size).data = data /\ data.from \subseteq Uploads
    BY <1>4, <1>5 DEF Data
<1>10. \A k \in data.from : k < nextUpload
    BY <1>1, <1>3, <1>4, <1>7, <1>8
<1>11. /\ Appended(u, size).type = old.type
       /\ Appended(u, size).target = old.target
    BY <1>5
<1>12. /\ sessionId[u] = NoSession => \A k \in data.from : begun[k].session = NoSession
       /\ sessionId[u] # NoSession => data.from \subseteq {n}
    BY <1>4, <1>7, <1>8
<1>. QED
    BY <1>3, <1>4, <1>6, <1>9, <1>10, <1>11, <1>12 DEF old, n

LEMMA AppendDataStep ==
    ASSUME IInv, NEW u \in Users, NEW size \in 0..Size, NEW endOfData \in BOOLEAN,
           AppendData(u, size, endOfData)
    PROVE  IInv'
<1> USE DEF IInv
<1> DEFINE s == sessionId[u]
           task == Appended(u, size)
<1>1. HasTask(u) /\ s \in Sessions \cup {NoSession} /\ tasks[s] # NoTask
    BY DEF AppendData, HasTask, TypeOK
<1>2. /\ tasks' = [tasks EXCEPT ![s] = task]
      /\ UNCHANGED <<userVars, nextSession, tables, uploadVars>>
    BY DEF AppendData
<1>3. /\ task \in Task /\ task # NoTask /\ task.type = tasks[s].type
      /\ task.target = tasks[s].target
      /\ \A n \in task.data.from : n < nextUpload
      /\ s = NoSession => \A n \in task.data.from : begun[n].session = NoSession
      /\ s # NoSession => task.data.from \subseteq {sending[u]}
    BY <1>1, AppendedIs
<1> HIDE DEF task, s
<1>4. \A r \in Sessions \cup {NoSession} : tasks'[r] = IF r = s THEN task ELSE tasks[r]
    BY <1>2 DEF TypeOK
<1>5. TypeOK'
    BY <1>2, <1>3 DEF TypeOK, userVars, tables, uploadVars
<1>6. SessionsApart' /\ AccountsKnown' /\ AccountOnlineOnce' /\ UploadsBegun'
    BY <1>1, <1>2, <1>4
       DEF SessionsApart, AccountsKnown, AccountOnlineOnce, UploadsBegun,
           userVars, tables, uploadVars
<1>7. NamelessApart'
    BY <1>1, <1>2, <1>3, <1>4 DEF NamelessApart, userVars, uploadVars
<1>8. TasksAreOfUploads'
  <2> SUFFICES ASSUME NEW v \in Users, sessionId[v] # NoSession,
                      tasks'[sessionId[v]] # NoTask
               PROVE  TaskIsOfUpload(v)'
      BY <1>2 DEF TasksAreOfUploads, userVars
  <2>1. sessionId[v] \in Sessions \cup {NoSession}
      BY DEF TypeOK
  <2>2. tasks[sessionId[v]] # NoTask
      BY <1>1, <1>4, <2>1
  <2>3. TaskIsOfUpload(v)
      BY <2>2 DEF TasksAreOfUploads
  <2>4. CASE sessionId[v] = s
    <3>1. v = u
        BY <2>4 DEF SessionsApart, s
    <3>2. tasks'[sessionId[v]] = task
        BY <1>4, <2>1, <2>4
    <3>. QED
        BY <1>2, <1>3, <2>3, <2>4, <3>1, <3>2 DEF TaskIsOfUpload, userVars, uploadVars
  <2>5. CASE sessionId[v] # s
    <3>1. tasks'[sessionId[v]] = tasks[sessionId[v]]
        BY <1>4, <2>1, <2>5
    <3>. QED
        BY <1>2, <2>3, <3>1 DEF TaskIsOfUpload, userVars, uploadVars
  <2>. QED
      BY <2>4, <2>5
<1>9. RowsAreWholeUploads' /\ NewCharacterStaysInAccount'
    BY <1>2 DEF RowsAreWholeUploads, NewCharacterStaysInAccount, Named, tables, uploadVars
<1>. QED
    BY <1>5, <1>6, <1>7, <1>8, <1>9

(* What a commit does to the rows: nothing, or one row is written.         *)
Written(task, c, account) ==
    /\ row' = [row EXCEPT ![c] = [account |-> account, data |-> task.data]]
    /\ stored' = stored \cup task.data.from

LEMMA CommitIs ==
    ASSUME IInv, NEW task \in Task, CommitNew(task) \/ CommitSave(task) \/ CommitFails
    PROVE  /\ characterId' \in [Users -> Rows \cup {NoCharacter}]
           /\ \/ UNCHANGED <<row, stored>>
              \/ \E c \in Rows, account \in Accounts :
                    /\ Written(task, c, account)
                    /\ \/ task.type = "new" /\ row[c] = NoRow /\ account = accountId[task.target]
                       \/ task.type = "save" /\ row[c] # NoRow /\ account = row[c].account
<1> USE DEF IInv
<1>1. task.target \in Users /\ task.data \in Data
    BY DEF Task
<1>2. CASE CommitNew(task)
  <2>1. accountId[task.target] \in Accounts
      BY <1>1, <1>2 DEF CommitNew, TypeOK
  <2>2. PICK c \in Rows :
           /\ row[c] = NoRow
           /\ row' = [row EXCEPT ![c] = [account |-> accountId[task.target],
                                         data |-> task.data]]
           /\ characterId' = [characterId EXCEPT ![task.target] = c]
      BY <1>2 DEF CommitNew, IsNextRow
  <2>3. characterId' \in [Users -> Rows \cup {NoCharacter}]
      BY <2>2 DEF TypeOK
  <2>4. Written(task, c, accountId[task.target]) /\ task.type = "new" /\ row[c] = NoRow
      BY <1>2, <2>2 DEF CommitNew, Written
  <2>. QED
      BY <2>1, <2>3, <2>4
<1>3. CASE CommitSave(task)
  <2> DEFINE c == characterId[task.target]
  <2>1. c \in Rows /\ accountId[task.target] \in Accounts /\ characterId' = characterId
      BY <1>1, <1>3 DEF CommitSave, TypeOK
  <2>2. CASE row[c].account = accountId[task.target]
    <3>1. row[c] # NoRow
        BY <2>1, <2>2, AccountsAssumption DEF NoRow
    <3>2. Written(task, c, row[c].account) /\ task.type = "save"
        BY <1>3, <2>2 DEF CommitSave, Written
    <3> HIDE DEF c
    <3>. QED
        BY <2>1, <2>2, <3>1, <3>2 DEF TypeOK
  <2>3. CASE row[c].account # accountId[task.target]
      BY <1>3, <2>1, <2>3 DEF CommitSave, TypeOK
  <2>. QED
      BY <2>2, <2>3
<1>4. CASE CommitFails
    BY <1>4 DEF CommitFails, TypeOK
<1>. QED
    BY <1>2, <1>3, <1>4

(* The named uploads of the task that is committed are the one upload that *)
(* the user's client is sending, which is not stored yet.                  *)
LEMMA CommittedIs ==
    ASSUME IInv, NEW u \in Users, NEW size \in 0..Size, HasTask(u),
           NEW n \in Appended(u, size).data.from, Named(n)
    PROVE  LET task == Appended(u, size)
           IN  /\ task.data.from = {n} /\ n \notin stored
               /\ begun[n].type = task.type
               /\ task.type = "new" => begun[n].account = accountId[task.target]
<1> DEFINE task == Appended(u, size)
           old == tasks[sessionId[u]]
<1>1. /\ sessionId[u] = NoSession => \A k \in task.data.from : begun[k].session = NoSession
      /\ sessionId[u] # NoSession => task.data.from \subseteq {sending[u]}
      /\ task.type = old.type /\ task.target = old.target
    BY AppendedIs
<1>2. sessionId[u] # NoSession
    BY <1>1 DEF Named
<1>3. n = sending[u] /\ task.data.from = {n}
    BY <1>1, <1>2
<1>4. TaskIsOfUpload(u)
    BY <1>2 DEF IInv, TasksAreOfUploads, HasTask
<1> HIDE DEF task
<1>5. /\ n \notin stored /\ begun[n].type = old.type
      /\ old.type = "new" => old.target = u /\ begun[n].account = accountId[u]
    BY <1>3, <1>4 DEF TaskIsOfUpload
<1>. QED
    BY <1>1, <1>3, <1>5 DEF task

LEMMA AppendLastRows ==
    ASSUME IInv, NEW u \in Users, NEW size \in 0..Size, AppendLast(u, size)
    PROVE  LET task == Appended(u, size)
           IN  /\ characterId' \in [Users -> Rows \cup {NoCharacter}]
               /\ \/ UNCHANGED <<row, stored>>
                  \/ \E c \in Rows, account \in Accounts :
                        /\ Written(task, c, account)
                        /\ \/ task.type = "new" /\ row[c] = NoRow /\ account = accountId[task.target]
                           \/ task.type = "save" /\ row[c] # NoRow /\ account = row[c].account
<1> DEFINE task == Appended(u, size)
<1>1. HasTask(u) /\ (CommitNew(task) \/ CommitSave(task) \/ CommitFails)
    BY DEF AppendLast
<1>2. task \in Task
    BY <1>1, AppendedIs
<1> HIDE DEF task
<1>3. /\ characterId' \in [Users -> Rows \cup {NoCharacter}]
      /\ \/ UNCHANGED <<row, stored>>
         \/ \E c \in Rows, account \in Accounts :
               /\ Written(task, c, account)
               /\ \/ task.type = "new" /\ row[c] = NoRow /\ account = accountId[task.target]
                  \/ task.type = "save" /\ row[c] # NoRow /\ account = row[c].account
    BY <1>1, <1>2, CommitIs
<1>. QED
    BY <1>3 DEF task

LEMMA AppendLastStep ==
    ASSUME IInv, NEW u \in Users, NEW size \in 0..Size, AppendLast(u, size)
    PROVE  IInv'
<1> USE DEF IInv
<1> DEFINE s == sessionId[u]
           task == Appended(u, size)
<1>1. HasTask(u) /\ s \in Sessions \cup {NoSession}
    BY DEF AppendLast, TypeOK
<1>2. /\ tasks' = [tasks EXCEPT ![s] = NoTask]
      /\ UNCHANGED <<status, sessionId, accountId, nextSession, accounts,
                     sending, begun, nextUpload>>
      /\ Valid(task)
    BY DEF AppendLast
<1>3. /\ task \in Task /\ sending[u] \in Uploads
      /\ \A n \in task.data.from : n \in Uploads /\ n < nextUpload
      /\ s = NoSession => \A n \in task.data.from : begun[n].session = NoSession
      /\ s # NoSession => task.data.from \subseteq {sending[u]}
    BY <1>1, AppendedIs
<1>4. /\ characterId' \in [Users -> Rows \cup {NoCharacter}]
      /\ \/ UNCHANGED <<row, stored>>
         \/ \E c \in Rows, account \in Accounts :
               /\ Written(task, c, account)
               /\ \/ task.type = "new" /\ row[c] = NoRow /\ account = accountId[task.target]
                  \/ task.type = "save" /\ row[c] # NoRow /\ account = row[c].account
    BY AppendLastRows
<1>5. \A n \in task.data.from : Named(n) =>
         /\ task.data.from = {n}
         /\ begun[n].type = task.type
         /\ task.type = "new" => begun[n].account = accountId[task.target]
    BY <1>1, CommittedIs
<1> HIDE DEF task, s
<1>6. task.data \in Data /\ task.data.size = Size /\ task.data.from \subseteq Uploads
    BY <1>2, <1>3 DEF Valid, Task, Data
<1>7. \A r \in Sessions \cup {NoSession} : tasks'[r] = IF r = s THEN NoTask ELSE tasks[r]
    BY <1>2 DEF TypeOK
<1>8. stored' \subseteq stored \cup task.data.from
    BY <1>4 DEF Written
<1>9. \A d \in Rows :
         \/ row'[d] = row[d]
         \/ /\ row'[d] \in Row /\ row'[d].data = task.data
            /\ \/ task.type = "new" /\ row'[d].account = accountId[task.target]
               \/ task.type = "save" /\ row[d] # NoRow
  <2>1. CASE UNCHANGED <<row, stored>>
      BY <2>1
  <2>2. ASSUME NEW c \in Rows, NEW account \in Accounts, Written(task, c, account),
               \/ task.type = "new" /\ account = accountId[task.target]
               \/ task.type = "save" /\ row[c] # NoRow
        PROVE  \A d \in Rows :
                  \/ row'[d] = row[d]
                  \/ /\ row'[d] \in Row /\ row'[d].data = task.data
                     /\ \/ task.type = "new" /\ row'[d].account = accountId[task.target]
                        \/ task.type = "save" /\ row[d] # NoRow
    <3>1. [account |-> account, data |-> task.data] \in Row
        BY <1>6 DEF Row
    <3>2. \A d \in Rows : row'[d] = IF d = c THEN [account |-> account, data |-> task.data]
                                    ELSE row[d]
        BY <2>2 DEF Written, TypeOK
    <3>. QED
        BY <2>2, <3>1, <3>2
  <2>. QED
      BY <1>4, <2>1, <2>2
<1>10. TypeOK'
  <2>1. row' \in [Rows -> Row \cup {NoRow}]
    <3>1. \A d \in Rows : row'[d] \in Row \cup {NoRow}
        BY <1>9 DEF TypeOK
    <3>2. row' = [d \in Rows |-> row'[d]]
        BY <1>4 DEF Written, TypeOK
    <3>. QED
        BY <3>1, <3>2
  <2>2. stored' \subseteq Uploads
      BY <1>6, <1>8 DEF TypeOK
  <2>3. tasks' \in [Sessions \cup {NoSession} -> Task \cup {NoTask}]
      BY <1>2 DEF TypeOK
  <2>. QED
      BY <1>2, <1>4, <2>1, <2>2, <2>3 DEF TypeOK
<1>11. SessionsApart' /\ AccountsKnown' /\ AccountOnlineOnce'
    BY <1>2, <1>7 DEF SessionsApart, AccountsKnown, AccountOnlineOnce
<1>12. UploadsBegun'
  <2>1. \A n \in stored' : n < nextUpload
      BY <1>3, <1>8 DEF UploadsBegun
  <2>2. ASSUME NEW d \in Rows, row'[d] # NoRow, NEW n \in row'[d].data.from
        PROVE  n < nextUpload
      BY <1>3, <1>9, <2>2 DEF UploadsBegun
  <2>. QED
      BY <1>2, <2>1, <2>2 DEF UploadsBegun
<1>13. NamelessApart'
    BY <1>1, <1>2, <1>7 DEF NamelessApart
<1>14. TasksAreOfUploads'
  <2> SUFFICES ASSUME NEW v \in Users, sessionId[v] # NoSession,
                      tasks'[sessionId[v]] # NoTask
               PROVE  TaskIsOfUpload(v)'
      BY <1>2 DEF TasksAreOfUploads
  <2>1. sessionId[v] \in Sessions \cup {NoSession}
      BY DEF TypeOK
  <2>2. sessionId[v] # s /\ tasks'[sessionId[v]] = tasks[sessionId[v]]
      BY <1>7, <2>1
  <2>3. TaskIsOfUpload(v)
      BY <2>2 DEF TasksAreOfUploads
  <2>4. begun[sending[v]].session = sessionId[v]
      BY <2>3 DEF TaskIsOfUpload
  <2>5. sending[v] \notin task.data.from
    <3>1. CASE s = NoSession
        BY <1>3, <2>4, <3>1
    <3>2. CASE s # NoSession
      <4>1. sending[v] # sending[u]
        <5>1. CASE tasks[s] = NoTask
            BY <1>1, <5>1 DEF HasTask, s
        <5>2. CASE tasks[s] # NoTask
          <6>1. TaskIsOfUpload(u)
              BY <3>2, <5>2 DEF TasksAreOfUploads, s
          <6>2. begun[sending[u]].session = s
              BY <6>1 DEF TaskIsOfUpload, s
          <6>. QED
              BY <2>2, <2>4, <6>2
        <5>. QED
            BY <5>1, <5>2
      <4>. QED
          BY <1>3, <3>2, <4>1
    <3>. QED
        BY <3>1, <3>2
  <2>6. sending[v] \notin stored'
      BY <1>8, <2>3, <2>5 DEF TaskIsOfUpload
  <2>. QED
      BY <1>2, <2>2, <2>3, <2>6 DEF TaskIsOfUpload
<1>15. \A n \in Uploads : Named(n)' <=> Named(n)
    BY <1>2 DEF Named
<1>16. RowsAreWholeUploads'
  <2> SUFFICES ASSUME NEW d \in Rows, row'[d] # NoRow
               PROVE  /\ row'[d].data.size = Size
                      /\ \A n \in row'[d].data.from : Named(n)' => row'[d].data.from = {n}
      BY DEF RowsAreWholeUploads
  <2>1. CASE row'[d] = row[d]
    <3>1. \A n \in row[d].data.from : Named(n)' => Named(n)
        BY <1>2 DEF Named
    <3>. QED
        BY <2>1, <3>1 DEF RowsAreWholeUploads
  <2>2. CASE row'[d].data = task.data
      BY <1>5, <1>6, <1>15, <2>2
  <2>. QED
      BY <1>9, <2>1, <2>2
<1>17. NewCharacterStaysInAccount'
  <2> SUFFICES ASSUME NEW d \in Rows, row'[d] # NoRow, NEW n \in row'[d].data.from,
                      Named(n)', begun[n].type = "new"
               PROVE  row'[d].account = begun[n].account
      BY <1>2 DEF NewCharacterStaysInAccount
  <2>0. Named(n)
      BY <1>2 DEF Named
  <2>1. CASE row'[d] = row[d]
      BY <2>0, <2>1 DEF NewCharacterStaysInAccount
  <2>2. CASE /\ row'[d].data = task.data
             /\ \/ task.type = "new" /\ row'[d].account = accountId[task.target]
                \/ task.type = "save"
      BY <1>5, <2>0, <2>2
  <2>. QED
      BY <1>9, <2>1, <2>2
<1>. QED
    BY <1>10, <1>11, <1>12, <1>13, <1>14, <1>16, <1>17

LEMMA IInvStep == IInv /\ [Next]_vars => IInv'
<1> SUFFICES ASSUME IInv, [Next]_vars PROVE IInv'
    OBVIOUS
<1>1. ASSUME NEW u \in Users, Connect(u) PROVE IInv'
  <2>1. \A v \in Users : /\ status'[v] = "online" =>
                               status[v] = "online" \/ accountId[v] = NoAccount
                         /\ status'[v] = "absent" => status[v] = "absent"
      BY <1>1 DEF Connect, IInv, TypeOK, AccountsKnown
  <2>. QED
      BY <1>1, <2>1, UserStep DEF Connect, IInv, TypeOK
<1>2. ASSUME NEW u \in Users, RemoveUser(u) PROVE IInv'
  <2>1. \A v \in Users : /\ status'[v] = "online" => status[v] = "online"
                         /\ status'[v] = "absent" => status[v] = "absent"
      BY <1>2 DEF RemoveUser, IInv, TypeOK
  <2>. QED
      BY <1>2, <2>1, UserStep DEF RemoveUser, IInv, TypeOK
<1>3. ASSUME NEW u \in Users, NEW a \in Accounts, Login(u, a) PROVE IInv'
  <2>1. /\ a \in accounts' /\ accounts \subseteq accounts' /\ accounts' \subseteq Accounts
        /\ UNCHANGED <<status, characterId, tasks, row, uploadVars>>
      BY <1>3 DEF Login, IInv, TypeOK, tables
  <2>. QED
      BY <1>3, <2>1, LogInStep DEF Login
<1>4. ASSUME NEW u \in Users, NEW a \in Accounts, CreateAccount(u, a) PROVE IInv'
  <2>1. /\ a \in accounts' /\ accounts \subseteq accounts' /\ accounts' \subseteq Accounts
        /\ UNCHANGED <<status, characterId, tasks, row, uploadVars>>
      BY <1>4 DEF CreateAccount, IInv, TypeOK
  <2>2. \A v \in Users : accountId[v] # a
      BY <1>4, AccountsAssumption DEF CreateAccount, IInv, AccountsKnown
  <2>. QED
      BY <1>4, <2>1, <2>2, LogInStep DEF CreateAccount
<1>5. ASSUME NEW u \in Users, CreateAccountThrows(u) PROVE IInv'
    BY <1>5, RestartStep DEF CreateAccountThrows
<1>6. ASSUME NEW u \in Users, NEW size \in 0..Size, NEW meta \in BOOLEAN,
             CreateNewCharacter(u, meta, size)
      PROVE  IInv'
    BY <1>6, BeginStep DEF CreateNewCharacter
<1>7. ASSUME NEW u \in Users, NEW member \in Users, NEW size \in 0..Size,
             NEW meta \in BOOLEAN, SaveCharacter(u, member, meta, size)
      PROVE  IInv'
    BY <1>7, BeginStep DEF SaveCharacter
<1>8. ASSUME NEW u \in Users, NEW size \in 0..Size, NEW endOfData \in BOOLEAN,
             AppendData(u, size, endOfData)
      PROVE  IInv'
    BY <1>8, AppendDataStep
<1>9. ASSUME NEW u \in Users, NEW size \in 0..Size, AppendLast(u, size) PROVE IInv'
    BY <1>9, AppendLastStep
<1>10. ASSUME NEW u \in Users, NEW c \in Rows, GetCharacterData(u, c) PROVE IInv'
  <2>1. characterId' \in [Users -> Rows \cup {NoCharacter}]
      BY <1>10 DEF GetCharacterData, IInv, TypeOK
  <2>. QED
      BY <1>10, <2>1, UserStep DEF GetCharacterData, IInv, TypeOK
<1>11. CASE Restart
    BY <1>11, RestartStep DEF Restart
<1>12. CASE UNCHANGED vars
    BY <1>12, UserStep DEF vars, userVars, IInv, TypeOK
<1>. QED
    BY <1>1, <1>2, <1>3, <1>4, <1>5, <1>6, <1>7, <1>8, <1>9, <1>10, <1>11, <1>12
       DEF Next, AccountStep, UploadStep

(* The inductive invariant holds. *)
THEOREM SavesIInv == Spec => []IInv
<1>. QED
    BY InitIInv, IInvStep, PTL DEF Spec

(* A row is one whole upload.  (AppendSaveData, CommitSaveTask) *)
THEOREM SavesWhole == Spec => []RowsAreWholeUploads
<1>1. IInv => RowsAreWholeUploads
    BY DEF IInv
<1>. QED
    BY <1>1, SavesIInv, PTL

(* A new character belongs to the account it was begun for.                *)
(* (CommitSaveTask)                                                        *)
THEOREM SavesInAccount == Spec => []NewCharacterStaysInAccount
<1>1. IInv => NewCharacterStaysInAccount
    BY DEF IInv
<1>. QED
    BY <1>1, SavesIInv, PTL

(* An account is online once.  (RequestLogin) *)
THEOREM SavesOnlineOnce == Spec => []AccountOnlineOnce
<1>1. IInv => AccountOnlineOnce
    BY DEF IInv
<1>. QED
    BY <1>1, SavesIInv, PTL

(* An upload is written once.  (CommitSaveTask takes the task out.) *)
THEOREM SavesOnce == Spec => StoredOnce
<1> DEFINE Once == \A c \in Rows : row'[c] # row[c] =>
                      \A n \in row'[c].data.from : Named(n) => n \notin stored
<1>1. IInv /\ [Next]_vars => [Once]_vars
  <2> SUFFICES ASSUME IInv, Next PROVE Once
      OBVIOUS
  <2>1. CASE UNCHANGED row
      BY <2>1
  <2>2. ASSUME NEW u \in Users, NEW size \in 0..Size, AppendLast(u, size) PROVE Once
    <3> DEFINE task == Appended(u, size)
    <3>1. HasTask(u)
        BY <2>2 DEF AppendLast
    <3>2. \A n \in task.data.from : Named(n) => n \notin stored
        BY <3>1, CommittedIs
    <3>3. \/ UNCHANGED row
          \/ \E c \in Rows, account \in Accounts : Written(task, c, account)
        BY <2>2, AppendLastRows
    <3> HIDE DEF task
    <3>4. \A d \in Rows : row'[d] # row[d] => row'[d].data = task.data
        BY <3>3 DEF Written, IInv, TypeOK
    <3>. QED
        BY <3>2, <3>4
  <2>3. Next => UNCHANGED row \/ \E u \in Users, size \in 0..Size : AppendLast(u, size)
      BY DEF Next, AccountStep, UploadStep, Connect, RemoveUser, Login, CreateAccount,
             CreateAccountThrows, Restart, Restarted, CreateNewCharacter, SaveCharacter,
             Begin, AppendData, GetCharacterData, tables
  <2>. QED
      BY <2>1, <2>2, <2>3
<1>. QED
    BY <1>1, SavesIInv, PTL DEF Spec, StoredOnce

(* A character is changed by a save of a target that plays it, and is      *)
(* logged in to its account.  (SaveCharacter's UPDATE names both.)         *)
THEOREM SavesChangeInAccount == Spec => RowsChangeInAccount
<1> DEFINE By(u, c) == /\ tasks[sessionId[u]] # NoTask /\ tasks'[sessionId[u]] = NoTask
                       /\ tasks[sessionId[u]].type = "save"
                       /\ characterId[tasks[sessionId[u]].target] = c
                       /\ accountId[tasks[sessionId[u]].target] = row[c].account
           InAccount == \A c \in Rows : row[c] # NoRow /\ row'[c] # row[c] =>
                            /\ row'[c] # NoRow /\ row'[c].account = row[c].account
                            /\ \E u \in Users : By(u, c)
<1>1. IInv /\ [Next]_vars => [InAccount]_vars
  <2> SUFFICES ASSUME IInv, Next PROVE InAccount
      OBVIOUS
  <2>1. CASE UNCHANGED row
      BY <2>1
  <2>2. ASSUME NEW u \in Users, NEW size \in 0..Size, AppendLast(u, size)
        PROVE  InAccount
    <3> SUFFICES ASSUME NEW c \in Rows, row[c] # NoRow, row'[c] # row[c]
                 PROVE  /\ row'[c] # NoRow /\ row'[c].account = row[c].account
                        /\ By(u, c)
        BY <2>2
    <3> DEFINE task == Appended(u, size)
    <3>1. /\ HasTask(u) /\ sessionId[u] \in Sessions \cup {NoSession}
          /\ tasks' = [tasks EXCEPT ![sessionId[u]] = NoTask]
          /\ CommitNew(task) \/ CommitSave(task) \/ CommitFails
        BY <2>2 DEF AppendLast, IInv, TypeOK
    <3>2. /\ task \in Task /\ task.type = tasks[sessionId[u]].type
          /\ task.target = tasks[sessionId[u]].target
        BY <3>1, AppendedIs
    <3>3. tasks[sessionId[u]] # NoTask /\ tasks'[sessionId[u]] = NoTask
        BY <3>1 DEF HasTask, IInv, TypeOK
    <3> HIDE DEF task
    <3>4. task.target \in Users /\ row \in [Rows -> Row \cup {NoRow}]
        BY <3>2 DEF Task, IInv, TypeOK
    <3>5. CommitSave(task)
      <4>1. ~CommitFails
          BY DEF CommitFails
      <4>2. ~CommitNew(task)
          BY <3>4 DEF CommitNew, IsNextRow
      <4>. QED
          BY <3>1, <4>1, <4>2
    <3> DEFINE d == characterId[task.target]
    <3>6. /\ task.type = "save" /\ row[d].account = accountId[task.target]
          /\ row' = [row EXCEPT ![d] = [account |-> row[d].account, data |-> task.data]]
        BY <3>5 DEF CommitSave
    <3>7. d = c
        BY <3>4, <3>6
    <3>8. row'[c] = [account |-> row[c].account, data |-> task.data]
        BY <3>4, <3>6, <3>7
    <3>9. row'[c] # NoRow /\ row'[c].account = row[c].account
        BY <3>8 DEF NoRow
    <3>. QED
        BY <3>2, <3>3, <3>6, <3>7, <3>9
  <2>3. Next => UNCHANGED row \/ \E u \in Users, size \in 0..Size : AppendLast(u, size)
      BY DEF Next, AccountStep, UploadStep, Connect, RemoveUser, Login, CreateAccount,
             CreateAccountThrows, Restart, Restarted, CreateNewCharacter, SaveCharacter,
             Begin, AppendData, GetCharacterData, tables
  <2>. QED
      BY <2>1, <2>2, <2>3
<1>. QED
    BY <1>1, SavesIInv, PTL DEF Spec, RowsChangeInAccount

----------------------------------------------------------------------------
(* The promise of CharacterStore.                                          *)

Promised == [Store!Next]_Store!vars

LEMMA ShelfKept ==
    ASSUME UNCHANGED <<row, begun>>
    PROVE  shelf' = shelf
BY DEF shelf, Named

(* Nothing is seen of a step that leaves the tasks of the users' sessions. *)
LEMMA UnseenStep ==
    ASSUME UNCHANGED <<sessionId, sending, begun, stored, row>>,
           \A u \in Users : tasks'[sessionId[u]] # NoTask <=> tasks[sessionId[u]] # NoTask
    PROVE  Promised
<1>1. \A n \in Uploads : OpenUpload(n)' <=> OpenUpload(n)
    BY DEF OpenUpload
<1>2. \A n \in Uploads : Named(n)' <=> Named(n)
    BY DEF Named
<1>3. \A n \in Uploads : n \in stored' <=> n \in stored
    OBVIOUS
<1>4. phase' = phase
    BY <1>1, <1>2, <1>3 DEF phase
<1>. QED
    BY <1>4, ShelfKept DEF Promised, Store!vars

(* A step that stores nothing and opens nothing gives up what it closes.   *)
LEMMA ClosingStep ==
    ASSUME UNCHANGED <<begun, stored, row>>,
           \A n \in Uploads : Named(n) /\ OpenUpload(n)' => OpenUpload(n)
    PROVE  Promised
<1> DEFINE given == {n \in Uploads : phase[n] = "open" /\ ~OpenUpload(n)'}
<1>1. \A n \in Uploads : (Named(n)' <=> Named(n)) /\ (n \in stored' <=> n \in stored)
    BY DEF Named
<1>2. ASSUME NEW n \in Uploads
      PROVE  phase'[n] = IF n \in given THEN "over" ELSE phase[n]
    BY <1>1 DEF phase
<1>3. phase' = [n \in Uploads |-> IF n \in given THEN "over" ELSE phase[n]]
  <2>1. phase' = [n \in Uploads |-> phase'[n]]
      BY DEF phase
  <2>. QED
      BY <1>2, <2>1
<1>4. Store!GiveUp(given)
    BY <1>3, ShelfKept DEF Store!GiveUp
<1>. QED
    BY <1>4 DEF Promised, Store!Next

(* The new session has no task. *)
LEMMA LogInStore ==
    ASSUME IInv, NEW u \in Users, NEW a \in Accounts, LogIn(u, a),
           UNCHANGED <<tasks, row, sending, begun, stored>>
    PROVE  Promised
<1>1. /\ nextSession \in Sessions
      /\ \A v \in Users : sessionId'[v] = IF v = u THEN nextSession ELSE sessionId[v]
    BY DEF LogIn, IInv, TypeOK
<1>2. tasks[nextSession] = NoTask
    BY <1>1 DEF IInv, SessionsApart, Sessions
<1>3. ASSUME NEW n \in Uploads, OpenUpload(n)'
      PROVE  OpenUpload(n)
  <2>1. PICK v \in Users : /\ sending[v] = n /\ sessionId'[v] = begun[n].session
                           /\ tasks[sessionId'[v]] # NoTask
      BY <1>3 DEF OpenUpload
  <2>2. v # u
      BY <1>1, <1>2, <2>1
  <2>. QED
      BY <1>1, <2>1, <2>2 DEF OpenUpload
<1>. QED
    BY <1>3, ClosingStep

LEMMA RestartStore ==
    ASSUME IInv, Restarted
    PROVE  Promised
<1>1. \A n \in Uploads : ~OpenUpload(n)'
    BY DEF Restarted, OpenUpload, Uploads, NoUpload
<1>. QED
    BY <1>1, ClosingStep DEF Restarted, tables

(* An upload is begun, and the one the same session was in the middle of   *)
(* is given up.                                                            *)
LEMMA BeginStore ==
    ASSUME IInv, NEW u \in Users, NEW target \in Users, NEW type \in {"new", "save"},
           NEW meta \in BOOLEAN, NEW size \in 0..Size, Begin(u, target, type, meta, size)
    PROVE  Promised
<1>0. PICK n \in Uploads : n = nextUpload
    BY DEF Begin
<1> DEFINE s == sessionId[u]
           old == sending[u]
           older == IF old \in Uploads /\ begun[old].session = s THEN old ELSE n
<1>1. /\ n \in Uploads /\ s \in Sessions \cup {NoSession}
      /\ UNCHANGED <<sessionId, row, stored>>
      /\ \A v \in Users : sending'[v] = IF v = u THEN n ELSE sending[v]
      /\ \A m \in Uploads : m # n => begun'[m] = begun[m]
      /\ begun'[n].session = s /\ begun'[n] # Unbegun
      /\ tasks'[s] # NoTask
      /\ \A r \in Sessions \cup {NoSession} : r # s => tasks'[r] = tasks[r]
  <2>1. /\ n \in Uploads /\ s \in Sessions \cup {NoSession}
        /\ UNCHANGED <<sessionId, row, stored>>
        /\ \A v \in Users : sending'[v] = IF v = u THEN n ELSE sending[v]
        /\ \A r \in Sessions \cup {NoSession} : r # s => tasks'[r] = tasks[r]
        /\ \A m \in Uploads : m # n => begun'[m] = begun[m]
      BY <1>0 DEF Begin, IInv, TypeOK, userVars, tables
  <2>2. begun'[n] = [type |-> type, session |-> s, account |-> accountId[target],
                     character |-> characterId[target]]
      BY <1>0, <2>1 DEF Begin, IInv, TypeOK
  <2>3. begun'[n].session = s /\ begun'[n] # Unbegun
      BY <2>2 DEF Unbegun
  <2>4. tasks'[s].target = target /\ tasks'[s].type \in {"new", "save"}
      BY <2>1 DEF Begin, IInv, TypeOK
  <2>5. tasks'[s] # NoTask
      BY <2>4 DEF NoTask
  <2>. QED
      BY <2>1, <2>3, <2>5
<1>2. begun[n] = Unbegun /\ n \notin stored /\ \A m \in Uploads : Named(m) => m # n
    BY <1>0, <1>1 DEF IInv, UploadsBegun, TypeOK, Named, Uploads
<1>3. older \in Uploads
    BY <1>1
<1>4. \A v \in Users : sessionId[v] = s /\ s # NoSession => v = u
    BY DEF IInv, SessionsApart
<1>5. \A v \in Users : sessionId[v] \in Sessions \cup {NoSession}
    BY DEF IInv, TypeOK
<1> HIDE DEF s
<1>6. ASSUME NEW m \in Uploads, m # n
      PROVE  (Named(m)' <=> Named(m)) /\ begun'[m] = begun[m]
    BY <1>1, <1>6 DEF Named
<1>7. shelf' = shelf
  <2>1. ASSUME NEW c \in Rows, row[c] # NoRow
        PROVE  {m \in row[c].data.from : Named(m)'} = {m \in row[c].data.from : Named(m)}
    <3>1. \A m \in row[c].data.from : m \in Uploads /\ m # n
      <4>1. row[c].data.from \subseteq Uploads
          BY <2>1, RowShape DEF IInv, Row, Data
      <4>2. \A m \in row[c].data.from : m < nextUpload
          BY <2>1 DEF IInv, UploadsBegun
      <4>. QED
          BY <1>0, <4>1, <4>2 DEF Uploads
    <3>. QED
        BY <1>6, <3>1
  <2>2. shelf' = [c \in Rows |->
                    IF row[c] = NoRow THEN [uploads |-> {}]
                    ELSE [account |-> row[c].account,
                          uploads |-> {m \in row[c].data.from : Named(m)'}]]
      BY <1>1 DEF shelf
  <2>. QED
      BY <2>1, <2>2 DEF shelf
<1>8. CASE s = NoSession
  <2>1. ASSUME NEW m \in Uploads
        PROVE  phase'[m] = phase[m]
    <3>1. CASE m = n
        BY <1>1, <1>2, <1>8, <3>1 DEF phase, Named
    <3>2. CASE m # n /\ ~Named(m)
        BY <1>6, <3>2 DEF phase
    <3>3. CASE m # n /\ Named(m)
      <4>1. \A v \in Users : sessionId[v] = begun[m].session => v # u /\ sessionId[v] # s
          BY <1>8, <3>3 DEF Named, s
      <4>2. OpenUpload(m)' <=> OpenUpload(m)
          BY <1>1, <1>5, <1>6, <3>3, <4>1 DEF OpenUpload
      <4>. QED
          BY <1>1, <1>6, <3>3, <4>2 DEF phase
    <3>. QED
        BY <3>1, <3>2, <3>3
  <2>2. phase' = phase
    <3>1. phase' = [m \in Uploads |-> phase'[m]] /\ phase = [m \in Uploads |-> phase[m]]
        BY DEF phase
    <3>. QED
        BY <2>1, <3>1
  <2>. QED
      BY <1>7, <2>2 DEF Promised, Store!vars
<1>9. CASE s # NoSession
  <2> HIDE DEF older
  <2>1. phase[n] = "unborn"
      BY <1>1, <1>2 DEF phase, Named
  <2>2. phase'[n] = "open"
    <3>1. Named(n)'
        BY <1>1, <1>9 DEF Named
    <3>2. OpenUpload(n)'
        BY <1>1 DEF OpenUpload, s
    <3>. QED
        BY <1>1, <1>2, <3>1, <3>2 DEF phase
  <2>3. ASSUME NEW m \in Uploads, m # n
        PROVE  phase'[m] = IF m = older /\ phase[m] = "open" THEN "over" ELSE phase[m]
    <3>1. CASE ~Named(m)
        BY <1>6, <2>3, <3>1 DEF phase
    <3>2. CASE Named(m) /\ m \in stored
        BY <1>1, <1>6, <2>3, <3>2 DEF phase
    <3>3. CASE Named(m) /\ m \notin stored /\ m = older
      <4>1. begun[m].session = s
          BY <2>3, <3>3 DEF older
      <4>2. ~OpenUpload(m)'
          BY <1>1, <1>4, <1>6, <1>9, <2>3, <4>1 DEF OpenUpload
      <4>. QED
          BY <1>1, <1>6, <2>3, <3>3, <4>2 DEF phase
    <3>4. CASE Named(m) /\ m \notin stored /\ m # older
      <4>1. ASSUME OpenUpload(m)
            PROVE  OpenUpload(m)'
        <5>1. PICK v \in Users : /\ sending[v] = m /\ sessionId[v] = begun[m].session
                                 /\ tasks[sessionId[v]] # NoTask
            BY <4>1 DEF OpenUpload
        <5>2. v # u
            BY <2>3, <3>4, <5>1 DEF older, s
        <5>. QED
            BY <1>1, <1>5, <1>6, <2>3, <5>1, <5>2 DEF OpenUpload
      <4>2. ASSUME OpenUpload(m)'
            PROVE  OpenUpload(m)
        <5>1. PICK v \in Users : /\ sending'[v] = m /\ sessionId[v] = begun[m].session
                                 /\ tasks'[sessionId[v]] # NoTask
            BY <1>1, <1>6, <2>3, <4>2 DEF OpenUpload
        <5>2. v # u
            BY <1>1, <2>3, <5>1
        <5>3. sessionId[v] # s
            BY <1>4, <1>9, <5>2
        <5>. QED
            BY <1>1, <1>5, <5>1, <5>2, <5>3 DEF OpenUpload
      <4>. QED
          BY <1>1, <1>6, <2>3, <3>4, <4>1, <4>2 DEF phase
    <3>. QED
        BY <3>1, <3>2, <3>3, <3>4
  <2>4. phase' = [m \in Uploads |-> IF m = n THEN "open"
                                    ELSE IF m = older /\ phase[m] = "open" THEN "over"
                                    ELSE phase[m]]
    <3>1. phase' = [m \in Uploads |-> phase'[m]]
        BY DEF phase
    <3>. QED
        BY <2>2, <2>3, <3>1
  <2>5. Store!Begin(n, older)
      BY <1>7, <2>1, <2>4 DEF Store!Begin
  <2>. QED
      BY <1>1, <1>3, <2>5 DEF Promised, Store!Next, older
<1>. QED
    BY <1>8, <1>9

(* A commit stores the upload that the session is in the middle of, or     *)
(* gives it up.                                                            *)
LEMMA AppendLastStore ==
    ASSUME IInv, NEW u \in Users, NEW size \in 0..Size, AppendLast(u, size)
    PROVE  Promised
<1> DEFINE s == sessionId[u]
           task == Appended(u, size)
<1>1. /\ HasTask(u) /\ size > 0 /\ s \in Sessions \cup {NoSession}
      /\ tasks' = [tasks EXCEPT ![s] = NoTask]
      /\ UNCHANGED <<sessionId, sending, begun>>
    BY DEF AppendLast, IInv, TypeOK
<1>2. \A r \in Sessions \cup {NoSession} : tasks'[r] = IF r = s THEN NoTask ELSE tasks[r]
    BY <1>1 DEF IInv, TypeOK
<1>3. /\ task \in Task /\ sending[u] \in Uploads /\ sending[u] \in task.data.from
      /\ s = NoSession => \A n \in task.data.from : begun[n].session = NoSession
      /\ s # NoSession => task.data.from \subseteq {sending[u]}
  <2>1. task.data = WithChunk(tasks[s].data, sending[u], size)
      BY DEF Appended, WithData
  <2>2. sending[u] \in task.data.from
      BY <1>1, <2>1, SizeAssumption DEF WithChunk
  <2>. QED
      BY <1>1, <2>2, AppendedIs
<1>4. \/ UNCHANGED <<row, stored>>
      \/ \E c \in Rows, a \in Accounts : /\ Written(task, c, a)
                                         /\ row[c] = NoRow \/ row[c].account = a
    BY AppendLastRows
<1> HIDE DEF task
<1>5. task.data.from \subseteq Uploads
    BY <1>3 DEF Task, Data
<1>6. \A v \in Users : /\ sessionId[v] \in Sessions \cup {NoSession}
                       /\ sessionId[v] = s /\ s # NoSession => v = u
    BY DEF IInv, TypeOK, SessionsApart, s
<1>7. \A n \in Uploads : Named(n)' <=> Named(n)
    BY <1>1 DEF Named
<1>8. \A n \in Uploads : OpenUpload(n)' => OpenUpload(n)
    BY <1>1, <1>2, <1>6 DEF OpenUpload
<1>9. ASSUME NEW n \in Uploads, Named(n), OpenUpload(n), ~OpenUpload(n)'
      PROVE  n = sending[u] /\ s # NoSession
  <2>1. PICK v \in Users : /\ sending[v] = n /\ sessionId[v] = begun[n].session
                           /\ tasks[sessionId[v]] # NoTask
      BY <1>9 DEF OpenUpload
  <2>2. sessionId[v] = s
      BY <1>1, <1>2, <1>6, <1>9, <2>1 DEF OpenUpload
  <2>. QED
      BY <1>6, <1>9, <2>1, <2>2 DEF Named
<1>10. CASE UNCHANGED <<row, stored>>
    BY <1>1, <1>8, <1>10, ClosingStep
<1>11. ASSUME NEW c \in Rows, NEW a \in Accounts, Written(task, c, a),
              row[c] = NoRow \/ row[c].account = a
       PROVE  Promised
  <2> DEFINE named == {n \in task.data.from : Named(n)}
  <2>1. Store!Put(c, a, named)
    <3>1. shelf[c] = [uploads |-> {}] \/ shelf[c].account = a
        BY <1>11 DEF shelf
    <3>2. ASSUME NEW d \in Rows
          PROVE  shelf'[d] = IF d = c THEN [account |-> a, uploads |-> named] ELSE shelf[d]
      <4>1. row'[d] = IF d = c THEN [account |-> a, data |-> task.data] ELSE row[d]
          BY <1>11 DEF Written, IInv, TypeOK
      <4>2. \A n : Named(n)' <=> Named(n)
          BY <1>1 DEF Named
      <4>3. CASE d # c
          BY <4>1, <4>2, <4>3 DEF shelf
      <4>4. CASE d = c
        <5>1. /\ row'[d].account = a /\ row'[d].data = task.data /\ row'[d] # NoRow
            BY <4>1, <4>4, AccountsAssumption DEF NoRow
        <5>. QED
            BY <4>2, <4>4, <5>1 DEF shelf
      <4>. QED
          BY <4>3, <4>4
    <3>3. shelf' = [shelf EXCEPT ![c] = [account |-> a, uploads |-> named]]
      <4>1. /\ shelf = [d \in Rows |-> shelf[d]] /\ shelf' = [d \in Rows |-> shelf'[d]]
          BY DEF shelf
      <4>. QED
          BY <3>2, <4>1
    <3>. QED
        BY <3>1, <3>3 DEF Store!Put, Store!Empty
  <2>2. CASE s = NoSession
    <3>1. named = {}
        BY <1>3, <2>2 DEF Named
    <3>2. ASSUME NEW n \in Uploads
          PROVE  phase'[n] = phase[n]
      <4>1. Named(n) => (OpenUpload(n)' <=> OpenUpload(n))
          BY <1>8, <1>9, <2>2
      <4>2. Named(n) => (n \in stored' <=> n \in stored)
          BY <1>3, <1>11, <2>2 DEF Written, Named
      <4>. QED
          BY <1>7, <4>1, <4>2 DEF phase
    <3>3. phase' = phase
      <4>1. phase' = [n \in Uploads |-> phase'[n]] /\ phase = [n \in Uploads |-> phase[n]]
          BY DEF phase
      <4>. QED
          BY <3>2, <4>1
    <3>4. Store!StoreNameless(c, a)
        BY <2>1, <3>1, <3>3 DEF Store!StoreNameless
    <3>. QED
        BY <3>4 DEF Promised, Store!Next
  <2>3. CASE s # NoSession
    <3>1. PICK n \in Uploads : n = sending[u]
        BY <1>3
    <3>2. task.data.from = {n}
        BY <1>3, <2>3, <3>1
    <3>3. TaskIsOfUpload(u)
        BY <1>1, <2>3 DEF IInv, TasksAreOfUploads, HasTask
    <3>4. begun[n].session = s /\ n \notin stored /\ tasks[s] # NoTask
        BY <1>1, <3>1, <3>3 DEF TaskIsOfUpload, HasTask
    <3>5. Named(n)
      <4>1. begun[n] # Unbegun
          BY <1>1, <3>1 DEF HasTask, IInv, UploadsBegun, TypeOK
      <4>. QED
          BY <2>3, <3>4, <4>1 DEF Named
    <3>6. named = {n}
        BY <3>2, <3>5
    <3>7. phase[n] = "open"
      <4>1. OpenUpload(n)
          BY <3>1, <3>4 DEF OpenUpload
      <4>. QED
          BY <3>4, <3>5, <4>1 DEF phase
    <3>8. stored' = stored \cup {n}
        BY <1>11, <3>2 DEF Written
    <3>9. ASSUME NEW m \in Uploads
          PROVE  phase'[m] = IF m = n THEN "stored" ELSE phase[m]
      <4>1. CASE m = n
          BY <1>7, <3>5, <3>8, <4>1 DEF phase
      <4>2. CASE m # n
        <5>1. Named(m) => (OpenUpload(m)' <=> OpenUpload(m))
            BY <1>8, <1>9, <3>1, <4>2
        <5>2. m \in stored' <=> m \in stored
            BY <3>8, <4>2
        <5>. QED
            BY <1>7, <4>2, <5>1, <5>2 DEF phase
      <4>. QED
          BY <4>1, <4>2
    <3>10. phase' = [phase EXCEPT ![n] = "stored"]
      <4>1. phase' = [m \in Uploads |-> phase'[m]] /\ phase = [m \in Uploads |-> phase[m]]
          BY DEF phase
      <4>. QED
          BY <3>9, <4>1
    <3>11. Store!Store(n, c, a)
        BY <2>1, <3>6, <3>7, <3>10 DEF Store!Store
    <3>. QED
        BY <3>11 DEF Promised, Store!Next
  <2>. QED
      BY <2>2, <2>3
<1>. QED
    BY <1>4, <1>10, <1>11

LEMMA StoreStep == IInv /\ [Next]_vars => Promised
<1> SUFFICES ASSUME IInv, [Next]_vars PROVE Promised
    OBVIOUS
<1>1. ASSUME NEW u \in Users,
             \/ Connect(u) \/ RemoveUser(u) \/ \E c \in Rows : GetCharacterData(u, c)
      PROVE  Promised
    BY <1>1, UnseenStep DEF Connect, RemoveUser, GetCharacterData, tables, uploadVars
<1>2. ASSUME NEW u \in Users, NEW a \in Accounts, Login(u, a) \/ CreateAccount(u, a)
      PROVE  Promised
    BY <1>2, LogInStore DEF Login, CreateAccount, tables, uploadVars
<1>3. ASSUME NEW u \in Users, CreateAccountThrows(u)
      PROVE  Promised
    BY <1>3, RestartStore DEF CreateAccountThrows
<1>4. ASSUME NEW u \in Users, NEW size \in 0..Size, NEW meta \in BOOLEAN,
             \/ CreateNewCharacter(u, meta, size)
             \/ \E member \in Users : SaveCharacter(u, member, meta, size)
      PROVE  Promised
    BY <1>4, BeginStore DEF CreateNewCharacter, SaveCharacter
<1>5. ASSUME NEW u \in Users, NEW size \in 0..Size, NEW endOfData \in BOOLEAN,
             AppendData(u, size, endOfData)
      PROVE  Promised
  <2>1. /\ tasks' = [tasks EXCEPT ![sessionId[u]] = Appended(u, size)]
        /\ tasks[sessionId[u]] # NoTask /\ sessionId[u] \in Sessions \cup {NoSession}
        /\ UNCHANGED <<sessionId, sending, begun, stored, row>>
      BY <1>5 DEF AppendData, HasTask, IInv, TypeOK, userVars, tables, uploadVars
  <2>2. Appended(u, size) # NoTask
    <3>1. Appended(u, size) \in Task
        BY <1>5, AppendedIs DEF AppendData
    <3>. QED
        BY <3>1 DEF Task, NoTask
  <2>3. \A v \in Users : tasks'[sessionId[v]] # NoTask <=> tasks[sessionId[v]] # NoTask
      BY <2>1, <2>2 DEF IInv, TypeOK
  <2>. QED
      BY <2>1, <2>3, UnseenStep
<1>6. ASSUME NEW u \in Users, NEW size \in 0..Size, AppendLast(u, size) PROVE Promised
    BY <1>6, AppendLastStore
<1>7. CASE Restart
    BY <1>7, RestartStore DEF Restart
<1>8. CASE UNCHANGED vars
    BY <1>8, UnseenStep DEF vars, userVars, tables, uploadVars
<1>. QED
    BY <1>1, <1>2, <1>3, <1>4, <1>5, <1>6, <1>7, <1>8 DEF Next, AccountStep, UploadStep

(* What is promised is kept: an upload that was given up is never stored,  *)
(* and one that is stored is whole, alone, once and in a row of its        *)
(* account.  (BeginSaveTask, AppendSaveData, CommitSaveTask)               *)
THEOREM SavesImplementStore == Spec => ImplementsStore
<1>1. Init => Store!Init
  <2> SUFFICES ASSUME Init PROVE Store!Init
      OBVIOUS
  <2>1. phase = [n \in Uploads |-> "unborn"]
      BY DEF Init, phase, Named
  <2>2. shelf = [c \in Rows |-> [uploads |-> {}]]
      BY DEF Init, shelf
  <2>. QED
      BY <2>1, <2>2 DEF Store!Init, Store!Empty
<1>2. IInv /\ [Next]_vars => [Store!Next]_Store!vars
    BY StoreStep DEF Promised
<1>. QED
    BY <1>1, <1>2, SavesIInv, PTL DEF Spec, ImplementsStore, Store!Spec
=============================================================================
