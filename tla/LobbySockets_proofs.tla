------------------------ MODULE LobbySockets_proofs ------------------------
(***************************************************************************)
(* Proofs that the invariants of LobbySockets hold for any clients,        *)
(* windows and chunks.  IInv is inductive: SentOnce needs the shape of the *)
(* lobby thread's state, and RequestsInOrder needs the whole stream of a   *)
(* client, from what was handled to what has not been received.            *)
(***************************************************************************)
EXTENDS LobbySockets, SequenceTheorems, TLAPS

(* What the bytes that come in must satisfy. *)
Framing == StreamInOrder /\ HandledBefore /\ WholeBehindEmpty

LEMMA InitIInv == Init => IInv
<1> SUFFICES ASSUME Init PROVE IInv
    OBVIOUS
<1> USE DEF Init, Idle
<1>1. TypeOK
    BY SizesAssumption, BoundsAssumption, EmptySeq DEF TypeOK, LobbyPcs
<1>2. LobbyShape /\ AheadOfBuffer /\ SentOnce /\ OnlineAreListed
    BY ClientsAssumption
    DEF LobbyShape, AheadOfBuffer, SentOnce, OnlineAreListed, Online, At, Connected, Sent
<1>3. StreamInOrder /\ HandledBefore /\ WholeBehindEmpty
    BY DEF StreamInOrder, HandledBefore, WholeBehindEmpty, Left, FirstLeft, UnitLeft,
           IsWhole, Following, HasBody
<1>. QED
    BY <1>1, <1>2, <1>3 DEF IInv

(* Sending a message to some clients, or two. *)
LEMMA SendEffect ==
    ASSUME TypeOK, NEW count \in [Clients -> Nat], Send(count)
    PROVE  /\ pending' \in [Clients -> Nat]
           /\ \A c \in Clients : pending'[c] >= pending[c]
           /\ ahead' = ahead /\ unread' = unread
<1>1. pending \in [Clients -> Nat] /\ ahead' = ahead /\ unread' = unread
    BY DEF TypeOK, Send
<1>2. pending' = [c \in Clients |-> pending[c] + count[c]]
    BY DEF Send
<1>3. \A c \in Clients : /\ pending[c] + count[c] \in Nat
                         /\ pending[c] + count[c] >= pending[c]
    BY <1>1
<1>. QED
    BY <1>1, <1>2, <1>3

LEMMA ToldType ==
    ASSUME NEW clients
    PROVE  Told(clients) \in [Clients -> Nat]
BY DEF Told

LEMMA FarewellType ==
    ASSUME NEW c \in Clients, NEW own \in Nat
    PROVE  FarewellAnd(c, own) \in [Clients -> Nat]
<1>1. Told(Farewell(c)) \in [Clients -> Nat]
    BY ToldType
<1>. QED
    BY <1>1 DEF FarewellAnd

(* The lobby thread turns to a client, or is done with one. *)
LEMMA ServeEffect ==
    ASSUME TypeOK, LobbyShape, NEW c \in Clients, NEW pc \in LobbyPcs, Serves(c), Serve(c, pc)
    PROVE  lobby' = [pc |-> pc, todo |-> lobby.todo \ {c}, client |-> c,
                     total |-> 0, sent |-> 0]
BY DEF TypeOK, LobbyShape, Serves, Serve, At

LEMMA DoneEffect ==
    ASSUME TypeOK, DoneWith
    PROVE  lobby' = [pc |-> "next", todo |-> lobby.todo, client |-> NoClient,
                     total |-> 0, sent |-> 0]
BY DEF TypeOK, DoneWith

LEMMA GotoEffect ==
    ASSUME TypeOK, NEW pc, Goto(pc)
    PROVE  lobby' = [pc |-> pc, todo |-> lobby.todo, client |-> lobby.client,
                     total |-> lobby.total, sent |-> lobby.sent]
BY DEF TypeOK, Goto

(* What does not change the bytes that come in, nor ends the handling of  *)
(* requests before its time, keeps Framing.                                *)
LEMMA FramingStays ==
    ASSUME TypeOK, Framing, UNCHANGED inVars,
           \A c \in Clients : IsWhole(c) /\ Processing(c) => Processing(c)'
    PROVE  Framing'
<1> USE DEF Framing, inVars
<1>1. \A c \in Clients : /\ Left(c)' = Left(c) /\ FirstLeft(c)' = FirstLeft(c)
                         /\ IsWhole(c)' = IsWhole(c) /\ First(c)' = First(c)
    BY DEF Left, FirstLeft, UnitLeft, IsWhole, First, FirstKind
<1>2. StreamInOrder'
  <2>1. \A c \in Clients, i \in Nat :
            UnitLeft(c, i)' = UnitLeft(c, i)
      BY DEF UnitLeft
  <2>. QED
    <3>1. ASSUME NEW c \in Clients
          PROVE  /\ DOMAIN packets'[c] = DOMAIN packets[c]
                 /\ Len(packets[c])' = Len(packets[c])
                 /\ Left(c) \in Nat
        BY DEF TypeOK, Left
    <3>2. ASSUME NEW c \in Clients, NEW i \in 1..Left(c)
          PROVE  Following(c, UnitLeft(c, i))' = Following(c, UnitLeft(c, i))
        BY <2>1, <3>1 DEF Following, HasBody
    <3>. QED
        BY <1>1, <2>1, <3>1, <3>2 DEF StreamInOrder
<1>3. HandledBefore'
    BY <1>1 DEF HandledBefore, IsHandled
<1>4. WholeBehindEmpty'
    BY <1>1 DEF WholeBehindEmpty
<1>. QED
    BY <1>2, <1>3, <1>4

(***************************************************************************)
(* The stream of a client.                                                 *)

LEMMA LeftTypes ==
    ASSUME TypeOK, NEW c \in Clients
    PROVE  /\ Len(inbox[c]) \in Nat
           /\ Len(readBuf[c]) \in Nat
           /\ Left(c) = Len(readBuf[c]) + Len(inbox[c])
           /\ Left(c) \in Nat
<1>1. inbox[c] \in Seq(InUnit) /\ readBuf[c] \in Seq(InUnit)
    BY DEF TypeOK
<1>2. Len(inbox[c]) \in Nat /\ Len(readBuf[c]) \in Nat
    BY <1>1, LenProperties
<1> DEFINE rb == Len(readBuf[c])
           ib == Len(inbox[c])
<1>3. rb \in Nat /\ ib \in Nat
    BY <1>2
<1>4. Left(c) = rb + ib
    BY DEF Left
<1> HIDE DEF rb, ib
<1>5. Left(c) \in Nat
    BY <1>3, <1>4
<1>. QED
    BY <1>2, <1>4, <1>5 DEF rb, ib

(* The same facts, with names for the lengths. *)
LEMMA LeftSizes ==
    ASSUME TypeOK, NEW c \in Clients
    PROVE  \E rb, ib \in Nat :
               rb = Len(readBuf[c]) /\ ib = Len(inbox[c]) /\ Left(c) = rb + ib
BY LeftTypes

LEMMA ClientTypes ==
    ASSUME TypeOK, NEW c \in Clients
    PROVE  /\ packets[c] \in Seq(Kinds) /\ Len(packets[c]) \in Nat
           /\ DOMAIN packets[c] = 1..Len(packets[c])
           /\ inbox[c] \in Seq(InUnit) /\ Len(inbox[c]) \in Nat
           /\ readBuf[c] \in Seq(InUnit) /\ Len(readBuf[c]) \in Nat
           /\ handled[c] \in Seq(1..MaxPackets) /\ Len(handled[c]) \in Nat
           /\ DOMAIN handled[c] = 1..Len(handled[c])
           /\ \A i \in 1..Len(handled[c]) : handled[c][i] \in 1..MaxPackets
           /\ Left(c) \in Nat
           /\ \A i \in 1..Left(c) : UnitLeft(c, i) \in InUnit
<1>1. /\ packets[c] \in Seq(Kinds)
      /\ inbox[c] \in Seq(InUnit)
      /\ readBuf[c] \in Seq(InUnit)
      /\ handled[c] \in Seq(1..MaxPackets)
    BY DEF TypeOK
<1>2. /\ Len(packets[c]) \in Nat /\ DOMAIN packets[c] = 1..Len(packets[c])
      /\ Len(handled[c]) \in Nat /\ DOMAIN handled[c] = 1..Len(handled[c])
      /\ handled[c] \in [1..Len(handled[c]) -> 1..MaxPackets]
    BY <1>1, LenProperties
<1>3. /\ Len(inbox[c]) \in Nat /\ inbox[c] \in [1..Len(inbox[c]) -> InUnit]
      /\ Len(readBuf[c]) \in Nat /\ readBuf[c] \in [1..Len(readBuf[c]) -> InUnit]
    BY <1>1, LenProperties
<1>4. Left(c) \in Nat
    BY LeftTypes
<1>5. \A i \in 1..Left(c) : UnitLeft(c, i) \in InUnit
  <2> SUFFICES ASSUME NEW i \in 1..Left(c) PROVE UnitLeft(c, i) \in InUnit
      OBVIOUS
  <2>1. CASE i <= Len(readBuf[c])
      BY <1>3, <2>1 DEF UnitLeft
  <2>2. CASE ~(i <= Len(readBuf[c]))
    <3>1. i - Len(readBuf[c]) \in 1..Len(inbox[c])
      <4>1. PICK rb, ib \in Nat :
                rb = Len(readBuf[c]) /\ ib = Len(inbox[c]) /\ Left(c) = rb + ib
          BY LeftSizes
      <4>2. i \in 1..(rb + ib)
          BY <4>1
      <4>3. ~(i <= rb)
          BY <2>2, <4>1
      <4>4. i - rb \in 1..ib
          BY <4>2, <4>3
      <4>. QED
          BY <4>1, <4>4
    <3>. QED
        BY <1>3, <2>2, <3>1 DEF UnitLeft
  <2>. QED
      BY <2>1, <2>2
<1>. QED
    BY <1>1, <1>2, <1>3, <1>4, <1>5

(* The first packet that is left follows those of before. *)
LEMMA FirstLeftBounds ==
    ASSUME TypeOK, StreamInOrder, NEW c \in Clients
    PROVE  FirstLeft(c) \in 1..(Len(packets[c]) + 1)
<1>1. CASE Left(c) = 0
    BY <1>1, ClientTypes DEF FirstLeft
<1>2. CASE Left(c) > 0
  <2>1. UnitLeft(c, 1).packet \in 1..Len(packets[c])
      BY <1>2, ClientTypes DEF StreamInOrder
  <2>. QED
      BY <1>2, <2>1, ClientTypes DEF FirstLeft
<1>. QED
    BY <1>1, <1>2, ClientTypes

(* A whole packet starts at the first unit left. *)
LEMMA FirstUnit ==
    ASSUME TypeOK, StreamInOrder, NEW c \in Clients, readBuf[c] # <<>>
    PROVE  /\ Len(readBuf[c]) >= 1 /\ Left(c) >= 1
           /\ First(c) = UnitLeft(c, 1)
           /\ First(c).part = "length"
           /\ First(c).packet = FirstLeft(c)
           /\ FirstLeft(c) \in 1..Len(packets[c])
           /\ FirstLeft(c) \in 1..MaxPackets
           /\ FirstKind(c) = packets[c][FirstLeft(c)]
<1>1. Len(readBuf[c]) >= 1 /\ Left(c) >= 1
  <2>1. readBuf[c] \in Seq(InUnit)
      BY ClientTypes
  <2>2. Len(readBuf[c]) \in Nat \ {0}
      BY <2>1, EmptySeq
  <2>. QED
    <3>1. PICK rb, ib \in Nat :
              rb = Len(readBuf[c]) /\ ib = Len(inbox[c]) /\ Left(c) = rb + ib
        BY LeftSizes
    <3>2. rb # 0
        BY <2>2, <3>1
    <3>3. rb >= 1 /\ rb + ib >= 1
        BY <3>2
    <3>. QED
        BY <3>1, <3>3
<1>2. First(c) = UnitLeft(c, 1)
    BY <1>1, ClientTypes DEF First, UnitLeft
<1>3. First(c).packet = FirstLeft(c)
    BY <1>1, <1>2 DEF FirstLeft
<1>4. First(c).part = "length" /\ FirstLeft(c) \in 1..Len(packets[c])
    BY <1>1, <1>2, <1>3, ClientTypes DEF StreamInOrder
<1>5. UnitLeft(c, 1) \in InUnit
    BY <1>1, ClientTypes
<1>. QED
    BY <1>1, <1>2, <1>3, <1>4, <1>5 DEF FirstKind, InUnit

(* Units that only move from the inbox to the buffer. *)
LEMMA SameUnits ==
    ASSUME TypeOK, StreamInOrder, HandledBefore, UNCHANGED <<packets, handled>>,
           \A c \in Clients : /\ Left(c)' = Left(c)
                              /\ \A i \in 1..Left(c) : UnitLeft(c, i)' = UnitLeft(c, i)
    PROVE  StreamInOrder' /\ HandledBefore'
<1>1. \A c \in Clients : FirstLeft(c)' = FirstLeft(c)
    BY ClientTypes DEF FirstLeft
<1>2. HandledBefore'
    BY <1>1 DEF HandledBefore, IsHandled
<1>3. ASSUME NEW c \in Clients, NEW i \in 1..Left(c)
      PROVE  Following(c, UnitLeft(c, i))' = Following(c, UnitLeft(c, i))
    BY <1>3 DEF Following, HasBody
<1>4. ASSUME NEW c \in Clients, NEW i \in 1..Left(c), i < Left(c)
      PROVE  UnitLeft(c, i + 1)' = UnitLeft(c, i + 1)
    BY <1>4, ClientTypes
<1>5. StreamInOrder'
    BY <1>3, <1>4, ClientTypes DEF StreamInOrder
<1>. QED
    BY <1>2, <1>5

LEMMA ReadSomeFraming ==
    ASSUME IInv, NEW c \in Clients, NEW n \in Nat, ReadSome(c, n)
    PROVE  /\ readBuf' \in [Clients -> Seq(InUnit)]
           /\ inbox' \in [Clients -> Seq(InUnit)]
           /\ Framing'
<1> USE DEF IInv
<1> DEFINE got == SubSeq(inbox[c], 1, n)
           rest == SubSeq(inbox[c], n + 1, Len(inbox[c]))
<1>1. /\ n \in 1..Len(inbox[c])
      /\ readBuf' = [readBuf EXCEPT ![c] = readBuf[c] \o got]
      /\ inbox' = [inbox EXCEPT ![c] = rest]
      /\ UNCHANGED <<packets, handled>>
      /\ lobby.pc \in {"accept", "next"}
      /\ lobby' = [lobby EXCEPT !.pc = "process", !.todo = lobby.todo \ {c}, !.client = c]
    BY DEF ReadSome, Serves, Serve
<1>2. \A i \in 1..Len(inbox[c]) : inbox[c][i] \in InUnit
    BY ClientTypes, ElementOfSeq
<1>3. /\ got \in Seq(InUnit) /\ Len(got) = n
      /\ \A i \in 1..n : got[i] = inbox[c][i]
  <2>1. \A i \in 1..n : inbox[c][i] \in InUnit
      BY <1>1, <1>2, ClientTypes
  <2>2. /\ SubSeq(inbox[c], 1, n) \in Seq(InUnit)
        /\ Len(SubSeq(inbox[c], 1, n)) = IF 1 <= n THEN n - 1 + 1 ELSE 0
        /\ \A i \in 1..(n - 1 + 1) : SubSeq(inbox[c], 1, n)[i] = inbox[c][1 + i - 1]
      BY <2>1, <1>1, SubSeqProperties
  <2>. QED
      BY <1>1, <2>2, ClientTypes
<1>4. /\ rest \in Seq(InUnit) /\ Len(rest) = Len(inbox[c]) - n
      /\ \A i \in 1..(Len(inbox[c]) - n) : rest[i] = inbox[c][n + i]
  <2>1. \A i \in (n + 1)..Len(inbox[c]) : inbox[c][i] \in InUnit
      BY <1>1, <1>2, ClientTypes
  <2>2. /\ SubSeq(inbox[c], n + 1, Len(inbox[c])) \in Seq(InUnit)
        /\ Len(SubSeq(inbox[c], n + 1, Len(inbox[c]))) =
               IF n + 1 <= Len(inbox[c]) THEN Len(inbox[c]) - (n + 1) + 1 ELSE 0
        /\ \A i \in 1..(Len(inbox[c]) - (n + 1) + 1) :
               SubSeq(inbox[c], n + 1, Len(inbox[c]))[i] = inbox[c][(n + 1) + i - 1]
      BY <2>1, ClientTypes, SubSeqProperties
  <2>3. Len(rest) = Len(inbox[c]) - n
      BY <1>1, <2>2, LeftTypes
  <2>4. ASSUME NEW i \in 1..(Len(inbox[c]) - n)
        PROVE  rest[i] = inbox[c][n + i]
    <3>1. i \in 1..(Len(inbox[c]) - (n + 1) + 1) /\ (n + 1) + i - 1 = n + i
        BY LeftTypes
    <3>. QED
        BY <2>2, <3>1
  <2>. QED
      BY <2>2, <2>3, <2>4
<1>5. /\ readBuf[c] \o got \in Seq(InUnit)
      /\ Len(readBuf[c] \o got) = Len(readBuf[c]) + n
      /\ \A i \in 1..(Len(readBuf[c]) + n) : (readBuf[c] \o got)[i] =
             IF i <= Len(readBuf[c]) THEN readBuf[c][i] ELSE got[i - Len(readBuf[c])]
  <2>1. readBuf[c] \in Seq(InUnit) /\ got \in Seq(InUnit) /\ Len(got) = n
      BY <1>3, ClientTypes
  <2>. HIDE DEF got
  <2>. QED
      BY <2>1, ConcatProperties
<1> HIDE DEF got, rest
<1>6. readBuf' \in [Clients -> Seq(InUnit)] /\ inbox' \in [Clients -> Seq(InUnit)]
    BY <1>1, <1>4, <1>5 DEF TypeOK
<1>7. readBuf'[c] = readBuf[c] \o got /\ inbox'[c] = rest
    BY <1>1 DEF TypeOK
<1>8. \A d \in Clients \ {c} : readBuf'[d] = readBuf[d] /\ inbox'[d] = inbox[d]
    BY <1>1 DEF TypeOK
<1>9. \A d \in Clients : /\ Left(d)' = Left(d)
                         /\ \A i \in 1..Left(d) : UnitLeft(d, i)' = UnitLeft(d, i)
  <2>1. ASSUME NEW d \in Clients \ {c}
        PROVE  /\ Left(d)' = Left(d)
               /\ \A i \in 1..Left(d) : UnitLeft(d, i)' = UnitLeft(d, i)
      BY <1>8 DEF Left, UnitLeft
  <2>2. Left(c)' = Left(c)
    <3>1. Left(c)' = Len(readBuf'[c]) + Len(inbox'[c])
        BY DEF Left
    <3>. QED
      <4>1. PICK rb, ib \in Nat :
                rb = Len(readBuf[c]) /\ ib = Len(inbox[c]) /\ Left(c) = rb + ib
          BY LeftSizes
      <4>2. Len(readBuf'[c]) = rb + n /\ Len(inbox'[c]) = ib - n
          BY <1>1, <1>4, <1>5, <1>7, <4>1
      <4>3. (rb + n) + (ib - n) = rb + ib
          OBVIOUS
      <4>. QED
          BY <3>1, <4>1, <4>2, <4>3
  <2>3. ASSUME NEW i \in 1..Left(c) PROVE UnitLeft(c, i)' = UnitLeft(c, i)
    <3>1. CASE i <= Len(readBuf[c])
        BY <1>1, <1>5, <1>7, <3>1, ClientTypes DEF UnitLeft, Left
    <3>2. CASE i > Len(readBuf[c]) /\ i <= Len(readBuf[c]) + n
        BY <1>1, <1>3, <1>5, <1>7, <3>2, ClientTypes DEF UnitLeft, Left
    <3>3. CASE i > Len(readBuf[c]) + n
      <4>1. i - (Len(readBuf[c]) + n) \in 1..(Len(inbox[c]) - n)
        <5>1. PICK rb, ib \in Nat :
                  rb = Len(readBuf[c]) /\ ib = Len(inbox[c]) /\ Left(c) = rb + ib
            BY LeftSizes
        <5>2. i \in 1..(rb + ib) /\ n \in 1..ib
            BY <1>1, <5>1
        <5>3. i > rb + n
            BY <3>3, <5>1
        <5>4. i - (rb + n) \in 1..(ib - n)
            BY <5>2, <5>3
        <5>. QED
            BY <5>1, <5>4
      <4>2. rest[i - (Len(readBuf[c]) + n)] = inbox[c][i - Len(readBuf[c])]
        <5>1. n + (i - (Len(readBuf[c]) + n)) = i - Len(readBuf[c])
            BY LeftTypes
        <5>. QED
            BY <1>4, <4>1, <5>1
      <4>. QED
          BY <1>1, <1>5, <1>7, <3>3, <4>2, ClientTypes DEF UnitLeft
    <3>. QED
        BY <3>1, <3>2, <3>3, ClientTypes
  <2>. QED
      BY <2>1, <2>2, <2>3
<1>10. StreamInOrder' /\ HandledBefore'
    BY <1>1, <1>9, SameUnits
<1>11. WholeBehindEmpty'
  <2>1. lobby'.pc = "process" /\ lobby'.client = c
      BY <1>1 DEF TypeOK
  <2>2. ASSUME NEW d \in Clients \ {c}
        PROVE  IsWhole(d)' = IsWhole(d) /\ First(d)' = First(d) /\ ~Processing(d)
      BY <1>1, <1>8 DEF IsWhole, First, FirstKind, Processing, At
  <2>. QED
      BY <1>1, <2>1, <2>2 DEF WholeBehindEmpty, Processing, At
<1>. QED
    BY <1>6, <1>10, <1>11 DEF Framing

(* The first k units are taken out of the buffer, to the end of a packet. *)
Consumes(c, k) ==
    /\ readBuf[c] # <<>>
    /\ Len(readBuf[c]) >= k
    /\ readBuf' = [readBuf EXCEPT ![c] = SubSeq(@, k + 1, Len(@))]
    /\ UNCHANGED <<packets, inbox>>
    /\ Following(c, UnitLeft(c, k)) = [packet |-> FirstLeft(c) + 1, part |-> "length"]

LEMMA ConsumeUnits ==
    ASSUME TypeOK, StreamInOrder, NEW c \in Clients, NEW k \in 1..2, Consumes(c, k)
    PROVE  /\ readBuf' \in [Clients -> Seq(InUnit)]
           /\ k <= Left(c)
           /\ Left(c)' = Left(c) - k
           /\ \A i \in 1..(Left(c) - k) : UnitLeft(c, i)' = UnitLeft(c, i + k)
<1> DEFINE rest == SubSeq(readBuf[c], k + 1, Len(readBuf[c]))
<1>1. PICK rb, ib \in Nat :
          rb = Len(readBuf[c]) /\ ib = Len(inbox[c]) /\ Left(c) = rb + ib
    BY LeftSizes
<1>2. rb >= k
    BY <1>1 DEF Consumes
<1>3. /\ rest \in Seq(InUnit) /\ Len(rest) = rb - k
      /\ \A i \in 1..(rb - k) : rest[i] = readBuf[c][i + k]
  <2>1. \A i \in (k + 1)..rb : readBuf[c][i] \in InUnit
    <3>1. readBuf[c] \in Seq(InUnit) /\ rb = Len(readBuf[c])
        BY <1>1, ClientTypes
    <3>2. \A i \in 1..rb : readBuf[c][i] \in InUnit
        BY <3>1, ElementOfSeq
    <3>3. \A i \in (k + 1)..rb : i \in 1..rb
        OBVIOUS
    <3>. QED
        BY <3>2, <3>3
  <2>2. /\ SubSeq(readBuf[c], k + 1, rb) \in Seq(InUnit)
        /\ Len(SubSeq(readBuf[c], k + 1, rb)) = IF k + 1 <= rb THEN rb - (k + 1) + 1 ELSE 0
        /\ \A i \in 1..(rb - (k + 1) + 1) :
               SubSeq(readBuf[c], k + 1, rb)[i] = readBuf[c][(k + 1) + i - 1]
      BY <2>1, SubSeqProperties
  <2>3. rest = SubSeq(readBuf[c], k + 1, rb)
      BY <1>1
  <2>4. (IF k + 1 <= rb THEN rb - (k + 1) + 1 ELSE 0) = rb - k
      BY <1>2
  <2>5. \A i \in 1..(rb - k) : i \in 1..(rb - (k + 1) + 1) /\ (k + 1) + i - 1 = i + k
      OBVIOUS
  <2> HIDE DEF rest
  <2>. QED
      BY <2>2, <2>3, <2>4, <2>5
<1>4. readBuf' = [readBuf EXCEPT ![c] = rest] /\ inbox' = inbox
    BY DEF Consumes
<1> HIDE DEF rest
<1>5. readBuf' \in [Clients -> Seq(InUnit)] /\ readBuf'[c] = rest
    BY <1>3, <1>4 DEF TypeOK
<1>6. Left(c)' = Left(c) - k
  <2>1. Left(c)' = Len(readBuf'[c]) + Len(inbox'[c])
      BY DEF Left
  <2>2. Len(readBuf'[c]) = rb - k /\ Len(inbox'[c]) = ib
      BY <1>1, <1>3, <1>4, <1>5
  <2>3. (rb - k) + ib = (rb + ib) - k
      OBVIOUS
  <2>. QED
      BY <1>1, <2>1, <2>2, <2>3
<1>7. ASSUME NEW i \in 1..(Left(c) - k)
      PROVE  UnitLeft(c, i)' = UnitLeft(c, i + k)
  <2>1. UnitLeft(c, i)' = IF i <= rb - k THEN rest[i] ELSE inbox[c][i - (rb - k)]
      BY <1>3, <1>4, <1>5 DEF UnitLeft
  <2>2. UnitLeft(c, i + k) = IF i + k <= rb THEN readBuf[c][i + k] ELSE inbox[c][(i + k) - rb]
      BY <1>1 DEF UnitLeft
  <2>3. i \in 1..((rb + ib) - k)
      BY <1>1
  <2>4. (i <= rb - k) = (i + k <= rb) /\ i - (rb - k) = (i + k) - rb
      BY <2>3
  <2>5. CASE i <= rb - k
    <3>1. i \in 1..(rb - k)
        BY <2>3, <2>5
    <3>. QED
        BY <1>3, <2>1, <2>2, <2>4, <2>5, <3>1
  <2>6. CASE ~(i <= rb - k)
      BY <2>1, <2>2, <2>4, <2>6
  <2>. QED
      BY <2>5, <2>6
<1>8. k <= Left(c)
  <2>1. k <= rb + ib
      BY <1>2
  <2>. QED
      BY <1>1, <2>1
<1>. QED
    BY <1>5, <1>6, <1>7, <1>8

LEMMA ConsumeStream ==
    ASSUME TypeOK, StreamInOrder, NEW c \in Clients, NEW k \in 1..2, Consumes(c, k)
    PROVE  /\ StreamInOrder'
           /\ FirstLeft(c)' = FirstLeft(c) + 1
           /\ \A d \in Clients \ {c} : /\ FirstLeft(d)' = FirstLeft(d)
                                       /\ IsWhole(d)' = IsWhole(d)
                                       /\ First(d)' = First(d)
<1> DEFINE next == [packet |-> FirstLeft(c) + 1, part |-> "length"]
<1>1. PICK left \in Nat : left = Left(c)
    BY LeftTypes
<1>2. /\ k <= left
      /\ Left(c)' = left - k
      /\ \A i \in 1..(left - k) : UnitLeft(c, i)' = UnitLeft(c, i + k)
    BY <1>1, ConsumeUnits
<1>3. /\ packets' = packets
      /\ Following(c, UnitLeft(c, k)) = next
    BY DEF Consumes
<1>4. \A d \in Clients \ {c} : readBuf'[d] = readBuf[d] /\ inbox'[d] = inbox[d]
    BY DEF Consumes, TypeOK
<1>5. /\ \A i \in 1..left : /\ UnitLeft(c, i).packet \in DOMAIN packets[c]
                            /\ i < left => UnitLeft(c, i + 1) = Following(c, UnitLeft(c, i))
      /\ left > 0 => Following(c, UnitLeft(c, left)) =
                         [packet |-> Len(packets[c]) + 1, part |-> "length"]
    BY <1>1 DEF StreamInOrder
<1>6. /\ left = k => next = [packet |-> Len(packets[c]) + 1, part |-> "length"]
      /\ left > k => UnitLeft(c, k + 1) = next
    BY <1>2, <1>3, <1>5
<1>7. FirstLeft(c)' = FirstLeft(c) + 1
  <2>1. CASE left = k
      BY <1>2, <1>3, <1>6, <2>1 DEF FirstLeft
  <2>2. CASE left > k
    <3>1. 1 \in 1..(left - k) /\ left - k # 0 /\ 1 + k = k + 1
        BY <2>2
    <3>. QED
        BY <1>2, <1>6, <2>2, <3>1 DEF FirstLeft
  <2>. QED
      BY <1>2, <2>1, <2>2
<1>8. ASSUME NEW i \in 1..(left - k)
      PROVE  Following(c, UnitLeft(c, i))' = Following(c, UnitLeft(c, i + k))
    BY <1>2, <1>3, <1>8 DEF Following, HasBody
<1>9. /\ Left(c)' > 0 => UnitLeft(c, 1)'.part = "length"
      /\ \A i \in 1..Left(c)' :
            /\ UnitLeft(c, i)'.packet \in DOMAIN packets'[c]
            /\ i < Left(c)' => UnitLeft(c, i + 1)' = Following(c, UnitLeft(c, i))'
            /\ i = Left(c)' => Following(c, UnitLeft(c, i))' =
                  [packet |-> Len(packets'[c]) + 1, part |-> "length"]
  <2>1. ASSUME left - k > 0 PROVE UnitLeft(c, 1)'.part = "length"
    <3>1. 1 \in 1..(left - k) /\ left > k /\ 1 + k = k + 1
        BY <2>1
    <3>. QED
        BY <1>2, <1>6, <3>1
  <2>2. ASSUME NEW i \in 1..(left - k)
        PROVE  /\ UnitLeft(c, i)'.packet \in DOMAIN packets'[c]
               /\ i < left - k => UnitLeft(c, i + 1)' = Following(c, UnitLeft(c, i))'
               /\ i = left - k => Following(c, UnitLeft(c, i))' =
                     [packet |-> Len(packets'[c]) + 1, part |-> "length"]
    <3>1. /\ i + k \in 1..left /\ (i + k) + 1 = (i + 1) + k
          /\ i < left - k => i + k < left /\ i + 1 \in 1..(left - k)
          /\ i = left - k => i + k = left /\ left > 0
        BY <1>2
    <3>. QED
        BY <1>2, <1>3, <1>5, <1>8, <3>1
  <2>. QED
      BY <1>2, <2>1, <2>2
<1>10. ASSUME NEW d \in Clients \ {c}
       PROVE  /\ FirstLeft(d)' = FirstLeft(d) /\ Left(d)' = Left(d)
              /\ IsWhole(d)' = IsWhole(d) /\ First(d)' = First(d)
              /\ \A i : UnitLeft(d, i)' = UnitLeft(d, i)
              /\ \A i : Following(d, UnitLeft(d, i))' = Following(d, UnitLeft(d, i))
    BY <1>3, <1>4 DEF FirstLeft, Left, UnitLeft, IsWhole, First, FirstKind, Following, HasBody
<1>11. StreamInOrder'
    BY <1>3, <1>9, <1>10 DEF StreamInOrder
<1>. QED
    BY <1>7, <1>10, <1>11

LEMMA ReadEmptyFraming ==
    ASSUME IInv, NEW c \in Clients, ReadEmpty(c)
    PROVE  readBuf' \in [Clients -> Seq(InUnit)] /\ Framing'
<1> USE DEF IInv
<1> DEFINE p == FirstLeft(c)
<1>1. /\ readBuf[c] # <<>> /\ FirstKind(c) = "empty"
      /\ readBuf' = [readBuf EXCEPT ![c] = Tail(readBuf[c])]
      /\ UNCHANGED <<packets, inbox, handled>>
      /\ Processing(c)
    BY DEF ReadEmpty
<1>2. /\ First(c) = UnitLeft(c, 1) /\ First(c).part = "length" /\ First(c).packet = p
      /\ p \in 1..Len(packets[c]) /\ packets[c][p] = "empty"
      /\ Len(readBuf[c]) >= 1
    BY <1>1, FirstUnit
<1>3. Consumes(c, 1)
  <2>1. readBuf' = [readBuf EXCEPT ![c] = SubSeq(@, 1 + 1, Len(@))]
    <3>1. readBuf[c] \in Seq(InUnit)
        BY ClientTypes
    <3>2. Tail(readBuf[c]) = SubSeq(readBuf[c], 2, Len(readBuf[c]))
        BY <1>1, <3>1, TailIsSubSeq
    <3>3. SubSeq(readBuf[c], 1 + 1, Len(readBuf[c])) = Tail(readBuf[c])
      <4>1. 1 + 1 = 2
          OBVIOUS
      <4>. QED
          BY <3>2, <4>1
    <3>. QED
        BY <1>1, <3>3
  <2>2. Following(c, UnitLeft(c, 1)) = [packet |-> p + 1, part |-> "length"]
      BY <1>2 DEF Following, HasBody
  <2>. QED
      BY <1>1, <1>2, <2>1, <2>2 DEF Consumes
<1>4. /\ readBuf' \in [Clients -> Seq(InUnit)]
      /\ StreamInOrder'
      /\ FirstLeft(c)' = p + 1
      /\ \A d \in Clients \ {c} : /\ FirstLeft(d)' = FirstLeft(d)
                                  /\ IsWhole(d)' = IsWhole(d)
                                  /\ First(d)' = First(d)
    BY <1>3, ConsumeUnits, ConsumeStream
<1>5. HandledBefore'
  <2>1. ASSUME NEW d \in Clients
        PROVE  /\ \A n \in 1..(FirstLeft(d)' - 1) :
                     /\ packets[d][n] # "invalid"
                     /\ packets[d][n] = "request" => IsHandled(d, n)
               /\ \A i \in DOMAIN handled[d] :
                     /\ handled[d][i] < FirstLeft(d)'
                     /\ packets[d][handled[d][i]] = "request"
                     /\ \A j \in 1..(i - 1) : handled[d][j] < handled[d][i]
    <3>1. CASE d # c
        BY <1>4, <3>1 DEF HandledBefore
    <3>2. CASE d = c
      <4>1. \A n \in 1..((p + 1) - 1) : n \in 1..(p - 1) \/ n = p
          BY <1>2
      <4>2. \A i \in DOMAIN handled[c] : handled[c][i] < p + 1
        <5>1. \A i \in DOMAIN handled[c] : handled[c][i] < p /\ handled[c][i] \in Int
            BY ClientTypes DEF HandledBefore
        <5>. QED
            BY <1>2, <5>1
      <4>. QED
          BY <1>2, <1>4, <3>2, <4>1, <4>2 DEF HandledBefore
    <3>. QED
        BY <3>1, <3>2
  <2>. QED
      BY <1>1, <2>1 DEF HandledBefore, IsHandled
<1>6. WholeBehindEmpty'
  <2>1. ASSUME NEW d \in Clients, IsWhole(d)', ~Processing(d)'
        PROVE  First(d)'.packet > 1 /\ packets'[d][First(d)'.packet - 1] = "empty"
    <3>1. CASE d # c
      <4>1. ~Processing(d)
          BY <1>1, <3>1 DEF Processing
      <4>. QED
          BY <1>1, <1>4, <2>1, <3>1, <4>1 DEF WholeBehindEmpty
    <3>2. CASE d = c
      <4>1. First(c)'.packet = FirstLeft(c)'
        <5>1. readBuf'[c] # <<>> /\ readBuf'[c] \in Seq(InUnit)
            BY <1>4, <2>1, <3>2 DEF IsWhole
        <5>2. Len(readBuf'[c]) \in Nat \ {0}
            BY <5>1, EmptySeq
        <5>3. PICK rb, ib \in Nat : rb = Len(readBuf'[c]) /\ ib = Len(inbox'[c]) /\ Left(c)' = rb + ib
          <6>1. inbox'[c] = inbox[c]
              BY <1>1
          <6>2. Len(inbox[c]) \in Nat
              BY LeftTypes
          <6>. QED
              BY <5>2, <6>1, <6>2 DEF Left
        <5>4. 1 <= rb
            BY <5>2, <5>3
        <5>5. rb + ib # 0
            BY <5>4
        <5>6. First(c)' = UnitLeft(c, 1)'
            BY <5>3, <5>4 DEF First, UnitLeft
        <5>. QED
            BY <5>3, <5>5, <5>6 DEF FirstLeft
      <4>. QED
          BY <1>1, <1>2, <1>4, <3>2, <4>1
    <3>. QED
        BY <3>1, <3>2
  <2>. QED
      BY <2>1 DEF WholeBehindEmpty
<1>. QED
    BY <1>4, <1>5, <1>6 DEF Framing

LEMMA HandleFraming ==
    ASSUME IInv, NEW c \in Clients, Handle(c)
    PROVE  /\ readBuf' \in [Clients -> Seq(InUnit)]
           /\ handled' \in [Clients -> Seq(1..MaxPackets)]
           /\ Framing'
<1> USE DEF IInv
<1> DEFINE p == FirstLeft(c)
<1>1. /\ readBuf[c] # <<>> /\ FirstKind(c) = "request" /\ Len(readBuf[c]) >= 2
      /\ readBuf' = [readBuf EXCEPT ![c] = SubSeq(readBuf[c], 3, Len(readBuf[c]))]
      /\ handled' = [handled EXCEPT ![c] = Append(handled[c], First(c).packet)]
      /\ UNCHANGED <<packets, inbox, lobby>>
      /\ Processing(c)
    BY DEF Handle, IsWhole
<1>2. /\ First(c) = UnitLeft(c, 1) /\ First(c).part = "length" /\ First(c).packet = p
      /\ p \in 1..Len(packets[c]) /\ p \in 1..MaxPackets /\ packets[c][p] = "request"
    BY <1>1, FirstUnit
<1>3. Consumes(c, 2)
  <2>1. readBuf' = [readBuf EXCEPT ![c] = SubSeq(@, 2 + 1, Len(@))]
    <3>1. 2 + 1 = 3
        OBVIOUS
    <3>. QED
        BY <1>1, <3>1
  <2>2. UnitLeft(c, 1 + 1) = [packet |-> p, part |-> "body"]
    <3>1. Following(c, UnitLeft(c, 1)) = [packet |-> p, part |-> "body"]
        BY <1>2 DEF Following, HasBody
    <3>2. 1 \in 1..Left(c) /\ 1 < Left(c)
      <4>1. PICK rb, ib \in Nat :
                rb = Len(readBuf[c]) /\ ib = Len(inbox[c]) /\ Left(c) = rb + ib
          BY LeftSizes
      <4>2. rb >= 2
          BY <1>1, <4>1
      <4>3. 1 \in 1..(rb + ib) /\ 1 < rb + ib
          BY <4>2
      <4>. QED
          BY <4>1, <4>3
    <3>. QED
        BY <3>1, <3>2 DEF StreamInOrder
  <2>3. Following(c, UnitLeft(c, 2)) = [packet |-> p + 1, part |-> "length"]
    <3>1. UnitLeft(c, 2) = [packet |-> p, part |-> "body"]
      <4>1. 1 + 1 = 2
          OBVIOUS
      <4>. QED
          BY <2>2, <4>1
    <3>. QED
        BY <3>1 DEF Following, HasBody
  <2>. QED
      BY <1>1, <2>1, <2>3 DEF Consumes
<1>4. /\ readBuf' \in [Clients -> Seq(InUnit)]
      /\ StreamInOrder'
      /\ FirstLeft(c)' = p + 1
      /\ \A d \in Clients \ {c} : /\ FirstLeft(d)' = FirstLeft(d)
                                  /\ IsWhole(d)' = IsWhole(d)
                                  /\ First(d)' = First(d)
    BY <1>3, ConsumeUnits, ConsumeStream
<1>5. PICK len \in Nat :
          /\ len = Len(handled[c])
          /\ DOMAIN handled[c] = 1..len
          /\ Append(handled[c], p) \in Seq(1..MaxPackets)
          /\ DOMAIN Append(handled[c], p) = 1..(len + 1)
          /\ \A i \in 1..len : Append(handled[c], p)[i] = handled[c][i]
          /\ Append(handled[c], p)[len + 1] = p
  <2>1. handled[c] \in Seq(1..MaxPackets) /\ p \in 1..MaxPackets
      BY <1>2, ClientTypes
  <2>2. PICK len \in Nat : len = Len(handled[c])
      BY ClientTypes
  <2>3. DOMAIN handled[c] = 1..len
      BY <2>2, ClientTypes
  <2>4. /\ Append(handled[c], p) \in Seq(1..MaxPackets)
        /\ Len(Append(handled[c], p)) = len + 1
        /\ \A i \in 1..len : Append(handled[c], p)[i] = handled[c][i]
        /\ Append(handled[c], p)[len + 1] = p
      BY <2>1, <2>2, AppendProperties
  <2>5. DOMAIN Append(handled[c], p) = 1..(len + 1)
      BY <2>4, LenProperties
  <2>. QED
      BY <2>2, <2>3, <2>4, <2>5
<1>6. /\ handled' = [handled EXCEPT ![c] = Append(handled[c], p)]
      /\ handled' \in [Clients -> Seq(1..MaxPackets)]
      /\ handled'[c] = Append(handled[c], p)
      /\ \A d \in Clients \ {c} : handled'[d] = handled[d]
    BY <1>1, <1>2, <1>5 DEF TypeOK
<1>7. HandledBefore'
  <2>1. ASSUME NEW d \in Clients \ {c}
        PROVE  /\ FirstLeft(d)' = FirstLeft(d) /\ handled'[d] = handled[d]
               /\ packets'[d] = packets[d]
      BY <1>1, <1>4, <1>6
  <2>2. ASSUME NEW n \in 1..(FirstLeft(c)' - 1)
        PROVE  packets[c][n] # "invalid"
               /\ (packets[c][n] = "request" => \E i \in DOMAIN handled'[c] : handled'[c][i] = n)
    <3>1. CASE n = p
      <4>1. len + 1 \in 1..(len + 1)
          OBVIOUS
      <4>. QED
          BY <1>2, <1>5, <1>6, <3>1, <4>1
    <3>2. CASE n # p
      <4>1. n \in 1..(p - 1)
          BY <1>2, <1>4, <3>2
      <4>2. packets[c][n] # "invalid" /\ (packets[c][n] = "request" => IsHandled(c, n))
          BY <4>1 DEF HandledBefore
      <4>3. \A i \in 1..len : i \in 1..(len + 1)
          OBVIOUS
      <4>. QED
          BY <1>5, <1>6, <4>2, <4>3 DEF IsHandled
    <3>. QED
        BY <3>1, <3>2
  <2>3. ASSUME NEW i \in DOMAIN handled'[c]
        PROVE  /\ handled'[c][i] < FirstLeft(c)'
               /\ packets[c][handled'[c][i]] = "request"
               /\ \A j \in 1..(i - 1) : handled'[c][j] < handled'[c][i]
    <3>1. \A k \in 1..len : handled[c][k] < p /\ handled[c][k] \in Int
        BY <1>5, ClientTypes DEF HandledBefore
    <3>2. CASE i = len + 1
      <4>1. \A j \in 1..(i - 1) : j \in 1..len
          BY <3>2
      <4>2. \A j \in 1..(i - 1) : handled'[c][j] = handled[c][j] /\ handled[c][j] < p
          BY <1>5, <1>6, <3>1, <4>1
      <4>3. handled'[c][i] = p /\ p < p + 1
          BY <1>2, <1>5, <1>6, <3>2
      <4>4. \A j \in 1..(i - 1) : handled'[c][j] < p
          BY <4>2
      <4>. QED
          BY <1>2, <1>4, <4>3, <4>4
    <3>3. CASE i # len + 1
      <4>1. i \in 1..len
          BY <1>5, <1>6, <3>3
      <4>2. \A j \in 1..(i - 1) : j \in 1..len
          BY <4>1
      <4>3. handled[c][i] < p + 1
          BY <1>2, <3>1, <4>1
      <4>4. /\ packets[c][handled[c][i]] = "request"
            /\ \A j \in 1..(i - 1) : handled[c][j] < handled[c][i]
          BY <1>5, <4>1 DEF HandledBefore
      <4>. QED
          BY <1>4, <1>5, <1>6, <4>1, <4>2, <4>3, <4>4
    <3>. QED
        BY <3>2, <3>3
  <2>. QED
      BY <1>1, <2>1, <2>2, <2>3 DEF HandledBefore, IsHandled
<1>8. WholeBehindEmpty'
  <2>1. ASSUME NEW d \in Clients, IsWhole(d)', ~Processing(d)'
        PROVE  d # c /\ ~Processing(d)
      BY <1>1, <2>1 DEF Processing, At
  <2>. QED
      BY <1>1, <1>4, <2>1 DEF WholeBehindEmpty
<1>. QED
    BY <1>4, <1>6, <1>7, <1>8 DEF Framing

LEMMA SendPacketFraming ==
    ASSUME IInv, NEW c \in Clients, NEW kind \in Kinds, SendPacket(c, kind)
    PROVE  /\ packets' \in [Clients -> Seq(Kinds)]
           /\ inbox' \in [Clients -> Seq(InUnit)]
           /\ Framing'
<1> USE DEF IInv
<1>1. PICK len \in Nat :
          /\ len = Len(packets[c]) /\ len + 1 \in 1..MaxPackets
          /\ DOMAIN packets[c] = 1..len
          /\ packets[c] \in Seq(Kinds)
  <2>1. PICK len \in Nat : len = Len(packets[c])
      BY ClientTypes
  <2>2. len < MaxPackets
      BY <2>1 DEF SendPacket
  <2>3. len + 1 \in 1..MaxPackets
      BY <2>2, BoundsAssumption
  <2>. QED
      BY <2>1, <2>3, ClientTypes
<1> DEFINE new == Packet(len + 1, kind)
<1>2. /\ packets' = [packets EXCEPT ![c] = Append(packets[c], kind)]
      /\ inbox' = [inbox EXCEPT ![c] = inbox[c] \o new]
      /\ UNCHANGED <<readBuf, handled, lobby>>
    BY <1>1 DEF SendPacket
<1>3. PICK k \in 1..2 :
          /\ new \in Seq(InUnit) /\ Len(new) = k
          /\ new[1] = [packet |-> len + 1, part |-> "length"]
          /\ kind = "request" <=> k = 2
          /\ k = 2 => new[2] = [packet |-> len + 1, part |-> "body"]
  <2>1. /\ [packet |-> len + 1, part |-> "length"] \in InUnit
        /\ [packet |-> len + 1, part |-> "body"] \in InUnit
      BY <1>1 DEF InUnit
  <2>2. CASE kind = "request"
      BY <2>1, <2>2 DEF Packet
  <2>3. CASE kind # "request"
      BY <2>1, <2>3 DEF Packet
  <2>. QED
      BY <2>2, <2>3
<1> HIDE DEF new
<1>4. /\ Append(packets[c], kind) \in Seq(Kinds)
      /\ Len(Append(packets[c], kind)) = len + 1
      /\ DOMAIN Append(packets[c], kind) = 1..(len + 1)
      /\ \A n \in 1..len : Append(packets[c], kind)[n] = packets[c][n]
      /\ Append(packets[c], kind)[len + 1] = kind
  <2>1. /\ Append(packets[c], kind) \in Seq(Kinds)
        /\ Len(Append(packets[c], kind)) = len + 1
        /\ \A n \in 1..len : Append(packets[c], kind)[n] = packets[c][n]
        /\ Append(packets[c], kind)[len + 1] = kind
      BY <1>1, AppendProperties
  <2>2. DOMAIN Append(packets[c], kind) = 1..(len + 1)
      BY <2>1, LenProperties
  <2>. QED
      BY <2>1, <2>2
<1>5. PICK rb, ib \in Nat :
          rb = Len(readBuf[c]) /\ ib = Len(inbox[c]) /\ Left(c) = rb + ib
    BY LeftSizes
<1>6. /\ inbox[c] \o new \in Seq(InUnit)
      /\ Len(inbox[c] \o new) = ib + k
      /\ \A i \in 1..(ib + k) : (inbox[c] \o new)[i] = IF i <= ib THEN inbox[c][i] ELSE new[i - ib]
  <2>1. inbox[c] \in Seq(InUnit) /\ new \in Seq(InUnit) /\ Len(new) = k
      BY <1>3, ClientTypes
  <2>. QED
      BY <1>5, <2>1, ConcatProperties
<1>7. /\ packets' \in [Clients -> Seq(Kinds)]
      /\ inbox' \in [Clients -> Seq(InUnit)]
      /\ packets'[c] = Append(packets[c], kind)
      /\ inbox'[c] = inbox[c] \o new
      /\ \A d \in Clients \ {c} : packets'[d] = packets[d] /\ inbox'[d] = inbox[d]
    BY <1>2, <1>4, <1>6 DEF TypeOK
<1> DEFINE left == rb + ib
<1>8. Left(c)' = left + k
  <2>1. Left(c)' = Len(readBuf'[c]) + Len(inbox'[c])
      BY DEF Left
  <2>2. Len(readBuf'[c]) = rb /\ Len(inbox'[c]) = ib + k
      BY <1>2, <1>5, <1>6, <1>7
  <2>3. rb + (ib + k) = (rb + ib) + k
      OBVIOUS
  <2>. QED
      BY <2>1, <2>2, <2>3
<1>9. ASSUME NEW i \in 1..left
      PROVE  UnitLeft(c, i)' = UnitLeft(c, i)
  <2>1. CASE i <= rb
      BY <1>2, <1>5, <2>1 DEF UnitLeft
  <2>2. CASE ~(i <= rb)
    <3>1. i - rb \in 1..(ib + k) /\ i - rb <= ib
        BY <2>2
    <3>2. inbox'[c][i - rb] = inbox[c][i - rb]
        BY <1>6, <1>7, <3>1
    <3>. QED
        BY <1>2, <1>5, <2>2, <3>2 DEF UnitLeft
  <2>. QED
      BY <2>1, <2>2
<1>10. ASSUME NEW i \in 1..k
       PROVE  UnitLeft(c, left + i)' = new[i]
  <2>1. PICK j \in 1..(ib + k) : j = ib + i
      OBVIOUS
  <2>2. PICK m \in Nat : m = left + i
      OBVIOUS
  <2>3. ~(m <= rb) /\ m - rb = j /\ ~(j <= ib) /\ j - ib = i
      BY <2>1, <2>2
  <2>4. \A x \in 1..(ib + k) :
            (inbox[c] \o new)[x] = IF x <= ib THEN inbox[c][x] ELSE new[x - ib]
      BY <1>6
  <2>5. inbox'[c][j] = new[i]
      BY <1>7, <2>3, <2>4
  <2>6. UnitLeft(c, m)' = IF m <= rb THEN readBuf[c][m] ELSE inbox'[c][m - rb]
      BY <1>2, <1>5 DEF UnitLeft
  <2>7. UnitLeft(c, m)' = new[i]
      BY <2>3, <2>5, <2>6
  <2>. QED
      BY <2>2, <2>7
<1>11. /\ \A i \in 1..left :
            /\ UnitLeft(c, i).packet \in 1..len
            /\ i < left => UnitLeft(c, i + 1) = Following(c, UnitLeft(c, i))
       /\ left > 0 => /\ UnitLeft(c, 1).part = "length"
                      /\ Following(c, UnitLeft(c, left)) =
                             [packet |-> len + 1, part |-> "length"]
  <2>1. left > 0 => left \in 1..left
      OBVIOUS
  <2>. QED
      BY <1>1, <1>5, <2>1 DEF StreamInOrder
<1>12. ASSUME NEW unit, unit.packet \in 1..len
       PROVE  Following(c, unit)' = Following(c, unit)
    BY <1>4, <1>7, <1>12 DEF Following, HasBody
<1>13. /\ Following(c, new[1])' = IF k = 2 THEN [packet |-> len + 1, part |-> "body"]
                                  ELSE [packet |-> (len + 1) + 1, part |-> "length"]
       /\ k = 2 => Following(c, new[2])' = [packet |-> (len + 1) + 1, part |-> "length"]
    BY <1>3, <1>4, <1>7 DEF Following, HasBody
<1>14. /\ UnitLeft(c, 1)'.part = "length"
       /\ \A i \in 1..(left + k) :
            /\ UnitLeft(c, i)'.packet \in 1..(len + 1)
            /\ i < left + k => UnitLeft(c, i + 1)' = Following(c, UnitLeft(c, i))'
            /\ i = left + k => Following(c, UnitLeft(c, i))' =
                  [packet |-> (len + 1) + 1, part |-> "length"]
  <2>1. UnitLeft(c, left + 1)' = new[1] /\ (k = 2 => UnitLeft(c, left + 2)' = new[2])
    <3>1. 1 \in 1..k /\ (k = 2 => 2 \in 1..k)
        OBVIOUS
    <3>. QED
        BY <1>10, <3>1
  <2>2. UnitLeft(c, 1)'.part = "length"
    <3>1. CASE left = 0
        BY <1>3, <2>1, <3>1
    <3>2. CASE left # 0
      <4>1. 1 \in 1..left /\ left > 0
          BY <3>2
      <4>. QED
          BY <1>9, <1>11, <4>1
    <3>. QED
        BY <3>1, <3>2
  <2>3. ASSUME NEW i \in 1..(left + k)
        PROVE  /\ UnitLeft(c, i)'.packet \in 1..(len + 1)
               /\ i < left + k => UnitLeft(c, i + 1)' = Following(c, UnitLeft(c, i))'
               /\ i = left + k => Following(c, UnitLeft(c, i))' =
                     [packet |-> (len + 1) + 1, part |-> "length"]
    <3>1. CASE i < left
      <4>1. i \in 1..left /\ i + 1 \in 1..left /\ i # left + k
          BY <3>1
      <4>2. \A n \in 1..len : n \in 1..(len + 1)
          OBVIOUS
      <4>. QED
          BY <1>9, <1>11, <1>12, <3>1, <4>1, <4>2
    <3>2. CASE i = left
      <4>1. i \in 1..left /\ left > 0 /\ i # left + k
          BY <3>2
      <4>2. \A n \in 1..len : n \in 1..(len + 1)
          OBVIOUS
      <4>. QED
          BY <1>3, <1>9, <1>11, <1>12, <2>1, <3>2, <4>1, <4>2
    <3>3. CASE i = left + 1
      <4>1. /\ i < left + k <=> k = 2
            /\ i = left + k <=> k # 2
            /\ i + 1 = left + 2
            /\ len + 1 \in 1..(len + 1)
          BY <3>3
      <4>. QED
          BY <1>3, <1>13, <2>1, <3>3, <4>1
    <3>4. CASE i = left + 2
      <4>1. k = 2 /\ ~(i < left + k) /\ len + 1 \in 1..(len + 1)
          BY <3>4
      <4>. QED
          BY <1>3, <1>13, <2>1, <3>4, <4>1
    <3>5. i < left \/ i = left \/ i = left + 1 \/ i = left + 2
        OBVIOUS
    <3>. QED
        BY <3>1, <3>2, <3>3, <3>4, <3>5
  <2>. QED
      BY <2>2, <2>3
<1>15. FirstLeft(c)' = FirstLeft(c)
  <2>1. left + k # 0
      OBVIOUS
  <2>2. FirstLeft(c)' = UnitLeft(c, 1)'.packet
      BY <1>8, <2>1 DEF FirstLeft
  <2>3. CASE left = 0
    <3>1. 1 \in 1..k /\ left + 1 = 1
        BY <2>3
    <3>. QED
      <4>1. UnitLeft(c, 1)' = new[1]
          BY <1>10, <2>3, <3>1
      <4>2. FirstLeft(c) = len + 1
          BY <1>1, <1>5, <2>3 DEF FirstLeft
      <4>. QED
          BY <1>3, <2>2, <4>1, <4>2
  <2>4. CASE left # 0
    <3>1. 1 \in 1..left
        BY <2>4
    <3>. QED
        BY <1>5, <1>9, <2>2, <2>4, <3>1 DEF FirstLeft
  <2>. QED
      BY <2>3, <2>4
<1>16. ASSUME NEW d \in Clients \ {c}
       PROVE  /\ FirstLeft(d)' = FirstLeft(d) /\ Left(d)' = Left(d)
              /\ \A i : UnitLeft(d, i)' = UnitLeft(d, i)
              /\ \A i : Following(d, UnitLeft(d, i))' = Following(d, UnitLeft(d, i))
    BY <1>2, <1>7 DEF FirstLeft, Left, UnitLeft, Following, HasBody
<1>17. StreamInOrder'
  <2>1. DOMAIN packets'[c] = 1..(len + 1) /\ Len(packets'[c]) = len + 1
      BY <1>4, <1>7
  <2>2. ASSUME NEW d \in Clients \ {c}
        PROVE  packets'[d] = packets[d]
      BY <1>7
  <2> DEFINE InOrder(d) ==
          /\ Left(d) > 0 => UnitLeft(d, 1).part = "length"
          /\ \A i \in 1..Left(d) :
                /\ UnitLeft(d, i).packet \in DOMAIN packets[d]
                /\ i < Left(d) => UnitLeft(d, i + 1) = Following(d, UnitLeft(d, i))
                /\ i = Left(d) => Following(d, UnitLeft(d, i)) =
                      [packet |-> Len(packets[d]) + 1, part |-> "length"]
  <2>3. InOrder(c)'
      BY <1>8, <1>14, <2>1
  <2>4. ASSUME NEW d \in Clients \ {c} PROVE InOrder(d)'
    <3>1. InOrder(d)
        BY DEF StreamInOrder
    <3>. QED
        BY <1>16, <2>2, <3>1
  <2>5. ASSUME NEW d \in Clients PROVE InOrder(d)'
      BY <2>3, <2>4
  <2>. QED
      BY <2>5 DEF StreamInOrder
<1>18. \A n \in 1..len : packets'[c][n] = packets[c][n]
    BY <1>4, <1>7
<1>19. HandledBefore'
  <2>1. FirstLeft(c) \in 1..(len + 1)
      BY <1>1, FirstLeftBounds
  <2>2. ASSUME NEW n \in 1..(FirstLeft(c) - 1)
        PROVE  packets'[c][n] = packets[c][n]
    <3>1. n \in 1..len
        BY <2>1
    <3>. QED
        BY <1>18, <3>1
  <2>3. ASSUME NEW i \in DOMAIN handled[c]
        PROVE  packets'[c][handled[c][i]] = packets[c][handled[c][i]]
    <3>1. handled[c][i] \in 1..MaxPackets /\ handled[c][i] < FirstLeft(c)
        BY ClientTypes DEF HandledBefore
    <3>2. handled[c][i] \in 1..len
        BY <2>1, <3>1, BoundsAssumption
    <3>. QED
        BY <1>18, <3>2
  <2>4. ASSUME NEW d \in Clients
        PROVE  /\ FirstLeft(d)' = FirstLeft(d) /\ handled'[d] = handled[d]
               /\ \A n \in 1..(FirstLeft(d) - 1) : packets'[d][n] = packets[d][n]
               /\ \A i \in DOMAIN handled[d] :
                     packets'[d][handled[d][i]] = packets[d][handled[d][i]]
      BY <1>2, <1>7, <1>15, <1>16, <2>2, <2>3
  <2>. QED
      BY <2>4 DEF HandledBefore, IsHandled
<1>20. WholeBehindEmpty'
  <2>1. ASSUME NEW d \in Clients, IsWhole(d)', ~Processing(d)'
        PROVE  First(d)'.packet > 1 /\ packets'[d][First(d)'.packet - 1] = "empty"
    <3>1. First(d)' = First(d) /\ readBuf[d] # <<>> /\ ~Processing(d) /\ Len(readBuf[d]) >= 2
        BY <1>2, <2>1 DEF First, IsWhole, Processing, At
    <3>2. CASE d # c
        BY <1>7, <2>1, <3>1, <3>2 DEF WholeBehindEmpty, IsWhole, FirstKind
    <3>3. CASE d = c
      <4>1. First(c).packet \in 1..len
          BY <1>1, <3>1, <3>3, FirstUnit
      <4>2. FirstKind(c)' = FirstKind(c)
          BY <1>18, <3>1, <3>3, <4>1 DEF FirstKind
      <4>3. First(c).packet > 1 /\ packets[c][First(c).packet - 1] = "empty"
          BY <2>1, <3>1, <3>3, <4>2 DEF IsWhole, WholeBehindEmpty
      <4>4. First(c).packet - 1 \in 1..len
          BY <4>1, <4>3
      <4>. QED
          BY <1>18, <3>1, <3>3, <4>3, <4>4
    <3>. QED
        BY <3>2, <3>3
  <2>. QED
      BY <2>1 DEF WholeBehindEmpty
<1>. QED
    BY <1>7, <1>17, <1>19, <1>20 DEF Framing

(***************************************************************************)
(* The steps.                                                              *)

LEMMA ConnectStep ==
    ASSUME IInv, NEW c \in Clients, Connect(c)
    PROVE  IInv'
<1> USE DEF Connect, IInv
<1>1. TypeOK'
    BY DEF TypeOK, LobbyPcs, inVars, outVars, mainVars
<1>2. LobbyShape'
    BY ClientsAssumption DEF LobbyShape, TypeOK, At, Connected, Online,
       outVars
<1>3. AheadOfBuffer'
    BY ClientsAssumption DEF AheadOfBuffer, TypeOK, Sent, Connected,
       outVars, LobbyShape, At
<1>4. SentOnce'
    BY ClientsAssumption DEF SentOnce, TypeOK, outVars, AheadOfBuffer,
       Sent, Connected, LobbyShape, At
<1>5. OnlineAreListed'
    BY DEF OnlineAreListed, TypeOK, Online
<1>6. Framing'
    BY FramingStays DEF Framing, Processing, At, TypeOK, inVars
<1>. QED
    BY <1>1, <1>2, <1>3, <1>4, <1>5, <1>6 DEF Framing

LEMMA ShutStep ==
    ASSUME IInv, NEW c \in Clients, Shut(c)
    PROVE  IInv'
<1> USE DEF Shut, IInv
<1>1. TypeOK'
    BY DEF TypeOK, LobbyPcs, inVars, outVars, mainVars
<1>2. LobbyShape'
    BY ClientsAssumption DEF LobbyShape, TypeOK, At, Connected, Online,
       outVars
<1>3. AheadOfBuffer'
    BY ClientsAssumption DEF AheadOfBuffer, TypeOK, Sent, Connected,
       outVars, LobbyShape, At
<1>4. SentOnce'
    BY ClientsAssumption DEF SentOnce, TypeOK, outVars, AheadOfBuffer,
       Sent, Connected, LobbyShape, At
<1>5. OnlineAreListed'
    BY DEF OnlineAreListed, TypeOK, Online
<1>6. Framing'
    BY FramingStays DEF Framing, Processing, At, TypeOK, inVars
<1>. QED
    BY <1>1, <1>2, <1>3, <1>4, <1>5, <1>6 DEF Framing

LEMMA TakeStep ==
    ASSUME IInv, NEW c \in Clients, Take(c)
    PROVE  IInv'
<1> USE DEF Take, IInv
<1>1. TypeOK'
  <2>1. 0 \in 0..Window
      BY SizesAssumption
  <2>2. unread' \in [Clients -> 0..Window]
      BY <2>1 DEF TypeOK
  <2>. QED
      BY <2>2 DEF TypeOK, connVars, inVars, mainVars
<1>2. LobbyShape'
    BY ClientsAssumption DEF LobbyShape, TypeOK, At, Connected, Online,
       connVars
<1>3. AheadOfBuffer'
    BY ClientsAssumption DEF AheadOfBuffer, TypeOK, Sent, Connected,
       connVars, LobbyShape, At
<1>4. SentOnce'
    BY ClientsAssumption DEF SentOnce, TypeOK, connVars, AheadOfBuffer,
       Sent, Connected, LobbyShape, At
<1>5. OnlineAreListed'
    BY DEF OnlineAreListed, TypeOK, Online, connVars
<1>6. Framing'
    BY FramingStays DEF Framing, Processing, At, TypeOK, inVars
<1>. QED
    BY <1>1, <1>2, <1>3, <1>4, <1>5, <1>6 DEF Framing

LEMMA ReleaseStep ==
    ASSUME IInv, NEW c \in Clients, Release(c)
    PROVE  IInv'
<1> USE DEF Release, IInv
<1>1. TypeOK'
    BY DEF TypeOK, LobbyPcs, inVars, outVars, mainVars
<1>2. LobbyShape'
    BY ClientsAssumption DEF LobbyShape, TypeOK, At, Connected, Online,
       outVars
<1>3. AheadOfBuffer'
    BY ClientsAssumption DEF AheadOfBuffer, TypeOK, Sent, Connected,
       outVars, LobbyShape, At
<1>4. SentOnce'
    BY ClientsAssumption DEF SentOnce, TypeOK, outVars, AheadOfBuffer,
       Sent, Connected, LobbyShape, At
<1>5. OnlineAreListed'
    BY DEF OnlineAreListed, TypeOK, Online
<1>6. Framing'
    BY FramingStays DEF Framing, Processing, At, TypeOK, inVars
<1>. QED
    BY <1>1, <1>2, <1>3, <1>4, <1>5, <1>6 DEF Framing

LEMMA DropStep ==
    ASSUME IInv, NEW c \in Clients, NEW timeout \in BOOLEAN, NEW held \in BOOLEAN,
           Drop(c, timeout, held)
    PROVE  IInv'
<1> USE DEF Drop, IInv
<1>a. pending' \in [Clients -> Nat] /\ (\A d \in Clients : pending'[d] >= pending[d])
    BY SendEffect, ToldType
<1>1. TypeOK'
    BY <1>a DEF TypeOK, Send, RemoveUser, Removed, inVars, mainVars
<1>2. LobbyShape'
    BY ClientsAssumption, <1>a DEF LobbyShape, TypeOK, At, Connected,
       Online, Problem, RemoveUser, Removed, Send, Told, Farewell
<1>3. AheadOfBuffer'
    BY ClientsAssumption, <1>a DEF AheadOfBuffer, TypeOK, Sent, Connected,
       At, Problem, RemoveUser, Removed, Send, Told, Farewell, Online,
       LobbyShape
<1>4. SentOnce'
    BY ClientsAssumption, <1>a DEF SentOnce, TypeOK, At, Problem,
       RemoveUser, Removed, Send, Told, Farewell, Online, AheadOfBuffer,
       Sent, Connected, LobbyShape
<1>5. OnlineAreListed'
    BY <1>a DEF OnlineAreListed, TypeOK, Online, At, Problem, RemoveUser,
       Removed, Send, Told, Farewell
<1>6. Framing'
    BY FramingStays, <1>a DEF Framing, At, Processing, TypeOK, inVars
<1>. QED
    BY <1>1, <1>2, <1>3, <1>4, <1>5, <1>6 DEF Framing

LEMMA BeginRoundStep ==
    ASSUME IInv, BeginRound
    PROVE  IInv'
<1> USE DEF BeginRound, IInv
<1>1. TypeOK'
    BY DEF TypeOK, LobbyPcs, At, Problem, connVars, inVars, outVars,
       mainVars
<1>2. LobbyShape'
    BY ClientsAssumption DEF LobbyShape, TypeOK, At, Connected, Online,
       Problem, connVars, outVars
<1>3. AheadOfBuffer'
    BY ClientsAssumption DEF AheadOfBuffer, TypeOK, Sent, Connected, At,
       Problem, connVars, outVars, LobbyShape
<1>4. SentOnce'
    BY ClientsAssumption DEF SentOnce, TypeOK, At, Problem, connVars,
       outVars, AheadOfBuffer, Sent, Connected, LobbyShape
<1>5. OnlineAreListed'
    BY DEF OnlineAreListed, TypeOK, Online, At, Problem, connVars
<1>6. Framing'
    BY FramingStays DEF Framing, At, Processing, TypeOK, inVars
<1>. QED
    BY <1>1, <1>2, <1>3, <1>4, <1>5, <1>6 DEF Framing

LEMMA EndRoundStep ==
    ASSUME IInv, EndRound
    PROVE  IInv'
<1> USE DEF EndRound, IInv
<1>1. TypeOK'
    BY DEF TypeOK, LobbyPcs, Idle, connVars, inVars, outVars, mainVars
<1>2. LobbyShape'
    BY ClientsAssumption DEF LobbyShape, TypeOK, At, Connected, Online,
       Idle, connVars, outVars
<1>3. AheadOfBuffer'
    BY ClientsAssumption DEF AheadOfBuffer, TypeOK, Sent, Connected, Idle,
       connVars, outVars, LobbyShape, At
<1>4. SentOnce'
    BY ClientsAssumption DEF SentOnce, TypeOK, Idle, connVars, outVars,
       AheadOfBuffer, Sent, Connected, LobbyShape, At
<1>5. OnlineAreListed'
    BY DEF OnlineAreListed, TypeOK, Online, Idle, connVars
<1>6. Framing'
    BY FramingStays DEF Framing, Processing, At, TypeOK, inVars
<1>. QED
    BY <1>1, <1>2, <1>3, <1>4, <1>5, <1>6 DEF Framing

LEMMA EndRunStep ==
    ASSUME IInv, EndRun
    PROVE  IInv'
<1> USE DEF EndRun, IInv
<1>1. TypeOK'
    BY DEF TypeOK, LobbyPcs, At, Goto, connVars, inVars, outVars, mainVars
<1>2. LobbyShape'
    BY ClientsAssumption DEF LobbyShape, TypeOK, At, Connected, Online,
       Goto, connVars, outVars
<1>3. AheadOfBuffer'
    BY ClientsAssumption DEF AheadOfBuffer, TypeOK, Sent, Connected, At,
       Goto, connVars, outVars, LobbyShape
<1>4. SentOnce'
    BY ClientsAssumption DEF SentOnce, TypeOK, At, Goto, connVars,
       outVars, AheadOfBuffer, Sent, Connected, LobbyShape
<1>5. OnlineAreListed'
    BY DEF OnlineAreListed, TypeOK, Online, At, Goto, connVars
<1>6. Framing'
    BY FramingStays DEF Framing, At, Goto, Processing, TypeOK, inVars
<1>. QED
    BY <1>1, <1>2, <1>3, <1>4, <1>5, <1>6 DEF Framing

LEMMA AcceptConnectionStep ==
    ASSUME IInv, NEW c \in Clients, NEW gateway \in BOOLEAN,
           AcceptConnection(c, gateway)
    PROVE  IInv'
<1> USE DEF AcceptConnection, IInv
<1>1. TypeOK'
    BY DEF TypeOK, LobbyPcs, At, inVars, outVars, mainVars
<1>2. LobbyShape'
    BY ClientsAssumption DEF LobbyShape, TypeOK, At, Connected, Online,
       outVars
<1>3. AheadOfBuffer'
    BY ClientsAssumption DEF AheadOfBuffer, TypeOK, Sent, Connected, At,
       outVars, LobbyShape
<1>4. SentOnce'
    BY ClientsAssumption DEF SentOnce, TypeOK, At, outVars, AheadOfBuffer,
       Sent, Connected, LobbyShape
<1>5. OnlineAreListed'
    BY DEF OnlineAreListed, TypeOK, Online, At
<1>6. Framing'
    BY FramingStays DEF Framing, At, Processing, TypeOK, inVars
<1>. QED
    BY <1>1, <1>2, <1>3, <1>4, <1>5, <1>6 DEF Framing

LEMMA ReadNothingStep ==
    ASSUME IInv, NEW c \in Clients, ReadNothing(c)
    PROVE  IInv'
<1> USE DEF ReadNothing, IInv
<1>a. lobby' = [pc |-> "write", todo |-> lobby.todo \ {c}, client |-> c,
                total |-> 0, sent |-> 0]
    BY ServeEffect DEF LobbyPcs
<1>1. TypeOK'
    BY <1>a DEF TypeOK, LobbyPcs, Serves, connVars, inVars, outVars, mainVars
<1>2. LobbyShape'
    BY <1>a, ClientsAssumption DEF LobbyShape, TypeOK, Serves, At, Connected, Online,
       connVars, outVars
<1>3. AheadOfBuffer'
    BY <1>a DEF AheadOfBuffer, LobbyShape, TypeOK, Serves, At, Sent, Connected,
       connVars, outVars
<1>4. SentOnce'
    BY <1>a DEF SentOnce, LobbyShape, TypeOK, Serves, At,
       connVars, outVars
<1>5. OnlineAreListed'
    BY <1>a DEF OnlineAreListed, TypeOK, Online, Serves, Serve, connVars
<1>6. Framing'
    BY FramingStays, <1>a DEF Framing, Serves, Serve, Processing, At,
       TypeOK, inVars
<1>. QED
    BY <1>1, <1>2, <1>3, <1>4, <1>5, <1>6 DEF Framing

LEMMA ReadEndStep ==
    ASSUME IInv, NEW c \in Clients, ReadEnd(c)
    PROVE  IInv'
<1> USE DEF ReadEnd, IInv
<1>a. lobby' = [pc |-> "write", todo |-> lobby.todo \ {c}, client |-> c,
                total |-> 0, sent |-> 0]
    BY ServeEffect DEF LobbyPcs
<1>1. TypeOK'
    BY <1>a DEF TypeOK, LobbyPcs, Serves, connVars, inVars, outVars, mainVars
<1>2. LobbyShape'
    BY <1>a, ClientsAssumption DEF LobbyShape, TypeOK, Serves, At, Connected, Online,
       outVars
<1>3. AheadOfBuffer'
    BY <1>a DEF AheadOfBuffer, LobbyShape, TypeOK, Serves, At, Sent, Connected,
       outVars
<1>4. SentOnce'
    BY <1>a DEF SentOnce, LobbyShape, TypeOK, Serves, At,
       outVars
<1>5. OnlineAreListed'
    BY <1>a DEF OnlineAreListed, TypeOK, Online, Serves, Serve
<1>6. Framing'
    BY FramingStays, <1>a DEF Framing, Serves, Serve, Processing, At,
       TypeOK, inVars
<1>. QED
    BY <1>1, <1>2, <1>3, <1>4, <1>5, <1>6 DEF Framing

LEMMA ReadDoneStep ==
    ASSUME IInv, NEW c \in Clients, ReadDone(c)
    PROVE  IInv'
<1> USE DEF ReadDone, IInv
<1>1. TypeOK'
    BY DEF TypeOK, LobbyPcs, Processing, At, FirstKind, First, Goto,
       connVars, inVars, outVars, mainVars
<1>2. LobbyShape'
    BY ClientsAssumption DEF LobbyShape, TypeOK, At, Connected, Online,
       Processing, FirstKind, First, Goto, connVars, outVars
<1>3. AheadOfBuffer'
    BY ClientsAssumption DEF AheadOfBuffer, TypeOK, Sent, Connected,
       Processing, At, FirstKind, First, Goto, connVars, outVars,
       LobbyShape
<1>4. SentOnce'
    BY ClientsAssumption DEF SentOnce, TypeOK, Processing, At, FirstKind,
       First, Goto, connVars, outVars, AheadOfBuffer, Sent, Connected,
       LobbyShape
<1>5. OnlineAreListed'
    BY DEF OnlineAreListed, TypeOK, Online, Processing, At, FirstKind,
       First, Goto, connVars
<1>6. Framing'
    BY FramingStays DEF Framing, At, FirstKind, First, Goto, Processing,
       TypeOK, inVars, IsWhole
<1>. QED
    BY <1>1, <1>2, <1>3, <1>4, <1>5, <1>6 DEF Framing

LEMMA ReadInvalidStep ==
    ASSUME IInv, NEW c \in Clients, ReadInvalid(c)
    PROVE  IInv'
<1> USE DEF ReadInvalid, IInv
<1>1. TypeOK'
    BY DEF TypeOK, LobbyPcs, Processing, At, FirstKind, First, Goto,
       inVars, outVars, mainVars
<1>2. LobbyShape'
    BY ClientsAssumption DEF LobbyShape, TypeOK, At, Connected, Online,
       Processing, FirstKind, First, Goto, outVars
<1>3. AheadOfBuffer'
    BY ClientsAssumption DEF AheadOfBuffer, TypeOK, Sent, Connected,
       Processing, At, FirstKind, First, Goto, outVars, LobbyShape
<1>4. SentOnce'
    BY ClientsAssumption DEF SentOnce, TypeOK, Processing, At, FirstKind,
       First, Goto, outVars, AheadOfBuffer, Sent, Connected, LobbyShape
<1>5. OnlineAreListed'
    BY DEF OnlineAreListed, TypeOK, Online, Processing, At, FirstKind,
       First, Goto
<1>6. Framing'
    BY FramingStays DEF Framing, At, FirstKind, First, Goto, Processing,
       TypeOK, inVars, IsWhole
<1>. QED
    BY <1>1, <1>2, <1>3, <1>4, <1>5, <1>6 DEF Framing

LEMMA SendPacketStep ==
    ASSUME IInv, NEW c \in Clients, NEW kind \in Kinds,
           SendPacket(c, kind)
    PROVE  IInv'
<1> USE DEF SendPacket, IInv
<1>1. TypeOK'
    BY SendPacketFraming DEF TypeOK, LobbyPcs, connVars, outVars, mainVars
<1>2. LobbyShape'
    BY ClientsAssumption DEF LobbyShape, TypeOK, At, Connected, Online,
       Packet, connVars, outVars
<1>3. AheadOfBuffer'
    BY ClientsAssumption DEF AheadOfBuffer, TypeOK, Sent, Connected,
       Packet, connVars, outVars, LobbyShape, At
<1>4. SentOnce'
    BY ClientsAssumption DEF SentOnce, TypeOK, Packet, connVars, outVars,
       AheadOfBuffer, Sent, Connected, LobbyShape, At
<1>5. OnlineAreListed'
    BY DEF OnlineAreListed, TypeOK, Online, Packet, connVars
<1>6. Framing'
    BY SendPacketFraming
<1>. QED
    BY <1>1, <1>2, <1>3, <1>4, <1>5, <1>6 DEF Framing

LEMMA ReadSomeStep ==
    ASSUME IInv, NEW c \in Clients, NEW n \in Nat,
           ReadSome(c, n)
    PROVE  IInv'
<1> USE DEF ReadSome, IInv
<1>a. lobby' = [pc |-> "process", todo |-> lobby.todo \ {c}, client |-> c,
                total |-> 0, sent |-> 0]
    BY ServeEffect DEF LobbyPcs, ReadSome
<1>1. TypeOK'
    BY <1>a, ReadSomeFraming DEF TypeOK, LobbyPcs, Serves, outVars, mainVars
<1>2. LobbyShape'
    BY <1>a, ClientsAssumption DEF LobbyShape, TypeOK, Serves, At, Connected, Online, outVars
<1>3. AheadOfBuffer'
    BY <1>a DEF AheadOfBuffer, LobbyShape, TypeOK, Serves, At, Sent, Connected, outVars
<1>4. SentOnce'
    BY <1>a DEF SentOnce, LobbyShape, TypeOK, Serves, At, outVars
<1>5. OnlineAreListed'
    BY DEF OnlineAreListed, TypeOK, Online, Serves, Serve
<1>6. Framing'
    BY ReadSomeFraming
<1>. QED
    BY <1>1, <1>2, <1>3, <1>4, <1>5, <1>6 DEF Framing

LEMMA ReadEmptyStep ==
    ASSUME IInv, NEW c \in Clients, ReadEmpty(c)
    PROVE  IInv'
<1> USE DEF ReadEmpty, IInv
<1>1. TypeOK'
    BY ReadEmptyFraming DEF TypeOK, LobbyPcs, connVars, outVars, mainVars, Goto
<1>2. LobbyShape'
    BY ClientsAssumption DEF LobbyShape, TypeOK, At, Connected, Online,
       Processing, FirstKind, First, Goto, connVars, outVars
<1>3. AheadOfBuffer'
    BY ClientsAssumption DEF AheadOfBuffer, TypeOK, Sent, Connected,
       Processing, At, FirstKind, First, Goto, connVars, outVars,
       LobbyShape
<1>4. SentOnce'
    BY ClientsAssumption DEF SentOnce, TypeOK, Processing, At, FirstKind,
       First, Goto, connVars, outVars, AheadOfBuffer, Sent, Connected,
       LobbyShape
<1>5. OnlineAreListed'
    BY DEF OnlineAreListed, TypeOK, Online, Processing, At, FirstKind,
       First, Goto, connVars
<1>6. Framing'
    BY ReadEmptyFraming
<1>. QED
    BY <1>1, <1>2, <1>3, <1>4, <1>5, <1>6 DEF Framing

LEMMA HandleRequestStep ==
    ASSUME IInv, NEW c \in Clients, NEW others, HandleRequest(c, others)
    PROVE  IInv'
<1> USE DEF HandleRequest, IInv
<1>a. pending' \in [Clients -> Nat] /\ (\A d \in Clients : pending'[d] >= pending[d])
      /\ ahead' = ahead /\ unread' = unread
    BY SendEffect, ToldType
<1>b. /\ lobby' = lobby /\ link' = link /\ listed' = listed
      /\ \A d \in Clients : user'[d] = "online" => user[d] = "online"
    BY DEF Handle, TypeOK, connVars
<1>1. TypeOK'
    BY <1>a, HandleFraming DEF TypeOK, Handle, connVars, mainVars
<1>2. LobbyShape'
  <2>1. ASSUME lobby.client \in Clients, lobby.total <= pending[lobby.client]
        PROVE  lobby.total <= pending'[lobby.client]
    <3>1. /\ lobby.total \in Nat /\ pending[lobby.client] \in Nat
          /\ pending'[lobby.client] \in Nat
        BY <1>a, <2>1 DEF TypeOK
    <3>. QED
        BY <1>a, <2>1, <3>1
  <2>. QED
      BY <1>b, <2>1 DEF LobbyShape, At, Connected, Online
<1>3. AheadOfBuffer'
    BY <1>a, <1>b DEF AheadOfBuffer, Sent, Connected
<1>4. SentOnce'
    BY <1>a, <1>b DEF SentOnce
<1>5. OnlineAreListed'
    BY <1>b DEF OnlineAreListed, Online
<1>6. Framing'
    BY HandleFraming
<1>. QED
    BY <1>1, <1>2, <1>3, <1>4, <1>5, <1>6 DEF Framing

LEMMA HandleUnknownStep ==
    ASSUME IInv, NEW c \in Clients, HandleUnknown(c)
    PROVE  IInv'
<1> USE DEF HandleUnknown, IInv
<1>1. TypeOK'
    BY HandleFraming DEF TypeOK, Handle, connVars, outVars, mainVars
<1>2. LobbyShape'
    BY DEF LobbyShape, Handle, At, Connected, Online, connVars, outVars
<1>3. AheadOfBuffer'
    BY DEF AheadOfBuffer, Handle, Sent, Connected, connVars, outVars
<1>4. SentOnce'
    BY DEF SentOnce, Handle, connVars, outVars
<1>5. OnlineAreListed'
    BY DEF OnlineAreListed, Online, connVars
<1>6. Framing'
    BY HandleFraming
<1>. QED
    BY <1>1, <1>2, <1>3, <1>4, <1>5, <1>6 DEF Framing

LEMMA HandleLogoutStep ==
    ASSUME IInv, NEW c \in Clients, NEW held \in BOOLEAN,
           HandleLogout(c, held)
    PROVE  IInv'
<1> USE DEF HandleLogout, IInv
<1>a. pending' \in [Clients -> Nat] /\ (\A d \in Clients : pending'[d] >= pending[d])
      /\ ahead' = ahead /\ unread' = unread
    BY SendEffect, FarewellType
<1>b. /\ lobby' = lobby /\ link' = link /\ listed' = listed
      /\ \A d \in Clients : user'[d] = "online" => user[d] = "online"
    BY DEF Handle, TypeOK, connVars, RemoveUser, Removed
<1>1. TypeOK'
    BY <1>a, HandleFraming DEF TypeOK, Handle, connVars, mainVars, RemoveUser, Removed
<1>2. LobbyShape'
  <2>1. ASSUME lobby.client \in Clients, lobby.total <= pending[lobby.client]
        PROVE  lobby.total <= pending'[lobby.client]
    <3>1. /\ lobby.total \in Nat /\ pending[lobby.client] \in Nat
          /\ pending'[lobby.client] \in Nat
        BY <1>a, <2>1 DEF TypeOK
    <3>. QED
        BY <1>a, <2>1, <3>1
  <2>. QED
      BY <1>b, <2>1 DEF LobbyShape, At, Connected, Online
<1>3. AheadOfBuffer'
    BY <1>a, <1>b DEF AheadOfBuffer, Sent, Connected
<1>4. SentOnce'
    BY <1>a, <1>b DEF SentOnce
<1>5. OnlineAreListed'
    BY <1>b DEF OnlineAreListed, Online
<1>6. Framing'
    BY HandleFraming
<1>. QED
    BY <1>1, <1>2, <1>3, <1>4, <1>5, <1>6 DEF Framing

LEMMA HandleRejectedStep ==
    ASSUME IInv, NEW c \in Clients, NEW held \in BOOLEAN,
           HandleRejected(c, held)
    PROVE  IInv'
<1> USE DEF HandleRejected, IInv
<1>a. pending' \in [Clients -> Nat] /\ (\A d \in Clients : pending'[d] >= pending[d])
      /\ ahead' = ahead /\ unread' = unread
    BY SendEffect, FarewellType
<1>b. /\ lobby' = lobby /\ link' = link /\ listed' = listed
      /\ \A d \in Clients : user'[d] = "online" => user[d] = "online"
    BY DEF Handle, TypeOK, connVars, RemoveUser, Removed
<1>1. TypeOK'
    BY <1>a, HandleFraming DEF TypeOK, Handle, connVars, mainVars, RemoveUser, Removed
<1>2. LobbyShape'
  <2>1. ASSUME lobby.client \in Clients, lobby.total <= pending[lobby.client]
        PROVE  lobby.total <= pending'[lobby.client]
    <3>1. /\ lobby.total \in Nat /\ pending[lobby.client] \in Nat
          /\ pending'[lobby.client] \in Nat
        BY <1>a, <2>1 DEF TypeOK
    <3>. QED
        BY <1>a, <2>1, <3>1
  <2>. QED
      BY <1>b, <2>1 DEF LobbyShape, At, Connected, Online
<1>3. AheadOfBuffer'
    BY <1>a, <1>b DEF AheadOfBuffer, Sent, Connected
<1>4. SentOnce'
    BY <1>a, <1>b DEF SentOnce
<1>5. OnlineAreListed'
    BY <1>b DEF OnlineAreListed, Online
<1>6. Framing'
    BY HandleFraming
<1>. QED
    BY <1>1, <1>2, <1>3, <1>4, <1>5, <1>6 DEF Framing

LEMMA WriteNothingStep ==
    ASSUME IInv, NEW c \in Clients, WriteNothing(c)
    PROVE  IInv'
<1> USE DEF WriteNothing, IInv
<1>1. TypeOK'
    BY SizesAssumption DEF TypeOK, LobbyPcs, Writing, At, DoneWith,
       connVars, inVars, outVars, mainVars
<1>2. LobbyShape'
    BY ClientsAssumption, SizesAssumption DEF LobbyShape, TypeOK, At,
       Connected, Online, Writing, DoneWith, connVars, outVars
<1>3. AheadOfBuffer'
    BY ClientsAssumption, SizesAssumption DEF AheadOfBuffer, TypeOK, Sent,
       Connected, Writing, At, DoneWith, connVars, outVars, LobbyShape
<1>4. SentOnce'
    BY ClientsAssumption, SizesAssumption DEF SentOnce, TypeOK, Writing,
       At, DoneWith, connVars, outVars, AheadOfBuffer, Sent, Connected,
       LobbyShape
<1>5. OnlineAreListed'
    BY SizesAssumption DEF OnlineAreListed, TypeOK, Online, Writing, At,
       DoneWith, connVars
<1>6. Framing'
    BY FramingStays DEF Framing, Writing, At, DoneWith, Processing,
       TypeOK, inVars
<1>. QED
    BY <1>1, <1>2, <1>3, <1>4, <1>5, <1>6 DEF Framing

LEMMA StartWriteStep ==
    ASSUME IInv, NEW c \in Clients, StartWrite(c)
    PROVE  IInv'
<1> USE DEF StartWrite, IInv
<1>1. TypeOK'
    BY SizesAssumption DEF TypeOK, LobbyPcs, Writing, At, connVars,
       inVars, outVars, mainVars
<1>2. LobbyShape'
    BY ClientsAssumption, SizesAssumption DEF LobbyShape, TypeOK, At,
       Connected, Online, Writing, connVars, outVars
<1>3. AheadOfBuffer'
    BY ClientsAssumption, SizesAssumption DEF AheadOfBuffer, TypeOK, Sent,
       Connected, Writing, At, connVars, outVars, LobbyShape
<1>4. SentOnce'
    BY ClientsAssumption, SizesAssumption DEF SentOnce, TypeOK, Writing,
       At, connVars, outVars, AheadOfBuffer, Sent, Connected, LobbyShape
<1>5. OnlineAreListed'
    BY SizesAssumption DEF OnlineAreListed, TypeOK, Online, Writing, At,
       connVars
<1>6. Framing'
    BY FramingStays DEF Framing, Writing, At, Processing, TypeOK, inVars
<1>. QED
    BY <1>1, <1>2, <1>3, <1>4, <1>5, <1>6 DEF Framing

LEMMA SendChunkStep ==
    ASSUME IInv, NEW c \in Clients, NEW n \in Nat,
           SendChunk(c, n)
    PROVE  IInv'
<1> USE DEF SendChunk, IInv
<1>a. /\ lobby.client = c /\ lobby.sent \in Nat /\ lobby.total \in Nat
      /\ n <= Chunk /\ lobby.sent + n <= lobby.total
      /\ ahead[c] \in Nat
    BY SizesAssumption DEF TypeOK, LobbyShape, Writing, At, Chunk
<1>b. PICK pc \in {"send", "erase"} :
          lobby' = [pc |-> pc, todo |-> lobby.todo, client |-> c, total |-> lobby.total,
                    sent |-> lobby.sent + n]
    BY <1>a DEF TypeOK, AfterSending
<1>c. ahead' = [ahead EXCEPT ![c] = ahead[c] + n]
    OBVIOUS
<1>d. lobby.pc = "send"
    BY DEF At
<1>1. TypeOK'
  <2>1. ahead' \in [Clients -> Nat]
      BY <1>a, <1>c DEF TypeOK
  <2>2. unread' \in [Clients -> 0..Window]
    <3>1. unread[c] + n \in 0..Window
      <4>1. unread[c] \in 0..Window /\ unread[c] + n <= Window
          BY DEF TypeOK
      <4>. QED
          BY <4>1, SizesAssumption
    <3>. QED
        BY <3>1 DEF TypeOK
  <2>3. lobby' \in [pc : LobbyPcs, todo : SUBSET Clients, client : Clients \cup {NoClient},
                    total : Nat, sent : Nat]
    <3>1. lobby.sent + n \in Nat
        BY <1>a
    <3>. QED
        BY <1>a, <1>b, <3>1 DEF TypeOK, LobbyPcs
  <2>. QED
      BY <2>1, <2>2, <2>3 DEF TypeOK, connVars, inVars, mainVars
<1>2. LobbyShape'
    BY <1>a, <1>b, ClientsAssumption
    DEF LobbyShape, TypeOK, At, Connected, Online, connVars
<1>3. AheadOfBuffer'
  <2>1. ASSUME NEW d \in Clients
        PROVE  ahead'[d] >= Sent(d)' /\ (~Connected(d)' => ahead'[d] = 0)
    <3>1. CASE d = c
        BY <1>a, <1>b, <1>c, <3>1
        DEF AheadOfBuffer, LobbyShape, TypeOK, Sent, Connected, connVars
    <3>2. CASE d # c
        BY <1>a, <1>b, <1>c, <3>2
        DEF AheadOfBuffer, TypeOK, Sent, Connected, connVars
    <3>. QED
        BY <3>1, <3>2
  <2>. QED
      BY <2>1 DEF AheadOfBuffer
<1>4. SentOnce'
    BY <1>a, <1>b, <1>c DEF SentOnce, TypeOK, connVars
<1>5. OnlineAreListed'
    BY SizesAssumption DEF OnlineAreListed, TypeOK, Online, Writing, At,
       Chunk, AfterSending, connVars
<1>6. Framing'
    BY FramingStays, <1>d DEF Framing, Processing, At, inVars
<1>. QED
    BY <1>1, <1>2, <1>3, <1>4, <1>5, <1>6 DEF Framing

LEMMA SendLostStep ==
    ASSUME IInv, NEW c \in Clients, NEW n \in Nat,
           SendLost(c, n)
    PROVE  IInv'
<1> USE DEF SendLost, IInv
<1>a. /\ lobby.client = c /\ lobby.sent \in Nat /\ lobby.total \in Nat
      /\ n <= Chunk /\ lobby.sent + n <= lobby.total
      /\ ahead[c] \in Nat
    BY SizesAssumption DEF TypeOK, LobbyShape, Writing, At, Chunk
<1>b. PICK pc \in {"send", "erase"} :
          lobby' = [pc |-> pc, todo |-> lobby.todo, client |-> c, total |-> lobby.total,
                    sent |-> lobby.sent + n]
    BY <1>a DEF TypeOK, AfterSending
<1>c. ahead' = [ahead EXCEPT ![c] = ahead[c] + n]
    OBVIOUS
<1>d. lobby.pc = "send"
    BY DEF At
<1>1. TypeOK'
  <2>1. ahead' \in [Clients -> Nat]
      BY <1>a, <1>c DEF TypeOK
  <2>2. unread' \in [Clients -> 0..Window]
      BY DEF TypeOK
  <2>3. lobby' \in [pc : LobbyPcs, todo : SUBSET Clients, client : Clients \cup {NoClient},
                    total : Nat, sent : Nat]
    <3>1. lobby.sent + n \in Nat
        BY <1>a
    <3>. QED
        BY <1>a, <1>b, <3>1 DEF TypeOK, LobbyPcs
  <2>. QED
      BY <2>1, <2>2, <2>3 DEF TypeOK, connVars, inVars, mainVars
<1>2. LobbyShape'
    BY <1>a, <1>b, ClientsAssumption
    DEF LobbyShape, TypeOK, At, Connected, Online, connVars
<1>3. AheadOfBuffer'
  <2>1. ASSUME NEW d \in Clients
        PROVE  ahead'[d] >= Sent(d)' /\ (~Connected(d)' => ahead'[d] = 0)
    <3>1. CASE d = c
        BY <1>a, <1>b, <1>c, <3>1
        DEF AheadOfBuffer, LobbyShape, TypeOK, Sent, Connected, connVars
    <3>2. CASE d # c
        BY <1>a, <1>b, <1>c, <3>2
        DEF AheadOfBuffer, TypeOK, Sent, Connected, connVars
    <3>. QED
        BY <3>1, <3>2
  <2>. QED
      BY <2>1 DEF AheadOfBuffer
<1>4. SentOnce'
    BY <1>a, <1>b, <1>c DEF SentOnce, TypeOK, connVars
<1>5. OnlineAreListed'
    BY SizesAssumption DEF OnlineAreListed, TypeOK, Online, Writing, At,
       Chunk, AfterSending, connVars
<1>6. Framing'
    BY FramingStays, <1>d DEF Framing, Processing, At, inVars
<1>. QED
    BY <1>1, <1>2, <1>3, <1>4, <1>5, <1>6 DEF Framing

LEMMA SendFailsStep ==
    ASSUME IInv, NEW c \in Clients, SendFails(c)
    PROVE  IInv'
<1> USE DEF SendFails, IInv
<1>1. TypeOK'
    BY DEF TypeOK, LobbyPcs, Writing, At, DoneWith, inVars, outVars,
       mainVars
<1>2. LobbyShape'
    BY ClientsAssumption DEF LobbyShape, TypeOK, At, Connected, Online,
       Writing, DoneWith, outVars
<1>3. AheadOfBuffer'
    BY ClientsAssumption DEF AheadOfBuffer, TypeOK, Sent, Connected,
       Writing, At, DoneWith, outVars, LobbyShape
<1>4. SentOnce'
    BY ClientsAssumption DEF SentOnce, TypeOK, Writing, At, DoneWith,
       outVars, AheadOfBuffer, Sent, Connected, LobbyShape
<1>5. OnlineAreListed'
    BY DEF OnlineAreListed, TypeOK, Online, Writing, At, DoneWith
<1>6. Framing'
    BY FramingStays DEF Framing, Writing, At, DoneWith, Processing,
       TypeOK, inVars
<1>. QED
    BY <1>1, <1>2, <1>3, <1>4, <1>5, <1>6 DEF Framing

LEMMA EraseSentStep ==
    ASSUME IInv, NEW c \in Clients, EraseSent(c)
    PROVE  IInv'
<1> USE DEF EraseSent, IInv
<1>a. /\ lobby.client = c /\ lobby.pc = "erase"
      /\ lobby.sent \in Nat /\ pending[c] \in Nat /\ ahead[c] \in Nat
      /\ lobby.sent <= pending[c] /\ lobby.sent <= ahead[c]
    BY DEF TypeOK, LobbyShape, AheadOfBuffer, Sent, Writing, At
<1>b. lobby' = [pc |-> "next", todo |-> lobby.todo, client |-> NoClient,
                total |-> 0, sent |-> 0]
    BY DoneEffect
<1>c. /\ pending' = [pending EXCEPT ![c] = pending[c] - lobby.sent]
      /\ ahead' = [ahead EXCEPT ![c] = ahead[c] - lobby.sent]
    OBVIOUS
<1>1. TypeOK'
  <2>1. pending[c] - lobby.sent \in Nat /\ ahead[c] - lobby.sent \in Nat
      BY <1>a
  <2>2. pending' \in [Clients -> Nat]
      BY <1>c, <2>1 DEF TypeOK
  <2>3. ahead' \in [Clients -> Nat]
      BY <1>c, <2>1 DEF TypeOK
  <2>. QED
      BY <1>b, <2>2, <2>3 DEF TypeOK, LobbyPcs, connVars, inVars, mainVars
<1>2. LobbyShape'
    BY <1>b DEF LobbyShape, TypeOK, At, Connected, Online, connVars
<1>3. AheadOfBuffer'
  <2>1. ASSUME NEW d \in Clients
        PROVE  ahead'[d] >= Sent(d)' /\ (~Connected(d)' => ahead'[d] = 0)
    <3>1. CASE d = c
        BY <1>a, <1>b, <1>c, <3>1, ClientsAssumption
        DEF AheadOfBuffer, LobbyShape, TypeOK, Sent, Connected, connVars
    <3>2. CASE d # c
        BY <1>a, <1>b, <1>c, <3>2, ClientsAssumption
        DEF AheadOfBuffer, TypeOK, Sent, Connected, connVars
    <3>. QED
        BY <3>1, <3>2
  <2>. QED
      BY <2>1 DEF AheadOfBuffer
<1>4. SentOnce'
  <2>1. ASSUME NEW d \in Clients, link[d] = "up"
        PROVE  ahead'[d] = 0
    <3>1. CASE d = c
        BY <1>a, <1>c, <2>1, <3>1 DEF SentOnce, TypeOK
    <3>2. CASE d # c
        BY <1>a, <1>c, <2>1, <3>2 DEF SentOnce, TypeOK
    <3>. QED
        BY <3>1, <3>2
  <2>. QED
      BY <1>b, <2>1, ClientsAssumption DEF SentOnce, connVars
<1>5. OnlineAreListed'
    BY DEF OnlineAreListed, TypeOK, Online, Writing, At, DoneWith,
       connVars
<1>6. Framing'
    BY FramingStays DEF Framing, Writing, At, DoneWith, Processing,
       TypeOK, inVars
<1>. QED
    BY <1>1, <1>2, <1>3, <1>4, <1>5, <1>6 DEF Framing

LEMMA NotifyStep ==
    ASSUME IInv, NEW c \in Clients, Notify(c)
    PROVE  IInv'
<1> USE DEF Notify, IInv
<1>a. pending' \in [Clients -> Nat] /\ (\A d \in Clients : pending'[d] >= pending[d])
    BY SendEffect, ToldType
<1>1. TypeOK'
  <2>1. notices' \in 0..MaxNotices
      BY BoundsAssumption DEF TypeOK
  <2>. QED
      BY <1>a, <2>1 DEF TypeOK, Send, connVars, inVars, mainVars
<1>2. LobbyShape'
  <2>1. ASSUME lobby.client \in Clients, lobby.total <= pending[lobby.client]
        PROVE  lobby.total <= pending'[lobby.client]
    <3>1. /\ lobby.total \in Nat /\ pending[lobby.client] \in Nat
          /\ pending'[lobby.client] \in Nat
        BY <1>a, <2>1 DEF TypeOK
    <3>. QED
        BY <1>a, <2>1, <3>1
  <2>. QED
      BY <2>1 DEF LobbyShape, At, Connected, Online, connVars
<1>3. AheadOfBuffer'
    BY ClientsAssumption, <1>a DEF AheadOfBuffer, TypeOK, Sent, Connected,
       Send, Told, connVars, LobbyShape, At
<1>4. SentOnce'
    BY ClientsAssumption, <1>a DEF SentOnce, TypeOK, Send, Told, connVars,
       AheadOfBuffer, Sent, Connected, LobbyShape, At
<1>5. OnlineAreListed'
    BY <1>a DEF OnlineAreListed, TypeOK, Online, Send, Told, connVars
<1>6. Framing'
    BY FramingStays, <1>a DEF Framing, Processing, At, TypeOK, inVars
<1>. QED
    BY <1>1, <1>2, <1>3, <1>4, <1>5, <1>6 DEF Framing

LEMMA StopConnectionStep ==
    ASSUME IInv, NEW c \in Clients, StopConnection(c)
    PROVE  IInv'
<1> USE DEF StopConnection, IInv
<1>a. pending' \in [Clients -> Nat] /\ (\A d \in Clients : pending'[d] >= pending[d])
    BY SendEffect, ToldType
<1>1. TypeOK'
    BY <1>a DEF TypeOK, Send, connVars, inVars
<1>2. LobbyShape'
  <2>1. ASSUME lobby.client \in Clients, lobby.total <= pending[lobby.client]
        PROVE  lobby.total <= pending'[lobby.client]
    <3>1. /\ lobby.total \in Nat /\ pending[lobby.client] \in Nat
          /\ pending'[lobby.client] \in Nat
        BY <1>a, <2>1 DEF TypeOK
    <3>. QED
        BY <1>a, <2>1, <3>1
  <2>. QED
      BY <2>1 DEF LobbyShape, At, Connected, Online, connVars
<1>3. AheadOfBuffer'
    BY ClientsAssumption, <1>a DEF AheadOfBuffer, TypeOK, Sent, Connected,
       Send, Told, connVars, LobbyShape, At
<1>4. SentOnce'
    BY ClientsAssumption, <1>a DEF SentOnce, TypeOK, Send, Told, connVars,
       AheadOfBuffer, Sent, Connected, LobbyShape, At
<1>5. OnlineAreListed'
    BY <1>a DEF OnlineAreListed, TypeOK, Online, Send, Told, connVars
<1>6. Framing'
    BY FramingStays, <1>a DEF Framing, Processing, At, TypeOK, inVars
<1>. QED
    BY <1>1, <1>2, <1>3, <1>4, <1>5, <1>6 DEF Framing

LEMMA BeginStopStep ==
    ASSUME IInv, BeginStop
    PROVE  IInv'
<1> USE DEF BeginStop, IInv
<1>1. TypeOK'
    BY DEF TypeOK, LobbyPcs, connVars, inVars, outVars
<1>2. LobbyShape'
    BY ClientsAssumption DEF LobbyShape, TypeOK, At, Connected, Online,
       connVars, outVars
<1>3. AheadOfBuffer'
    BY ClientsAssumption DEF AheadOfBuffer, TypeOK, Sent, Connected,
       connVars, outVars, LobbyShape, At
<1>4. SentOnce'
    BY ClientsAssumption DEF SentOnce, TypeOK, connVars, outVars,
       AheadOfBuffer, Sent, Connected, LobbyShape, At
<1>5. OnlineAreListed'
    BY DEF OnlineAreListed, TypeOK, Online, connVars
<1>6. Framing'
    BY FramingStays DEF Framing, Processing, At, TypeOK, inVars
<1>. QED
    BY <1>1, <1>2, <1>3, <1>4, <1>5, <1>6 DEF Framing

LEMMA EndStopStep ==
    ASSUME IInv, EndStop
    PROVE  IInv'
<1> USE DEF EndStop, IInv
<1>1. TypeOK'
    BY DEF TypeOK, LobbyPcs, connVars, inVars, outVars
<1>2. LobbyShape'
    BY ClientsAssumption DEF LobbyShape, TypeOK, At, Connected, Online,
       connVars, outVars
<1>3. AheadOfBuffer'
    BY ClientsAssumption DEF AheadOfBuffer, TypeOK, Sent, Connected,
       connVars, outVars, LobbyShape, At
<1>4. SentOnce'
    BY ClientsAssumption DEF SentOnce, TypeOK, connVars, outVars,
       AheadOfBuffer, Sent, Connected, LobbyShape, At
<1>5. OnlineAreListed'
    BY DEF OnlineAreListed, TypeOK, Online, connVars
<1>6. Framing'
    BY FramingStays DEF Framing, Processing, At, TypeOK, inVars
<1>. QED
    BY <1>1, <1>2, <1>3, <1>4, <1>5, <1>6 DEF Framing

(***************************************************************************)
(* The invariant, and what follows from it.                                *)

LEMMA NextStep == IInv /\ [Next]_vars => IInv'
<1> SUFFICES ASSUME IInv, [Next]_vars PROVE IInv'
    OBVIOUS
<1>1. CASE Client
    BY <1>1, ConnectStep, SendPacketStep, ShutStep DEF Client
<1>2. CASE \E c \in Clients : Take(c) \/ Release(c) \/ Notify(c)
    BY <1>2, TakeStep, ReleaseStep, NotifyStep
<1>3. CASE LobbyRound
    BY <1>3, DropStep, BeginRoundStep, EndRoundStep, EndRunStep, AcceptConnectionStep
    DEF LobbyRound
<1>4. CASE LobbyRead
  <2>1. 1..(2 * MaxPackets) \subseteq Nat
      BY BoundsAssumption
  <2>. QED
      BY <1>4, <2>1, ReadNothingStep, ReadEndStep, ReadSomeStep, ReadDoneStep,
         ReadInvalidStep, ReadEmptyStep, HandleRequestStep, HandleUnknownStep,
         HandleLogoutStep, HandleRejectedStep
      DEF LobbyRead
<1>5. CASE LobbyWrite
  <2>1. 1..ChunkMax \subseteq Nat
      BY SizesAssumption
  <2>. QED
      BY <1>5, <2>1, WriteNothingStep, StartWriteStep, SendChunkStep, SendLostStep,
         SendFailsStep, EraseSentStep
      DEF LobbyWrite
<1>6. CASE MainThread
    BY <1>6, BeginStopStep, EndStopStep, StopConnectionStep DEF MainThread
<1>7. CASE UNCHANGED vars
  <2>1. Framing'
      BY <1>7, FramingStays
      DEF IInv, Framing, Processing, At, vars, inVars
  <2>2. TypeOK'
      BY <1>7 DEF IInv, TypeOK, vars, connVars, inVars, outVars, mainVars
  <2>3. LobbyShape' /\ AheadOfBuffer' /\ SentOnce' /\ OnlineAreListed'
      BY <1>7 DEF IInv, LobbyShape, AheadOfBuffer, SentOnce, OnlineAreListed, At, Sent,
         Connected, Online, vars, connVars, outVars
  <2>. QED
      BY <2>1, <2>2, <2>3 DEF IInv, Framing
<1>. QED
    BY <1>1, <1>2, <1>3, <1>4, <1>5, <1>6, <1>7 DEF Next, LobbyThread

(* The inductive invariant holds in every state, for any clients, window,  *)
(* chunk and number of packets.                                            *)
THEOREM Invariance == Spec => []IInv
<1>. QED
    BY InitIInv, NextStep, PTL DEF Spec

(* Every variable keeps its type: no count of messages goes below zero     *)
(* when WriteSocket erases what it has sent.                               *)
THEOREM TypeCorrect == Spec => []TypeOK
<1>1. IInv => TypeOK
    BY DEF IInv
<1>. QED
    BY <1>1, Invariance, PTL

(* No message is sent twice or left out, whatever is added to the buffer   *)
(* between WriteSocket's sends and its erasing.                            *)
THEOREM SentOnceThm == Spec => []SentOnce
<1>1. IInv => SentOnce
    BY DEF IInv
<1>. QED
    BY <1>1, Invariance, PTL

(* A user in m_users has its connection in m_clientSockets.                *)
THEOREM OnlineAreListedThm == Spec => []OnlineAreListed
<1>1. IInv => OnlineAreListed
    BY DEF IInv
<1>. QED
    BY <1>1, Invariance, PTL

(* Requests are handled one by one and in order, however TCP cuts them.    *)
THEOREM RequestsInOrderThm == Spec => []RequestsInOrder
<1>1. IInv => RequestsInOrder
  <2> SUFFICES ASSUME IInv, NEW c \in Clients, NEW i \in DOMAIN handled[c]
               PROVE  LET n == handled[c][i] IN
                      /\ n \in DOMAIN packets[c] /\ packets[c][n] = "request"
                      /\ \A j \in 1..(i - 1) : handled[c][j] < n
                      /\ \A m \in 1..(n - 1) :
                            /\ packets[c][m] # "invalid"
                            /\ packets[c][m] = "request" => IsHandled(c, m)
      BY DEF RequestsInOrder
  <2> USE DEF IInv
  <2> DEFINE n == handled[c][i]
             p == FirstLeft(c)
  <2>1. PICK len \in Nat : len = Len(packets[c]) /\ DOMAIN packets[c] = 1..len
      BY ClientTypes
  <2>2. p \in 1..(len + 1)
      BY <2>1, FirstLeftBounds
  <2>3. n \in 1..MaxPackets /\ n < p
      BY ClientTypes DEF HandledBefore
  <2>4. n \in 1..len /\ (\A m \in 1..(n - 1) : m \in 1..(p - 1))
      BY <2>2, <2>3, BoundsAssumption
  <2>5. packets[c][n] = "request" /\ (\A j \in 1..(i - 1) : handled[c][j] < n)
      BY DEF HandledBefore
  <2>6. \A m \in 1..(p - 1) : /\ packets[c][m] # "invalid"
                              /\ packets[c][m] = "request" => IsHandled(c, m)
      BY DEF HandledBefore
  <2>. QED
      BY <2>1, <2>4, <2>5, <2>6
<1>. QED
    BY <1>1, Invariance, PTL

(* Between two rounds no whole request waits, except behind a packet       *)
(* without a body.                                                         *)
THEOREM NoRequestLeftThm == Spec => []NoRequestLeft
<1>1. IInv => NoRequestLeft
    BY DEF IInv, NoRequestLeft, WholeBehindEmpty, TypeOK, Processing, At
<1>. QED
    BY <1>1, Invariance, PTL
=============================================================================
