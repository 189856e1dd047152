------------------------ MODULE CharacterData_proofs ------------------------
(***************************************************************************)
(* Theorems about CharacterData: what its conversions do to every sequence *)
(* of bytes, of any length, and the invariants of the upload.              *)
(***************************************************************************)
EXTENDS CharacterData, Integers, TLAPS, WellFoundedInduction, SequenceTheorems

----------------------------------------------------------------------------
(* Induction and recursion over the naturals, stated of sets and functions *)
(* in place of operators.                                                  *)

(* A set of naturals that has an element has a least one.                  *)
LEMMA LeastNatural ==
    ASSUME NEW T, T \subseteq Nat, T # {}
    PROVE  \E m \in T : \A n \in T : m <= n
<1> DEFINE Less == {ss \in Nat \X Nat : ss[1] < ss[2]}
<1>1. IsWellFoundedOn(Less, Nat)
  BY NatLessThanWellFounded DEF OpToRel
<1>2. PICK m \in T : \A n \in T : <<n, m>> \notin Less
  BY <1>1, WFMin
<1>3. ASSUME NEW n \in T
      PROVE  m <= n
  <2>1. ~(n < m)
    BY <1>2
  <2> QED
    BY <2>1
<1> QED
  BY <1>3

(* Induction: a set that has 0, and with a number the next, has them all.  *)
LEMMA SetInduction ==
    ASSUME NEW S, 0 \in S, \A n \in Nat : n \in S => n + 1 \in S
    PROVE  Nat \subseteq S
<1> SUFFICES ASSUME Nat \ S # {}
             PROVE  FALSE
  OBVIOUS
<1>1. PICK m \in Nat \ S : \A n \in Nat \ S : m <= n
  BY LeastNatural
<1>2. m - 1 \in Nat /\ m - 1 \notin Nat \ S
  BY <1>1
<1> QED
  BY <1>1, <1>2

(* f starts at start and goes on by step, N times. *)
GoesOn(f, N, start, step) ==
    f[0] = start /\ \A n \in 1..N : f[n] = step[<<f[n - 1], n>>]

(* Recursion: steps that lead from a state to a state can be taken one     *)
(* after the other.                                                        *)
LEMMA Recursion ==
    ASSUME NEW S, NEW N \in Nat, NEW start \in S,
           NEW step \in [S \X (1..N) -> S]
    PROVE  \E f \in [0..N -> S] : GoesOn(f, N, start, step)
<1> DEFINE T == {k \in Nat : k <= N => \E f \in [0..k -> S] : GoesOn(f, k, start, step)}
<1>1. 0 \in T
  <2>1. [n \in 0..0 |-> start] \in [0..0 -> S] /\ GoesOn([n \in 0..0 |-> start], 0, start, step)
    BY DEF GoesOn
  <2> QED
    BY <2>1
<1>2. ASSUME NEW k \in Nat, k \in T
      PROVE  k + 1 \in T
  <2> SUFFICES ASSUME k + 1 <= N
               PROVE  \E f \in [0..(k + 1) -> S] : GoesOn(f, k + 1, start, step)
    OBVIOUS
  <2>1. PICK f \in [0..k -> S] : GoesOn(f, k, start, step)
    BY <1>2
  <2> DEFINE g == [n \in 0..(k + 1) |-> IF n = k + 1 THEN step[<<f[k], n>>] ELSE f[n]]
  <2>2. <<f[k], k + 1>> \in S \X (1..N)
    OBVIOUS
  <2>3. g \in [0..(k + 1) -> S]
    BY <2>2
  <2>4. g[0] = start
    BY <2>1 DEF GoesOn
  <2>5. ASSUME NEW n \in 1..(k + 1)
        PROVE  g[n] = step[<<g[n - 1], n>>]
    <3>1. CASE n = k + 1
      BY <3>1
    <3>2. CASE n \in 1..k
      BY <3>2, <2>1 DEF GoesOn
    <3> QED
      BY <3>1, <3>2
  <2> QED
    BY <2>3, <2>4, <2>5 DEF GoesOn
<1>3. Nat \subseteq T
  BY <1>1, <1>2, SetInduction
<1>4. N \in T
  BY <1>3
<1> QED
  BY <1>4
----------------------------------------------------------------------------
(* The steps of the three conversions.                                     *)

UnpackState == [bytes : Seq(Byte), counting : BOOLEAN]
ScanState == [read : Nat, size : Nat, counting : BOOLEAN, enough : BOOLEAN]
CompressState ==
    {out \in [bytes : Seq(Byte), run : BOOLEAN] : out.run => out.bytes # <<>>}

LEMMA ByteIsNat == Byte \subseteq Nat /\ 0 \in Byte
BY SizesAssumption DEF Byte

LEMMA UnpackByteType ==
    ASSUME NEW out \in UnpackState, NEW b \in Byte
    PROVE  UnpackByte(out, b) \in UnpackState
<1>1. [i \in 1..b |-> 0] \in Seq(Byte)
  BY ByteIsNat
<1> QED
  BY <1>1, ByteIsNat DEF UnpackByte, UnpackState

(* Unpack, a byte at a time.                                               *)
LEMMA UnpackStepsDef ==
    ASSUME NEW input \in Seq(Byte)
    PROVE  /\ UnpackSteps(input) \in [0..Len(input) -> UnpackState]
           /\ UnpackSteps(input)[0] = [bytes |-> <<>>, counting |-> FALSE]
           /\ \A n \in 1..Len(input) :
                 UnpackSteps(input)[n] = UnpackByte(UnpackSteps(input)[n - 1], input[n])
<1> DEFINE start == [bytes |-> <<>>, counting |-> FALSE]
           step == [x \in UnpackState \X (1..Len(input)) |-> UnpackByte(x[1], input[x[2]])]
           Def(f) == [n \in 0..Len(input) |->
                         IF n = 0 THEN start ELSE UnpackByte(f[n - 1], input[n])]
<1>1. start \in UnpackState
  BY DEF UnpackState
<1>2. step \in [UnpackState \X (1..Len(input)) -> UnpackState]
  BY UnpackByteType
<1>3. Len(input) \in Nat
  OBVIOUS
<1>4. PICK f \in [0..Len(input) -> UnpackState] : GoesOn(f, Len(input), start, step)
  <2> HIDE DEF start, step
  <2> QED
    BY <1>1, <1>2, <1>3, Recursion
<1>5. f = Def(f)
  <2>1. ASSUME NEW n \in 1..Len(input)
        PROVE  f[n] = UnpackByte(f[n - 1], input[n])
    <3>1. <<f[n - 1], n>> \in UnpackState \X (1..Len(input))
      BY <1>3
    <3>2. f[n] = step[<<f[n - 1], n>>]
      BY <1>4 DEF GoesOn
    <3> QED
      BY <3>1, <3>2
  <2> HIDE DEF start, step
  <2> QED
    BY <1>4, <2>1 DEF GoesOn
<1>6. UnpackSteps(input) = CHOOSE g : g = Def(g)
  BY DEF UnpackSteps
<1>7. UnpackSteps(input) = Def(UnpackSteps(input))
  <2> HIDE DEF Def
  <2> QED
    BY <1>5, <1>6
<1>8. /\ UnpackSteps(input)[0] = start
      /\ \A n \in 1..Len(input) :
            UnpackSteps(input)[n] = UnpackByte(UnpackSteps(input)[n - 1], input[n])
  <2> HIDE DEF start
  <2> QED
    BY <1>3, <1>7
<1> DEFINE T == {n \in Nat : n <= Len(input) => UnpackSteps(input)[n] \in UnpackState}
<1>9. 0 \in T
  BY <1>1, <1>8
<1>10. ASSUME NEW n \in Nat, n \in T
       PROVE  n + 1 \in T
  <2> SUFFICES ASSUME n + 1 <= Len(input)
               PROVE  UnpackSteps(input)[n + 1] \in UnpackState
    OBVIOUS
  <2>1. UnpackSteps(input)[n] \in UnpackState /\ input[n + 1] \in Byte
    BY <1>3, <1>10
  <2>2. UnpackSteps(input)[n + 1] = UnpackByte(UnpackSteps(input)[n], input[n + 1])
    BY <1>3, <1>8
  <2> QED
    BY <2>1, <2>2, UnpackByteType
<1>11. Nat \subseteq T
  <2> HIDE DEF T
  <2> QED
    BY <1>9, <1>10, SetInduction
<1>12. \A n \in 0..Len(input) : UnpackSteps(input)[n] \in UnpackState
  BY <1>3, <1>11
<1>13. UnpackSteps(input) \in [0..Len(input) -> UnpackState]
  <2> HIDE DEF start
  <2> QED
    BY <1>7, <1>12
<1> QED
  BY <1>8, <1>13

LEMMA ValidateByteType ==
    ASSUME NEW scan \in ScanState, NEW b \in Byte
    PROVE  ValidateByte(scan, b) \in ScanState
BY ByteIsNat, SizesAssumption DEF ValidateByte, ScanState

(* CharacterSaveTask::Validate, a byte at a time.                          *)
LEMMA ScanStepsDef ==
    ASSUME NEW input \in Seq(Byte)
    PROVE  /\ ScanSteps(input) \in [0..Len(input) -> ScanState]
           /\ ScanSteps(input)[0]
                = [read |-> HeaderSize, size |-> 0, counting |-> FALSE, enough |-> FALSE]
           /\ \A n \in 1..Len(input) :
                 ScanSteps(input)[n] = ValidateByte(ScanSteps(input)[n - 1], input[n])
<1> DEFINE start == [read |-> HeaderSize, size |-> 0, counting |-> FALSE, enough |-> FALSE]
           step == [x \in ScanState \X (1..Len(input)) |-> ValidateByte(x[1], input[x[2]])]
           Def(f) == [n \in 0..Len(input) |->
                         IF n = 0 THEN start ELSE ValidateByte(f[n - 1], input[n])]
<1>1. start \in ScanState
  BY SizesAssumption DEF ScanState
<1>2. step \in [ScanState \X (1..Len(input)) -> ScanState]
  BY ValidateByteType
<1>3. Len(input) \in Nat
  OBVIOUS
<1>4. PICK f \in [0..Len(input) -> ScanState] : GoesOn(f, Len(input), start, step)
  <2> HIDE DEF start, step
  <2> QED
    BY <1>1, <1>2, <1>3, Recursion
<1>5. f = Def(f)
  <2>1. ASSUME NEW n \in 1..Len(input)
        PROVE  f[n] = ValidateByte(f[n - 1], input[n])
    <3>1. <<f[n - 1], n>> \in ScanState \X (1..Len(input))
      BY <1>3
    <3>2. f[n] = step[<<f[n - 1], n>>]
      BY <1>4 DEF GoesOn
    <3> QED
      BY <3>1, <3>2
  <2> HIDE DEF start, step
  <2> QED
    BY <1>4, <2>1 DEF GoesOn
<1>6. ScanSteps(input) = CHOOSE g : g = Def(g)
  BY DEF ScanSteps
<1>7. ScanSteps(input) = Def(ScanSteps(input))
  <2> HIDE DEF Def
  <2> QED
    BY <1>5, <1>6
<1>8. /\ ScanSteps(input)[0] = start
      /\ \A n \in 1..Len(input) :
            ScanSteps(input)[n] = ValidateByte(ScanSteps(input)[n - 1], input[n])
  <2> HIDE DEF start
  <2> QED
    BY <1>3, <1>7
<1> DEFINE T == {n \in Nat : n <= Len(input) => ScanSteps(input)[n] \in ScanState}
<1>9. 0 \in T
  BY <1>1, <1>8
<1>10. ASSUME NEW n \in Nat, n \in T
       PROVE  n + 1 \in T
  <2> SUFFICES ASSUME n + 1 <= Len(input)
               PROVE  ScanSteps(input)[n + 1] \in ScanState
    OBVIOUS
  <2>1. ScanSteps(input)[n] \in ScanState /\ input[n + 1] \in Byte
    BY <1>3, <1>10
  <2>2. ScanSteps(input)[n + 1] = ValidateByte(ScanSteps(input)[n], input[n + 1])
    BY <1>3, <1>8
  <2> QED
    BY <2>1, <2>2, ValidateByteType
<1>11. Nat \subseteq T
  <2> HIDE DEF T
  <2> QED
    BY <1>9, <1>10, SetInduction
<1>12. \A n \in 0..Len(input) : ScanSteps(input)[n] \in ScanState
  BY <1>3, <1>11
<1>13. ScanSteps(input) \in [0..Len(input) -> ScanState]
  <2> HIDE DEF start
  <2> QED
    BY <1>7, <1>12
<1> QED
  BY <1>8, <1>13

LEMMA CompressByteType ==
    ASSUME NEW out \in CompressState, NEW b \in Byte
    PROVE  CompressByte(out, b) \in CompressState
<1>1. out.bytes \in Seq(Byte) /\ out.run \in BOOLEAN
  BY DEF CompressState
<1>2. CASE b # 0
  BY <1>1, <1>2 DEF CompressByte, CompressState
<1>3. CASE b = 0 /\ out.run /\ Last(out.bytes) < MaxByte
  <2>1. Len(out.bytes) \in 1..Len(out.bytes) /\ out.bytes[Len(out.bytes)] + 1 \in Byte
    BY <1>1, <1>3, SizesAssumption DEF CompressState, Byte, Last
  <2>2. [out.bytes EXCEPT ![Len(out.bytes)] = @ + 1] \in Seq(Byte) \ {<<>>}
    BY <1>1, <2>1
  <2> QED
    BY <1>1, <1>3, <2>2 DEF CompressByte, CompressState
<1>4. CASE b = 0 /\ ~(out.run /\ Last(out.bytes) < MaxByte)
  <2>1. out.bytes \o <<0, 0>> \in Seq(Byte) \ {<<>>}
    BY <1>1, ByteIsNat
  <2> QED
    BY <1>4, <2>1 DEF CompressByte, CompressState
<1> QED
  BY <1>2, <1>3, <1>4

(* The client's Compress, a byte at a time.                                *)
LEMMA CompressStepsDef ==
    ASSUME NEW input \in Seq(Byte)
    PROVE  /\ CompressSteps(input) \in [0..Len(input) -> CompressState]
           /\ CompressSteps(input)[0] = [bytes |-> <<>>, run |-> FALSE]
           /\ \A n \in 1..Len(input) :
                 CompressSteps(input)[n] = CompressByte(CompressSteps(input)[n - 1], input[n])
<1> DEFINE start == [bytes |-> <<>>, run |-> FALSE]
           step == [x \in CompressState \X (1..Len(input)) |-> CompressByte(x[1], input[x[2]])]
           Def(f) == [n \in 0..Len(input) |->
                         IF n = 0 THEN start ELSE CompressByte(f[n - 1], input[n])]
<1>1. start \in CompressState
  BY DEF CompressState
<1>2. step \in [CompressState \X (1..Len(input)) -> CompressState]
  BY CompressByteType
<1>3. Len(input) \in Nat
  OBVIOUS
<1>4. PICK f \in [0..Len(input) -> CompressState] : GoesOn(f, Len(input), start, step)
  <2> HIDE DEF start, step
  <2> QED
    BY <1>1, <1>2, <1>3, Recursion
<1>5. f = Def(f)
  <2>1. ASSUME NEW n \in 1..Len(input)
        PROVE  f[n] = CompressByte(f[n - 1], input[n])
    <3>1. <<f[n - 1], n>> \in CompressState \X (1..Len(input))
      BY <1>3
    <3>2. f[n] = step[<<f[n - 1], n>>]
      BY <1>4 DEF GoesOn
    <3> QED
      BY <3>1, <3>2
  <2> HIDE DEF start, step
  <2> QED
    BY <1>4, <2>1 DEF GoesOn
<1>6. CompressSteps(input) = CHOOSE g : g = Def(g)
  BY DEF CompressSteps
<1>7. CompressSteps(input) = Def(CompressSteps(input))
  <2> HIDE DEF Def
  <2> QED
    BY <1>5, <1>6
<1>8. /\ CompressSteps(input)[0] = start
      /\ \A n \in 1..Len(input) :
            CompressSteps(input)[n] = CompressByte(CompressSteps(input)[n - 1], input[n])
  <2> HIDE DEF start
  <2> QED
    BY <1>3, <1>7
<1> DEFINE T == {n \in Nat : n <= Len(input) => CompressSteps(input)[n] \in CompressState}
<1>9. 0 \in T
  BY <1>1, <1>8
<1>10. ASSUME NEW n \in Nat, n \in T
       PROVE  n + 1 \in T
  <2> SUFFICES ASSUME n + 1 <= Len(input)
               PROVE  CompressSteps(input)[n + 1] \in CompressState
    OBVIOUS
  <2>1. CompressSteps(input)[n] \in CompressState /\ input[n + 1] \in Byte
    BY <1>3, <1>10
  <2>2. CompressSteps(input)[n + 1] = CompressByte(CompressSteps(input)[n], input[n + 1])
    BY <1>3, <1>8
  <2> QED
    BY <2>1, <2>2, CompressByteType
<1>11. Nat \subseteq T
  <2> HIDE DEF T
  <2> QED
    BY <1>9, <1>10, SetInduction
<1>12. \A n \in 0..Len(input) : CompressSteps(input)[n] \in CompressState
  BY <1>3, <1>11
<1>13. CompressSteps(input) \in [0..Len(input) -> CompressState]
  <2> HIDE DEF start
  <2> QED
    BY <1>7, <1>12
<1> QED
  BY <1>8, <1>13

----------------------------------------------------------------------------
(* What Unpack does to a sequence depends on its bytes up to there alone,  *)
(* and what it has written stays.                                          *)

LEMMA UnpackPrefix ==
    ASSUME NEW s \in Seq(Byte), NEW t \in Seq(Byte), NEW k \in Nat,
           k <= Len(s), k <= Len(t), \A i \in 1..k : s[i] = t[i]
    PROVE  \A j \in 0..k : UnpackSteps(s)[j] = UnpackSteps(t)[j]
<1> DEFINE T == {j \in Nat : j <= k => UnpackSteps(s)[j] = UnpackSteps(t)[j]}
<1>1. 0 \in T
  BY UnpackStepsDef
<1>2. ASSUME NEW j \in Nat, j \in T
      PROVE  j + 1 \in T
  <2> SUFFICES ASSUME j + 1 <= k
               PROVE  UnpackSteps(s)[j + 1] = UnpackSteps(t)[j + 1]
    OBVIOUS
  <2>1. UnpackSteps(s)[j] = UnpackSteps(t)[j] /\ s[j + 1] = t[j + 1]
    BY <1>2
  <2>2. UnpackSteps(s)[j + 1] = UnpackByte(UnpackSteps(s)[j], s[j + 1])
    BY UnpackStepsDef
  <2>3. UnpackSteps(t)[j + 1] = UnpackByte(UnpackSteps(t)[j], t[j + 1])
    BY UnpackStepsDef
  <2> QED
    BY <2>1, <2>2, <2>3
<1>3. Nat \subseteq T
  <2> HIDE DEF T
  <2> QED
    BY <1>1, <1>2, SetInduction
<1> QED
  BY <1>3

LEMMA UnpackAppend ==
    ASSUME NEW s \in Seq(Byte), NEW b \in Byte
    PROVE  /\ \A j \in 0..Len(s) : UnpackSteps(Append(s, b))[j] = UnpackSteps(s)[j]
           /\ UnpackSteps(Append(s, b))[Len(s) + 1] = UnpackByte(UnpackSteps(s)[Len(s)], b)
<1>1. Append(s, b) \in Seq(Byte) /\ Len(Append(s, b)) = Len(s) + 1
  OBVIOUS
<1>2. \A j \in 0..Len(s) : UnpackSteps(Append(s, b))[j] = UnpackSteps(s)[j]
  <2> DEFINE t == Append(s, b)
  <2>1. /\ t \in Seq(Byte) /\ Len(s) \in Nat /\ Len(s) <= Len(t)
        /\ \A i \in 1..Len(s) : t[i] = s[i]
    OBVIOUS
  <2> HIDE DEF t
  <2>2. \A j \in 0..Len(s) : UnpackSteps(t)[j] = UnpackSteps(s)[j]
    BY <2>1, UnpackPrefix
  <2> QED
    BY <2>2 DEF t
<1>3. UnpackSteps(Append(s, b))[Len(s) + 1]
          = UnpackByte(UnpackSteps(Append(s, b))[Len(s)], Append(s, b)[Len(s) + 1])
  BY <1>1, UnpackStepsDef
<1> QED
  BY <1>2, <1>3

LEMMA UnpackByteGrows ==
    ASSUME NEW out \in UnpackState, NEW b \in Byte
    PROVE  /\ Len(UnpackByte(out, b).bytes)
                 = Len(out.bytes) + (IF out.counting THEN b ELSE 1)
           /\ UnpackByte(out, b).counting <=> ~out.counting /\ b = 0
           /\ \A i \in 1..Len(out.bytes) : UnpackByte(out, b).bytes[i] = out.bytes[i]
<1>1. out.bytes \in Seq(Byte) /\ out.counting \in BOOLEAN /\ b \in Nat
  BY ByteIsNat DEF UnpackState
<1>2. CASE out.counting
  <2> DEFINE zeros == [i \in 1..b |-> 0]
  <2>1. zeros \in Seq(Byte) /\ Len(zeros) = b
    BY <1>1, ByteIsNat
  <2>2. UnpackByte(out, b).bytes = out.bytes \o zeros /\ ~UnpackByte(out, b).counting
    BY <1>2 DEF UnpackByte
  <2> HIDE DEF zeros
  <2>3. /\ Len(out.bytes \o zeros) = Len(out.bytes) + b
        /\ \A i \in 1..Len(out.bytes) : (out.bytes \o zeros)[i] = out.bytes[i]
    BY <1>1, <2>1
  <2> QED
    BY <1>2, <2>2, <2>3
<1>3. CASE ~out.counting
  <2>1. UnpackByte(out, b).bytes = Append(out.bytes, b)
    BY <1>3 DEF UnpackByte
  <2>2. UnpackByte(out, b).counting <=> b = 0
    BY <1>3 DEF UnpackByte
  <2>3. /\ Len(Append(out.bytes, b)) = Len(out.bytes) + 1
        /\ \A i \in 1..Len(out.bytes) : Append(out.bytes, b)[i] = out.bytes[i]
    BY <1>1
  <2> QED
    BY <1>3, <2>1, <2>2, <2>3
<1> QED
  BY <1>1, <1>2, <1>3

LEMMA UnpackGrows ==
    ASSUME NEW s \in Seq(Byte), NEW k \in Nat, NEW m \in Nat, k <= m, m <= Len(s)
    PROVE  /\ Len(UnpackSteps(s)[k].bytes) <= Len(UnpackSteps(s)[m].bytes)
           /\ \A i \in 1..Len(UnpackSteps(s)[k].bytes) :
                 UnpackSteps(s)[m].bytes[i] = UnpackSteps(s)[k].bytes[i]
<1> DEFINE Out(j) == UnpackSteps(s)[j].bytes
           Extends(j) == /\ Len(Out(k)) <= Len(Out(j))
                         /\ \A i \in 1..Len(Out(k)) : Out(j)[i] = Out(k)[i]
           T == {j \in Nat : k <= j /\ j <= Len(s) => Extends(j)}
<1>1. \A j \in 0..Len(s) : UnpackSteps(s)[j] \in UnpackState
  BY UnpackStepsDef
<1>2. 0 \in T
  OBVIOUS
<1>3. ASSUME NEW j \in Nat, j \in T
      PROVE  j + 1 \in T
  <2> SUFFICES ASSUME k <= j, j + 1 <= Len(s)
               PROVE  Extends(j + 1)
    OBVIOUS
  <2>1. Extends(j)
    BY <1>3
  <2>2. UnpackSteps(s)[j + 1] = UnpackByte(UnpackSteps(s)[j], s[j + 1])
    BY UnpackStepsDef
  <2>3. Out(k) \in Seq(Byte) /\ Out(j) \in Seq(Byte) /\ s[j + 1] \in Byte
    BY <1>1 DEF UnpackState
  <2>4. /\ Out(j + 1) \in Seq(Byte)
        /\ Len(Out(j)) <= Len(Out(j + 1))
        /\ \A i \in 1..Len(Out(j)) : Out(j + 1)[i] = Out(j)[i]
    <3>1. Out(j + 1) \in Seq(Byte)
      BY <1>1 DEF UnpackState
    <3>2. UnpackSteps(s)[j] \in UnpackState
      BY <1>1
    <3>3. /\ Len(Out(j + 1)) = Len(Out(j))
                + (IF UnpackSteps(s)[j].counting THEN s[j + 1] ELSE 1)
          /\ \A i \in 1..Len(Out(j)) : Out(j + 1)[i] = Out(j)[i]
      BY <2>2, <2>3, <3>2, UnpackByteGrows
    <3> HIDE DEF Out
    <3>4. Len(Out(j)) \in Nat
      BY <2>3
    <3>5. s[j + 1] \in Nat
      BY <2>3, ByteIsNat
    <3> QED
      BY <3>1, <3>3, <3>4, <3>5
  <2> HIDE DEF Out
  <2> QED
    BY <2>1, <2>3, <2>4
<1>4. Nat \subseteq T
  <2> HIDE DEF T
  <2> QED
    BY <1>2, <1>3, SetInduction
<1> QED
  BY <1>4

----------------------------------------------------------------------------
(* Validate and Unpack.                                                    *)

(* After its first j bytes the input is at the end of a run, and has a     *)
(* character.                                                              *)
Whole(input, j) == /\ ~UnpackSteps(input)[j].counting
                   /\ Len(UnpackSteps(input)[j].bytes) >= CharacterSize

(* What Validate knows after k bytes, in terms of Unpack: it has stopped   *)
(* at the first end of a run that has a character, or there was none.      *)
Agrees(input, k) ==
    LET scan == ScanSteps(input)[k]
        out == UnpackSteps(input)[k]
    IN  /\ scan.enough =>
            \E j \in 0..k : /\ Whole(input, j) /\ scan.read = HeaderSize + j
                            /\ \A i \in 0..(j - 1) : ~Whole(input, i)
        /\ ~scan.enough => /\ scan.read = HeaderSize + k
                           /\ scan.size = Len(out.bytes)
                           /\ scan.counting <=> out.counting
                           /\ \A j \in 0..k : ~Whole(input, j)

LEMMA ScanAgrees ==
    ASSUME NEW input \in Seq(Byte)
    PROVE  \A k \in 0..Len(input) : Agrees(input, k)
<1> DEFINE T == {k \in Nat : k <= Len(input) => Agrees(input, k)}
<1>1. 0 \in T
  <2>1. ScanSteps(input)[0] = [read |-> HeaderSize, size |-> 0, counting |-> FALSE,
                               enough |-> FALSE]
    BY ScanStepsDef
  <2>2. UnpackSteps(input)[0] = [bytes |-> <<>>, counting |-> FALSE]
    BY UnpackStepsDef
  <2>3. ~Whole(input, 0)
    BY <2>2, SizesAssumption DEF Whole
  <2> QED
    BY <2>1, <2>2, <2>3, SizesAssumption DEF Agrees
<1>2. ASSUME NEW k \in Nat, k \in T
      PROVE  k + 1 \in T
  <2> SUFFICES ASSUME k + 1 <= Len(input)
               PROVE  Agrees(input, k + 1)
    OBVIOUS
  <2> DEFINE b == input[k + 1]
             scan == ScanSteps(input)[k]
             more == ScanSteps(input)[k + 1]
             out == UnpackSteps(input)[k]
             next == UnpackSteps(input)[k + 1]
  <2>1. Agrees(input, k) /\ Len(input) \in Nat
    BY <1>2
  <2>2. scan \in ScanState /\ out \in UnpackState /\ b \in Byte /\ b \in Nat
    BY <2>1, ScanStepsDef, UnpackStepsDef, ByteIsNat
  <2>3. more = ValidateByte(scan, b)
    BY <2>1, ScanStepsDef
  <2>4. next = UnpackByte(out, b)
    BY <2>1, UnpackStepsDef
  <2>5. CASE scan.enough
    <3>1. more = scan
      BY <2>3, <2>5 DEF ValidateByte
    <3>2. PICK j \in 0..k : /\ Whole(input, j) /\ scan.read = HeaderSize + j
                            /\ \A i \in 0..(j - 1) : ~Whole(input, i)
      BY <2>1, <2>5 DEF Agrees
    <3>3. j \in 0..(k + 1) /\ more.read = HeaderSize + j /\ more.enough
      BY <2>5, <3>1, <3>2
    <3> HIDE DEF more
    <3> QED
      BY <3>2, <3>3 DEF Agrees, more
  <2>6. CASE ~scan.enough
    <3>1. /\ scan.read = HeaderSize + k /\ scan.size = Len(out.bytes)
          /\ scan.counting <=> out.counting
          /\ \A j \in 0..k : ~Whole(input, j)
      BY <2>1, <2>6 DEF Agrees
    <3>2. /\ Len(next.bytes) = Len(out.bytes) + (IF out.counting THEN b ELSE 1)
          /\ next.counting <=> ~out.counting /\ b = 0
      BY <2>2, <2>4, UnpackByteGrows
    <3>3. /\ more.read = scan.read + 1
          /\ more.size = scan.size + (IF scan.counting THEN b ELSE 1)
          /\ more.counting <=> ~scan.counting /\ b = 0
          /\ more.enough <=> ~more.counting /\ more.size >= CharacterSize
      <4> DEFINE counting == ~scan.counting /\ b = 0
                 size == scan.size + (IF scan.counting THEN b ELSE 1)
                 enough == ~counting /\ size >= CharacterSize
      <4>1. more = [read |-> scan.read + 1, size |-> size, counting |-> counting,
                    enough |-> enough]
        BY <2>3, <2>6 DEF ValidateByte
      <4>2. more.read = scan.read + 1 /\ more.size = size
        BY <4>1
      <4>3. more.counting = counting /\ more.enough = enough
        <5> HIDE DEF more, counting, size, enough
        <5> QED
          BY <4>1, Zenon
      <4> QED
        BY <4>2, <4>3
    <3>4. more.enough <=> Whole(input, k + 1)
      BY <3>1, <3>2, <3>3 DEF Whole
    <3>5. more.read = HeaderSize + (k + 1)
      BY <3>1, <3>3, SizesAssumption
    <3>6. CASE more.enough
      <4>1. Whole(input, k + 1) /\ \A i \in 0..((k + 1) - 1) : ~Whole(input, i)
        BY <3>1, <3>4, <3>6
      <4> QED
        BY <3>5, <3>6, <4>1 DEF Agrees
    <3>7. CASE ~more.enough
      <4>1. \A j \in 0..(k + 1) : ~Whole(input, j)
        BY <3>1, <3>4, <3>7
      <4>2. more.size = Len(next.bytes) /\ (more.counting <=> next.counting)
        BY <3>1, <3>2, <3>3
      <4> QED
        BY <3>5, <3>7, <4>1, <4>2 DEF Agrees
    <3> QED
      BY <3>6, <3>7
  <2> QED
    BY <2>5, <2>6
<1>3. Nat \subseteq T
  <2> HIDE DEF T
  <2> QED
    BY <1>1, <1>2, SetInduction
<1> QED
  BY <1>3

LEMMA AfterHeaderIs ==
    ASSUME NEW data \in Seq(Byte)
    PROVE  /\ AfterHeader(data) \in Seq(Byte)
           /\ Len(AfterHeader(data))
                = IF Len(data) >= HeaderSize THEN Len(data) - HeaderSize ELSE 0
           /\ \A i \in 1..Len(AfterHeader(data)) :
                 AfterHeader(data)[i] = data[HeaderSize + i]
<1>1. HeaderSize \in Nat /\ Len(data) \in Nat
  BY SizesAssumption
<1>2. CASE Len(data) >= HeaderSize + 1
  BY <1>1, <1>2 DEF AfterHeader
<1>3. CASE Len(data) <= HeaderSize
  <2>1. AfterHeader(data) = <<>>
    BY <1>1, <1>3 DEF AfterHeader
  <2> QED
    BY <1>1, <1>3, <2>1
<1> QED
  BY <1>1, <1>2, <1>3

(* Validate finds a character exactly if some beginning is one, and stops  *)
(* at the end of the shortest.                                             *)
LEMMA ScanFindsFirst ==
    ASSUME NEW data \in Seq(Byte)
    PROVE  /\ Scan(data).enough <=> \E j \in 0..Len(AfterHeader(data)) :
                                       Whole(AfterHeader(data), j)
           /\ Scan(data).enough =>
                \E j \in 0..Len(AfterHeader(data)) :
                   /\ Whole(AfterHeader(data), j)
                   /\ \A i \in 0..(j - 1) : ~Whole(AfterHeader(data), i)
                   /\ Scan(data).read = HeaderSize + j
<1> DEFINE D == AfterHeader(data)
           scan == ScanSteps(D)[Len(D)]
<1>1. D \in Seq(Byte) /\ Len(D) \in Nat
  BY AfterHeaderIs
<1> HIDE DEF D
<1>2. Agrees(D, Len(D))
  BY <1>1, ScanAgrees
<1>3. scan.enough => \E j \in 0..Len(D) : /\ Whole(D, j) /\ scan.read = HeaderSize + j
                                          /\ \A i \in 0..(j - 1) : ~Whole(D, i)
  BY <1>2 DEF Agrees
<1>4. ~scan.enough => \A j \in 0..Len(D) : ~Whole(D, j)
  BY <1>2 DEF Agrees
<1>5. Scan(data) = scan
  BY DEF Scan, D
<1> QED
  BY <1>3, <1>4, <1>5 DEF D

LEMMA TruncatedUnpacks ==
    ASSUME NEW data \in Seq(Byte), NEW n \in HeaderSize..Len(data)
    PROVE  /\ Unpacking(SubSeq(data, 1, n)) = UnpackSteps(AfterHeader(data))[n - HeaderSize]
           /\ n - HeaderSize \in 0..Len(AfterHeader(data))
<1> DEFINE s == SubSeq(data, 1, n)
           D == AfterHeader(data)
           E == AfterHeader(s)
<1>1. s \in Seq(Byte) /\ Len(s) = n /\ \A i \in 1..n : s[i] = data[i]
  BY SizesAssumption
<1>2. HeaderSize \in Nat /\ n \in Nat /\ n >= HeaderSize /\ n <= Len(data) /\ Len(data) \in Nat
  BY SizesAssumption
<1> HIDE DEF s
<1>3. /\ D \in Seq(Byte) /\ Len(D) = Len(data) - HeaderSize
      /\ \A i \in 1..Len(D) : D[i] = data[HeaderSize + i]
  BY <1>2, AfterHeaderIs
<1>4. /\ E \in Seq(Byte) /\ Len(E) = n - HeaderSize
      /\ \A i \in 1..Len(E) : E[i] = s[HeaderSize + i]
  BY <1>1, <1>2, AfterHeaderIs
<1> HIDE DEF D, E
<1>5. Len(E) \in Nat /\ Len(E) <= Len(D)
  BY <1>2, <1>3, <1>4
<1>6. ASSUME NEW i \in 1..Len(E)
      PROVE  E[i] = D[i]
  <2>1. HeaderSize + i \in 1..n /\ i \in 1..Len(D)
    BY <1>2, <1>3, <1>4
  <2> QED
    BY <1>1, <1>3, <1>4, <2>1
<1>7. \A j \in 0..Len(E) : UnpackSteps(E)[j] = UnpackSteps(D)[j]
  <2> DEFINE k == Len(E)
  <2>1. k \in Nat /\ k <= Len(E) /\ k <= Len(D) /\ \A i \in 1..k : E[i] = D[i]
    BY <1>5, <1>6
  <2>2. E \in Seq(Byte) /\ D \in Seq(Byte)
    BY <1>3, <1>4
  <2> HIDE DEF k
  <2>3. \A j \in 0..k : UnpackSteps(E)[j] = UnpackSteps(D)[j]
    BY <2>1, <2>2, UnpackPrefix
  <2> QED
    BY <2>3 DEF k
<1>8. UnpackSteps(E)[n - HeaderSize] = UnpackSteps(D)[n - HeaderSize]
  BY <1>2, <1>4, <1>5, <1>7
<1> QED
  BY <1>2, <1>3, <1>4, <1>8 DEF Unpacking, D, E, s

LEMMA MinIs ==
    ASSUME NEW T, T \subseteq Nat, NEW m \in T, \A n \in T : m <= n
    PROVE  Min(T) = m
<1>1. Min(T) \in T /\ \A n \in T : Min(T) <= n
  BY DEF Min
<1>2. Min(T) <= m /\ m <= Min(T) /\ m \in Nat /\ Min(T) \in Nat
  BY <1>1
<1> QED
  BY <1>2

(* Whatever bytes a task has: Validate finds a character exactly if some   *)
(* beginning of the bytes ends at the end of a run and unpacks to one, and *)
(* reads up to the end of the shortest.                                    *)
THEOREM ValidateIsExact ==
    ASSUME NEW data \in Seq(Byte)
    PROVE  LET Unpacked(n) == Unpacking(SubSeq(data, 1, n))
               Enough == {n \in HeaderSize..Len(data) :
                            /\ ~Unpacked(n).counting
                            /\ Len(Unpacked(n).bytes) >= CharacterSize}
           IN  /\ Scan(data).enough <=> Enough # {}
               /\ Enough # {} => Scan(data).read = Min(Enough)
<1> DEFINE D == AfterHeader(data)
           Enough == {n \in HeaderSize..Len(data) :
                        /\ ~Unpacking(SubSeq(data, 1, n)).counting
                        /\ Len(Unpacking(SubSeq(data, 1, n)).bytes) >= CharacterSize}
<1>1. HeaderSize \in Nat \ {0} /\ CharacterSize \in Nat \ {0} /\ Len(data) \in Nat
  BY SizesAssumption
<1>2. D \in Seq(Byte) /\ Len(D) = IF Len(data) >= HeaderSize THEN Len(data) - HeaderSize ELSE 0
  BY AfterHeaderIs
<1>3. ASSUME NEW n \in HeaderSize..Len(data)
      PROVE  n \in Enough <=> Whole(D, n - HeaderSize)
  BY <1>3, TruncatedUnpacks DEF Whole
<1> HIDE DEF D, Enough
<1>4. ~Whole(D, 0)
  <2>1. UnpackSteps(D)[0].bytes = <<>>
    BY <1>2, UnpackStepsDef
  <2> QED
    BY <1>1, <2>1 DEF Whole
<1>5. Enough \subseteq HeaderSize..Len(data)
  BY DEF Enough
<1>6. ASSUME NEW j \in 0..Len(D), Whole(D, j)
      PROVE  HeaderSize + j \in Enough
  <2>1. HeaderSize + j \in HeaderSize..Len(data) /\ (HeaderSize + j) - HeaderSize = j
    BY <1>1, <1>2, <1>4, <1>6
  <2> QED
    BY <1>3, <1>6, <2>1
<1>7. ASSUME NEW n \in Enough
      PROVE  n - HeaderSize \in 0..Len(D) /\ Whole(D, n - HeaderSize)
  BY <1>1, <1>2, <1>3, <1>5
<1>8. Scan(data).enough <=> Enough # {}
  <2>1. Scan(data).enough <=> \E j \in 0..Len(D) : Whole(D, j)
    BY ScanFindsFirst DEF D
  <2> QED
    BY <1>6, <1>7, <2>1
<1>9. ASSUME Enough # {}
      PROVE  Scan(data).read = Min(Enough)
  <2>1. PICK j \in 0..Len(D) : /\ Whole(D, j)
                               /\ \A i \in 0..(j - 1) : ~Whole(D, i)
                               /\ Scan(data).read = HeaderSize + j
    BY <1>8, <1>9, ScanFindsFirst DEF D
  <2>2. HeaderSize + j \in Enough
    BY <1>6, <2>1
  <2>3. ASSUME NEW n \in Enough
        PROVE  HeaderSize + j <= n
    <3>1. n - HeaderSize \notin 0..(j - 1)
      BY <1>7, <2>1
    <3> QED
      BY <1>1, <1>2, <1>7, <3>1, <1>5
  <2>4. Enough \subseteq Nat
    BY <1>1, <1>5
  <2> QED
    BY <2>1, <2>2, <2>3, <2>4, MinIs
<1> QED
  BY <1>8, <1>9 DEF Enough

----------------------------------------------------------------------------
(* The client's Compress and the server's Unpack.                          *)

(* B is what Compress may make of s: it unpacks to s, and no beginning of  *)
(* it ends at the end of a run and has as many bytes.                      *)
Codes(B, s) ==
    /\ UnpackSteps(B)[Len(B)] = [bytes |-> s, counting |-> FALSE]
    /\ \A k \in 0..(Len(B) - 1) : \/ UnpackSteps(B)[k].counting
                                  \/ Len(UnpackSteps(B)[k].bytes) < Len(s)

(* The last byte of B is the count of a run.                               *)
EndsInCount(B) == B # <<>> /\ UnpackSteps(B)[Len(B) - 1].counting

LEMMA CodesEmpty == Codes(<<>>, <<>>)
<1>1. <<>> \in Seq(Byte) /\ Len(<<>>) = 0
  OBVIOUS
<1>2. UnpackSteps(<<>>)[0] = [bytes |-> <<>>, counting |-> FALSE]
  BY <1>1, UnpackStepsDef
<1>3. UnpackSteps(<<>>)[Len(<<>>)] = [bytes |-> <<>>, counting |-> FALSE]
  BY <1>1, <1>2
<1> QED
  BY <1>1, <1>3 DEF Codes

LEMMA UnpackStateAt ==
    ASSUME NEW B \in Seq(Byte), NEW k \in 0..Len(B)
    PROVE  /\ UnpackSteps(B)[k].bytes \in Seq(Byte)
           /\ Len(UnpackSteps(B)[k].bytes) \in Nat
<1>1. UnpackSteps(B)[k] \in UnpackState
  BY UnpackStepsDef
<1> QED
  BY <1>1 DEF UnpackState

LEMMA UnpackWhole ==
    ASSUME NEW s \in Seq(Byte), NEW b \in Byte
    PROVE  UnpackByte([bytes |-> s, counting |-> FALSE], b)
               = [bytes |-> Append(s, b), counting |-> IF b = 0 THEN TRUE ELSE FALSE]
<1>1. (b = 0) = IF b = 0 THEN TRUE ELSE FALSE
  OBVIOUS
<1> QED
  BY <1>1 DEF UnpackByte

LEMMA UnpackNone ==
    ASSUME NEW s \in Seq(Byte)
    PROVE  UnpackByte([bytes |-> s, counting |-> TRUE], 0) = [bytes |-> s, counting |-> FALSE]
<1>1. [i \in 1..0 |-> 0] = <<>>
  OBVIOUS
<1>2. s \o [i \in 1..0 |-> 0] = s
  BY <1>1, ByteIsNat
<1>3. UnpackByte([bytes |-> s, counting |-> TRUE], 0)
          = [bytes |-> s \o [i \in 1..0 |-> 0], counting |-> FALSE]
  BY DEF UnpackByte
<1> QED
  BY <1>2, <1>3

LEMMA CodesByte ==
    ASSUME NEW B \in Seq(Byte), NEW s \in Seq(Byte), Codes(B, s), NEW b \in Byte, b # 0
    PROVE  Codes(Append(B, b), Append(s, b))
<1> DEFINE more == Append(B, b)
<1>1. Len(B) \in Nat /\ Len(more) = Len(B) + 1 /\ Len(Append(s, b)) = Len(s) + 1
  OBVIOUS
<1>2. /\ \A j \in 0..Len(B) : UnpackSteps(more)[j] = UnpackSteps(B)[j]
      /\ UnpackSteps(more)[Len(B) + 1] = UnpackByte(UnpackSteps(B)[Len(B)], b)
  BY UnpackAppend
<1> HIDE DEF more
<1>3. UnpackSteps(more)[Len(more)] = [bytes |-> Append(s, b), counting |-> FALSE]
  <2>1. UnpackSteps(B)[Len(B)] = [bytes |-> s, counting |-> FALSE]
    BY DEF Codes
  <2>2. UnpackByte(UnpackSteps(B)[Len(B)], b) = [bytes |-> Append(s, b), counting |-> FALSE]
    BY <2>1, UnpackWhole
  <2> QED
    BY <1>1, <1>2, <2>2
<1>4. ASSUME NEW k \in 0..(Len(more) - 1)
      PROVE  UnpackSteps(more)[k].counting \/ Len(UnpackSteps(more)[k].bytes) < Len(s) + 1
  <2>1. UnpackSteps(more)[k] = UnpackSteps(B)[k] /\ Len(s) \in Nat
    BY <1>1, <1>2
  <2>2. CASE k = Len(B)
    BY <2>1, <2>2 DEF Codes
  <2>3. CASE k \in 0..(Len(B) - 1)
    <3>1. UnpackSteps(B)[k] \in UnpackState
      BY <1>1, UnpackStepsDef
    <3>2. Len(UnpackSteps(B)[k].bytes) \in Nat
      BY <3>1 DEF UnpackState
    <3>3. UnpackSteps(B)[k].counting \/ Len(UnpackSteps(B)[k].bytes) < Len(s)
      BY <2>3 DEF Codes
    <3> QED
      BY <2>1, <3>2, <3>3
  <2> QED
    BY <1>1, <2>2, <2>3
<1> QED
  BY <1>1, <1>3, <1>4 DEF Codes, more

LEMMA CodesZero ==
    ASSUME NEW B \in Seq(Byte), NEW s \in Seq(Byte), Codes(B, s)
    PROVE  Codes(B \o <<0, 0>>, Append(s, 0)) /\ EndsInCount(B \o <<0, 0>>)
<1> DEFINE zero == Append(B, 0)
           more == Append(zero, 0)
<1>1. more = B \o <<0, 0>>
  OBVIOUS
<1>2. /\ zero \in Seq(Byte) /\ more \in Seq(Byte) /\ more # <<>>
      /\ Len(B) \in Nat /\ Len(zero) = Len(B) + 1 /\ Len(more) = Len(B) + 2
      /\ Len(s) \in Nat /\ Len(Append(s, 0)) = Len(s) + 1
  <2>1. zero \in Seq(Byte) /\ Len(zero) = Len(B) + 1 /\ Len(B) \in Nat
    BY ByteIsNat
  <2>2. Len(s) \in Nat /\ Len(Append(s, 0)) = Len(s) + 1
    OBVIOUS
  <2> HIDE DEF zero
  <2>3. more \in Seq(Byte) /\ Len(more) = Len(zero) + 1 /\ more # <<>>
    BY <2>1, ByteIsNat
  <2> QED
    BY <2>1, <2>2, <2>3
<1>3. /\ \A j \in 0..Len(B) : UnpackSteps(zero)[j] = UnpackSteps(B)[j]
      /\ UnpackSteps(zero)[Len(B) + 1] = UnpackByte(UnpackSteps(B)[Len(B)], 0)
  BY ByteIsNat, UnpackAppend
<1> HIDE DEF zero
<1>4. /\ \A j \in 0..Len(zero) : UnpackSteps(more)[j] = UnpackSteps(zero)[j]
      /\ UnpackSteps(more)[Len(zero) + 1] = UnpackByte(UnpackSteps(zero)[Len(zero)], 0)
  BY <1>2, ByteIsNat, UnpackAppend
<1> HIDE DEF more
<1>5. UnpackSteps(zero)[Len(zero)] = [bytes |-> Append(s, 0), counting |-> TRUE]
  <2>1. UnpackSteps(B)[Len(B)] = [bytes |-> s, counting |-> FALSE]
    BY DEF Codes
  <2>2. UnpackByte(UnpackSteps(B)[Len(B)], 0) = [bytes |-> Append(s, 0), counting |-> TRUE]
    BY <2>1, UnpackWhole, ByteIsNat
  <2> QED
    BY <1>2, <1>3, <2>2
<1>6. UnpackSteps(more)[Len(more)] = [bytes |-> Append(s, 0), counting |-> FALSE]
  <2>1. Append(s, 0) \in Seq(Byte)
    BY ByteIsNat
  <2>2. UnpackByte(UnpackSteps(zero)[Len(zero)], 0)
            = [bytes |-> Append(s, 0), counting |-> FALSE]
    BY <1>5, <2>1, UnpackNone
  <2>3. Len(more) = Len(zero) + 1
    BY <1>2
  <2> QED
    BY <1>4, <2>2, <2>3
<1>7. UnpackSteps(more)[Len(B) + 1].counting
  <2>1. Len(B) + 1 = Len(zero) /\ Len(zero) \in 0..Len(zero)
    BY <1>2
  <2>2. UnpackSteps(more)[Len(zero)] = [bytes |-> Append(s, 0), counting |-> TRUE]
    BY <1>4, <1>5, <2>1
  <2> QED
    BY <2>1, <2>2
<1>8. ASSUME NEW k \in 0..(Len(more) - 1)
      PROVE  UnpackSteps(more)[k].counting \/ Len(UnpackSteps(more)[k].bytes) < Len(s) + 1
  <2>1. CASE k = Len(B) + 1
    BY <1>7, <2>1
  <2>2. CASE k = Len(B)
    BY <1>2, <1>3, <1>4, <2>2 DEF Codes
  <2>3. CASE k \in 0..(Len(B) - 1)
    <3>1. UnpackSteps(more)[k] = UnpackSteps(B)[k]
      BY <1>2, <1>3, <1>4, <2>3
    <3>2. k \in 0..Len(B)
      BY <1>2, <2>3
    <3>3. Len(UnpackSteps(B)[k].bytes) \in Nat
      BY <3>2, UnpackStateAt
    <3>4. UnpackSteps(B)[k].counting \/ Len(UnpackSteps(B)[k].bytes) < Len(s)
      BY <2>3 DEF Codes
    <3> QED
      BY <1>2, <3>1, <3>3, <3>4
  <2> QED
    BY <1>2, <2>1, <2>2, <2>3
<1>9. Codes(more, Append(s, 0))
  BY <1>2, <1>6, <1>8 DEF Codes
<1>10. EndsInCount(more)
  BY <1>2, <1>7 DEF EndsInCount
<1> QED
  BY <1>1, <1>9, <1>10

LEMMA CodesCount ==
    ASSUME NEW B \in Seq(Byte), NEW s \in Seq(Byte), Codes(B, s), EndsInCount(B),
           Last(B) < MaxByte
    PROVE  LET more == [B EXCEPT ![Len(B)] = @ + 1]
           IN  Codes(more, Append(s, 0)) /\ EndsInCount(more)
<1> DEFINE more == [B EXCEPT ![Len(B)] = @ + 1]
           n == Len(B)
           before == UnpackSteps(B)[n - 1]
<1>1. n \in Nat \ {0} /\ B[n] \in Byte /\ B[n] + 1 \in Byte /\ B[n] \in Nat
  BY SizesAssumption DEF EndsInCount, Byte, Last
<1>2. /\ more \in Seq(Byte) /\ Len(more) = n /\ more # <<>>
      /\ more[n] = B[n] + 1 /\ \A i \in 1..(n - 1) : more[i] = B[i]
  BY <1>1
<1> HIDE DEF more
<1>3. \A j \in 0..(n - 1) : UnpackSteps(more)[j] = UnpackSteps(B)[j]
  <2> DEFINE k == n - 1
  <2>1. /\ k \in Nat /\ k <= Len(B) /\ k <= Len(more)
        /\ \A i \in 1..k : more[i] = B[i]
    BY <1>1, <1>2
  <2> HIDE DEF k
  <2>2. \A j \in 0..k : UnpackSteps(more)[j] = UnpackSteps(B)[j]
    BY <1>2, <2>1, UnpackPrefix
  <2> QED
    BY <2>2 DEF k
<1>4. /\ UnpackSteps(more)[n] = UnpackByte(UnpackSteps(more)[n - 1], more[n])
      /\ UnpackSteps(B)[n] = UnpackByte(before, B[n])
  BY <1>1, <1>2, UnpackStepsDef
<1>5. before.counting
  BY DEF EndsInCount
<1>6. UnpackSteps(more)[n] = UnpackByte(before, B[n] + 1)
  BY <1>1, <1>2, <1>3, <1>4
<1>7. before.bytes \in Seq(Byte)
  <2>1. n - 1 \in 0..Len(B)
    BY <1>1
  <2> QED
    BY <2>1, UnpackStateAt
<1>8. s = before.bytes \o [i \in 1..B[n] |-> 0]
  <2> DEFINE bytes == before.bytes \o [i \in 1..B[n] |-> 0]
  <2>1. UnpackSteps(B)[n] = [bytes |-> bytes, counting |-> FALSE]
    BY <1>4, <1>5 DEF UnpackByte
  <2>2. UnpackSteps(B)[n] = [bytes |-> s, counting |-> FALSE]
    BY DEF Codes
  <2> HIDE DEF bytes
  <2>3. s = bytes
    BY <2>1, <2>2
  <2> QED
    BY <2>3 DEF bytes
<1>9. UnpackSteps(more)[n]
          = [bytes |-> before.bytes \o [i \in 1..(B[n] + 1) |-> 0], counting |-> FALSE]
  BY <1>5, <1>6 DEF UnpackByte
<1>10. before.bytes \o [i \in 1..(B[n] + 1) |-> 0] = Append(s, 0)
  <2> DEFINE p == before.bytes
             m == B[n]
             zeros == [i \in 1..m |-> 0]
             longer == [i \in 1..(m + 1) |-> 0]
  <2>1. p \in Seq(Byte) /\ m \in Nat /\ s = p \o zeros
    BY <1>1, <1>7, <1>8
  <2> HIDE DEF p, m
  <2>2. zeros \in Seq(Byte) /\ longer \in Seq(Byte) /\ longer = Append(zeros, 0)
    BY <2>1, ByteIsNat
  <2> HIDE DEF zeros, longer
  <2>3. p \o Append(zeros, 0) = Append(p \o zeros, 0)
    BY <2>1, <2>2, ByteIsNat
  <2>4. p \o longer = Append(s, 0)
    BY <2>1, <2>2, <2>3
  <2> QED
    BY <2>4 DEF p, m, longer
<1>11. UnpackSteps(more)[n] = [bytes |-> Append(s, 0), counting |-> FALSE]
  BY <1>9, <1>10
<1>12. Len(s) \in Nat /\ Len(Append(s, 0)) = Len(s) + 1
  OBVIOUS
<1>13. ASSUME NEW k \in 0..(n - 1)
       PROVE  UnpackSteps(more)[k].counting \/ Len(UnpackSteps(more)[k].bytes) < Len(s) + 1
  <2>1. UnpackSteps(more)[k] = UnpackSteps(B)[k] /\ k \in 0..Len(B)
    BY <1>1, <1>3
  <2>2. Len(UnpackSteps(B)[k].bytes) \in Nat
    BY <2>1, UnpackStateAt
  <2>3. UnpackSteps(B)[k].counting \/ Len(UnpackSteps(B)[k].bytes) < Len(s)
    BY DEF Codes
  <2> QED
    BY <1>12, <2>1, <2>2, <2>3
<1>14. Codes(more, Append(s, 0))
  BY <1>2, <1>11, <1>12, <1>13 DEF Codes
<1>15. EndsInCount(more)
  BY <1>1, <1>2, <1>3, <1>5 DEF EndsInCount
<1> QED
  BY <1>14, <1>15 DEF more

(* Whatever was read: what Compress has written is a code of it.           *)
LEMMA CompressCodes ==
    ASSUME NEW input \in Seq(Byte)
    PROVE  \A n \in 0..Len(input) :
              /\ CompressSteps(input)[n].bytes \in Seq(Byte)
              /\ Codes(CompressSteps(input)[n].bytes, SubSeq(input, 1, n))
<1> DEFINE Out(n) == CompressSteps(input)[n]
           Good(n) == /\ Codes(Out(n).bytes, SubSeq(input, 1, n))
                      /\ Out(n).run => EndsInCount(Out(n).bytes)
           T == {n \in Nat : n <= Len(input) => Good(n)}
<1>1. 0 \in T
  <2>1. Out(0) = [bytes |-> <<>>, run |-> FALSE]
    BY CompressStepsDef
  <2>2. SubSeq(input, 1, 0) = <<>>
    OBVIOUS
  <2>3. Out(0).bytes = <<>> /\ ~Out(0).run
    BY <2>1
  <2> HIDE DEF Out
  <2>4. Good(0)
    BY <2>2, <2>3, CodesEmpty
  <2> QED
    BY <2>4
<1>2. \A n \in 0..Len(input) : Out(n).bytes \in Seq(Byte)
  BY CompressStepsDef DEF CompressState
<1>3. ASSUME NEW n \in Nat, n \in T
      PROVE  n + 1 \in T
  <2> SUFFICES ASSUME n + 1 <= Len(input)
               PROVE  Good(n + 1)
    OBVIOUS
  <2> DEFINE b == input[n + 1]
             s == SubSeq(input, 1, n)
             B == Out(n).bytes
  <2>1. Good(n) /\ Len(input) \in Nat
    BY <1>3
  <2>2. b \in Byte /\ s \in Seq(Byte) /\ SubSeq(input, 1, n + 1) = Append(s, b)
    BY <2>1
  <2>3. B \in Seq(Byte)
    BY <1>2, <2>1
  <2>4. Out(n + 1) = CompressByte(Out(n), b)
    BY <2>1, CompressStepsDef
  <2>5. CASE b # 0
    <3>1. Out(n + 1) = [bytes |-> Append(B, b), run |-> FALSE]
      BY <2>4, <2>5 DEF CompressByte
    <3>2. Codes(Append(B, b), Append(s, b))
      BY <2>1, <2>2, <2>3, <2>5, CodesByte
    <3>3. Out(n + 1).bytes = Append(B, b) /\ ~Out(n + 1).run
      BY <3>1
    <3> HIDE DEF Out
    <3> QED
      BY <2>2, <3>2, <3>3
  <2>6. CASE b = 0 /\ Out(n).run /\ Last(B) < MaxByte
    <3> DEFINE more == [B EXCEPT ![Len(B)] = @ + 1]
    <3>1. Out(n + 1) = [Out(n) EXCEPT !.bytes[Len(B)] = @ + 1]
      BY <2>4, <2>6 DEF CompressByte
    <3>2. Out(n) \in CompressState
      <4>1. n \in 0..Len(input)
        BY <2>1
      <4> QED
        BY <4>1, CompressStepsDef
    <3>3. Out(n + 1).bytes = more
      BY <3>1, <3>2 DEF CompressState
    <3>4. Codes(more, Append(s, 0)) /\ EndsInCount(more)
      BY <2>1, <2>2, <2>3, <2>6, CodesCount
    <3> QED
      BY <2>2, <2>6, <3>3, <3>4
  <2>7. CASE b = 0 /\ ~(Out(n).run /\ Last(B) < MaxByte)
    <3>1. Out(n + 1) = [bytes |-> B \o <<0, 0>>, run |-> TRUE]
      BY <2>4, <2>7 DEF CompressByte
    <3>2. Codes(B \o <<0, 0>>, Append(s, 0)) /\ EndsInCount(B \o <<0, 0>>)
      BY <2>1, <2>2, <2>3, CodesZero
    <3>3. Out(n + 1).bytes = B \o <<0, 0>>
      BY <3>1
    <3> HIDE DEF Out
    <3> QED
      BY <2>2, <2>7, <3>2, <3>3
  <2> QED
    BY <2>5, <2>6, <2>7
<1>4. Nat \subseteq T
  <2> HIDE DEF T
  <2> QED
    BY <1>1, <1>3, SetInduction
<1> QED
  BY <1>2, <1>4

----------------------------------------------------------------------------
(* What is kept of an upload.                                              *)

LEMMA PrefixUnpacks ==
    ASSUME NEW s \in Seq(Byte), NEW t \in Seq(Byte), Len(s) <= Len(t),
           \A i \in 1..Len(s) : s[i] = t[i]
    PROVE  \A j \in 0..Len(s) : /\ UnpackSteps(s)[j] = UnpackSteps(t)[j]
                                /\ Whole(s, j) <=> Whole(t, j)
<1> DEFINE k == Len(s)
<1>1. k \in Nat /\ k <= Len(s) /\ k <= Len(t) /\ \A i \in 1..k : s[i] = t[i]
  OBVIOUS
<1> HIDE DEF k
<1>2. \A j \in 0..k : UnpackSteps(s)[j] = UnpackSteps(t)[j]
  BY <1>1, UnpackPrefix
<1> QED
  BY <1>2 DEF Whole, k

LEMMA NothingIsNotWhole ==
    ASSUME NEW s \in Seq(Byte)
    PROVE  ~Whole(s, 0)
<1>1. UnpackSteps(s)[0].bytes = <<>>
  BY UnpackStepsDef
<1> QED
  BY <1>1, SizesAssumption DEF Whole

(* What was trimmed once is not trimmed again, and still a character.      *)
LEMMA TrimmedStays ==
    ASSUME NEW data \in Seq(Byte), Scan(data).enough
    PROVE  /\ Trimmed(data) \in Seq(Byte) /\ Len(Trimmed(data)) > HeaderSize
           /\ Scan(Trimmed(data)).enough
           /\ Trimmed(Trimmed(data)) = Trimmed(data)
<1> DEFINE D == AfterHeader(data)
           t == Trimmed(data)
           E == AfterHeader(t)
<1>1. PICK j \in 0..Len(D) : /\ Whole(D, j) /\ \A i \in 0..(j - 1) : ~Whole(D, i)
                             /\ Scan(data).read = HeaderSize + j
  BY ScanFindsFirst
<1>2. /\ D \in Seq(Byte) /\ Len(data) \in Nat /\ HeaderSize \in Nat \ {0}
      /\ Len(D) = IF Len(data) >= HeaderSize THEN Len(data) - HeaderSize ELSE 0
      /\ \A i \in 1..Len(D) : D[i] = data[HeaderSize + i]
  BY AfterHeaderIs, SizesAssumption
<1> HIDE DEF D
<1>3. j # 0
  BY <1>1, <1>2, NothingIsNotWhole
<1>4. HeaderSize + j \in 1..Len(data) /\ j \in Nat /\ j \in 1..Len(D)
  BY <1>1, <1>2, <1>3
<1>5. t = SubSeq(data, 1, HeaderSize + j)
  BY <1>1 DEF Trimmed
<1>6. t \in Seq(Byte) /\ Len(t) = HeaderSize + j /\ \A i \in 1..Len(t) : t[i] = data[i]
  BY <1>4, <1>5
<1> HIDE DEF t
<1>7. E \in Seq(Byte) /\ Len(E) = j /\ \A i \in 1..Len(E) : E[i] = t[HeaderSize + i]
  <2>1. /\ E \in Seq(Byte) /\ \A i \in 1..Len(E) : E[i] = t[HeaderSize + i]
        /\ Len(E) = IF Len(t) >= HeaderSize THEN Len(t) - HeaderSize ELSE 0
    BY <1>6, AfterHeaderIs
  <2>2. Len(t) >= HeaderSize /\ Len(t) - HeaderSize = j
    BY <1>2, <1>4, <1>6
  <2> QED
    BY <2>1, <2>2
<1> HIDE DEF E
<1>8. ASSUME NEW i \in 1..Len(E)
      PROVE  E[i] = D[i]
  <2>1. HeaderSize + i \in 1..Len(t) /\ i \in 1..Len(D)
    BY <1>2, <1>4, <1>6, <1>7
  <2> QED
    BY <1>2, <1>6, <1>7, <2>1
<1>9. \A i \in 0..j : Whole(E, i) <=> Whole(D, i)
  <2>1. Len(E) <= Len(D)
    BY <1>2, <1>4, <1>7
  <2> QED
    BY <1>2, <1>7, <1>8, <2>1, PrefixUnpacks
<1>10. Scan(t).enough
  <2>1. Whole(E, j) /\ j \in 0..Len(E)
    BY <1>1, <1>4, <1>7, <1>9
  <2> QED
    BY <1>6, <2>1, ScanFindsFirst DEF E
<1>11. Scan(t).read = HeaderSize + j
  <2>1. PICK i \in 0..Len(E) : Whole(E, i) /\ Scan(t).read = HeaderSize + i
    BY <1>6, <1>10, ScanFindsFirst DEF E
  <2>2. i = j
    BY <1>1, <1>4, <1>7, <1>9, <2>1
  <2> QED
    BY <2>1, <2>2
<1>12. Trimmed(t) = t
  BY <1>6, <1>11 DEF Trimmed
<1> QED
  BY <1>2, <1>4, <1>6, <1>10, <1>12 DEF t

LEMMA Associative ==
    ASSUME NEW s \in Seq(Byte), NEW t \in Seq(Byte), NEW u \in Seq(Byte)
    PROVE  (s \o t) \o u = s \o (t \o u)
BY SMT

LEMMA Joined ==
    ASSUME NEW s \in Seq(Nat), NEW t \in Seq(Nat)
    PROVE  /\ s \o t \in Seq(Nat) /\ Len(s \o t) = Len(s) + Len(t)
           /\ \A i \in 1..Len(s) : (s \o t)[i] = s[i]
           /\ \A i \in 1..Len(t) : (s \o t)[Len(s) + i] = t[i]
<1>1. Len(s) \in Nat /\ Len(t) \in Nat
  OBVIOUS
<1>2. /\ s \o t \in Seq(Nat) /\ Len(s \o t) = Len(s) + Len(t)
      /\ \A i \in 1..(Len(s) + Len(t)) :
            (s \o t)[i] = IF i <= Len(s) THEN s[i] ELSE t[i - Len(s)]
  BY ConcatProperties
<1>3. ASSUME NEW i \in 1..Len(t)
      PROVE  (s \o t)[Len(s) + i] = t[i]
  <2>1. Len(s) + i \in 1..(Len(s) + Len(t)) /\ ~(Len(s) + i <= Len(s))
        /\ (Len(s) + i) - Len(s) = i
    BY <1>1
  <2> QED
    BY <1>2, <2>1
<1> QED
  BY <1>1, <1>2, <1>3

LEMMA AfterThis ==
    ASSUME NEW s \in Seq(Byte), NEW t \in Seq(Byte)
    PROVE  /\ s \o t \in Seq(Byte) /\ Len(s \o t) = Len(s) + Len(t)
           /\ \A i \in 1..Len(s) : (s \o t)[i] = s[i]
           /\ \A i \in 1..Len(t) : (s \o t)[Len(s) + i] = t[i]
<1>1. s \in Seq(Nat) /\ t \in Seq(Nat)
  BY ByteIsNat, SeqMonotonic
<1>2. s \o t \in Seq(Byte)
  OBVIOUS
<1> QED
  BY <1>1, <1>2, Joined

(* What has come of an upload, and the rest of it.                         *)
IsUpload(data, rest, header, character, garbage) ==
    data \o rest = header \o Compress(character) \o garbage

(* Of what comes after the header, C is a character and no beginning of C  *)
(* is one.                                                                 *)
EndsWith(data, C) ==
    \A i \in 0..Len(AfterHeader(data)) :
        /\ i < Len(C) => ~Whole(AfterHeader(data), i)
        /\ i = Len(C) => Whole(AfterHeader(data), i)

(* The bytes of an upload are those of its header and its compressed       *)
(* character, and Validate reads up to the last of them and no further.    *)
LEMMA UploadReads ==
    ASSUME NEW header \in Seq(Byte), Len(header) = HeaderSize,
           NEW character \in Seq(Byte), Len(character) = CharacterSize,
           NEW garbage \in Seq(Byte), NEW data \in Seq(Byte), NEW rest \in Seq(Byte),
           IsUpload(data, rest, header, character, garbage)
    PROVE  /\ Compress(character) \in Seq(Byte) /\ Compress(character) # <<>>
           /\ \A i \in 1..Len(data) :
                 i <= HeaderSize + Len(Compress(character))
                     => data[i] = (header \o Compress(character))[i]
           /\ EndsWith(data, Compress(character))
<1> DEFINE C == Compress(character)
           D == AfterHeader(data)
           E == C \o garbage
<1>1. C \in Seq(Byte) /\ Codes(C, character)
  <2>1. Len(character) \in 0..Len(character) /\ SubSeq(character, 1, Len(character)) = character
    OBVIOUS
  <2> QED
    BY <2>1, CompressCodes DEF Compress
<1>2. Len(C) \in Nat /\ Len(data) \in Nat /\ HeaderSize \in Nat \ {0}
  BY <1>1, SizesAssumption
<1> HIDE DEF C
<1>3. /\ D \in Seq(Byte)
      /\ Len(D) = IF Len(data) >= HeaderSize THEN Len(data) - HeaderSize ELSE 0
      /\ \A i \in 1..Len(D) : D[i] = data[HeaderSize + i]
  BY AfterHeaderIs
<1> HIDE DEF D
<1>5. /\ E \in Seq(Byte) /\ Len(E) = Len(C) + Len(garbage) /\ Len(garbage) \in Nat
      /\ \A i \in 1..Len(C) : E[i] = C[i]
  BY <1>1
<1>6. header \o C \o garbage = header \o E
  <2>1. header \in Seq(Byte) /\ C \in Seq(Byte) /\ garbage \in Seq(Byte)
    BY <1>1
  <2>2. (header \o C) \o garbage = header \o (C \o garbage)
    BY <2>1, Associative, ZenonT(30)
  <2> QED
    BY <2>2
<1> HIDE DEF E
<1>7. /\ data \o rest = header \o E
      /\ Len(header \o E) = HeaderSize + Len(E)
      /\ \A i \in 1..HeaderSize : (header \o E)[i] = header[i]
      /\ \A i \in 1..Len(E) : (header \o E)[HeaderSize + i] = E[i]
  <2>1. data \o rest = header \o E
    BY <1>6 DEF C, IsUpload
  <2>2. E \in Seq(Byte)
    BY <1>5
  <2>3. /\ Len(header \o E) = Len(header) + Len(E)
        /\ \A i \in 1..Len(header) : (header \o E)[i] = header[i]
        /\ \A i \in 1..Len(E) : (header \o E)[Len(header) + i] = E[i]
    BY <2>2, AfterThis, Zenon
  <2> QED
    BY <2>1, <2>3
<1>8. /\ Len(data) <= HeaderSize + Len(E)
      /\ \A i \in 1..Len(data) : data[i] = (header \o E)[i]
  <2>1. Len(data \o rest) = Len(data) + Len(rest) /\ Len(rest) \in Nat
    BY AfterThis
  <2>2. \A i \in 1..Len(data) : (data \o rest)[i] = data[i]
    BY AfterThis
  <2> QED
    BY <1>2, <1>7, <2>1, <2>2
<1>9. ASSUME NEW i \in 1..Len(D)
      PROVE  D[i] = E[i]
  <2>1. HeaderSize + i \in 1..Len(data) /\ i \in 1..Len(E)
    BY <1>2, <1>3, <1>5, <1>8
  <2>2. (header \o E)[HeaderSize + i] = E[i]
    BY <1>7, <2>1
  <2> QED
    BY <1>3, <1>8, <2>1, <2>2
<1>10. \A i \in 0..Len(D) : Whole(D, i) <=> Whole(E, i)
  <2>1. Len(D) <= Len(E)
    BY <1>2, <1>3, <1>5, <1>8
  <2> QED
    BY <1>3, <1>5, <1>9, <2>1, PrefixUnpacks
<1>11. \A i \in 0..Len(C) : Whole(C, i) <=> Whole(E, i)
  <2>1. Len(C) <= Len(E)
    BY <1>2, <1>5
  <2> QED
    BY <1>1, <1>5, <2>1, PrefixUnpacks
<1>12. Whole(C, Len(C)) /\ \A i \in 0..(Len(C) - 1) : ~Whole(C, i)
  <2>1. Whole(C, Len(C))
    <3>1. UnpackSteps(C)[Len(C)] = [bytes |-> character, counting |-> FALSE]
      BY <1>1 DEF Codes
    <3> QED
      BY <3>1, SizesAssumption DEF Whole
  <2>2. ASSUME NEW i \in 0..(Len(C) - 1)
        PROVE  ~Whole(C, i)
    <3>1. \/ UnpackSteps(C)[i].counting
          \/ Len(UnpackSteps(C)[i].bytes) < CharacterSize
      BY <1>1 DEF Codes
    <3>2. i \in 0..Len(C)
      BY <1>2
    <3>3. Len(UnpackSteps(C)[i].bytes) \in Nat
      BY <1>1, <3>2, UnpackStateAt
    <3>4. CharacterSize \in Nat
      BY SizesAssumption
    <3> QED
      BY <3>1, <3>3, <3>4 DEF Whole
  <2> QED
    BY <2>1, <2>2
<1>13. EndsWith(data, C)
  <2> SUFFICES ASSUME NEW i \in 0..Len(D)
               PROVE  /\ i < Len(C) => ~Whole(D, i)
                      /\ i = Len(C) => Whole(D, i)
    BY DEF EndsWith, D
  <2>1. CASE i < Len(C)
    <3>1. i \in 0..(Len(C) - 1) /\ i \in 0..Len(C)
      BY <1>2, <1>3, <2>1
    <3> QED
      BY <1>10, <1>11, <1>12, <2>1, <3>1
  <2>2. CASE i = Len(C)
    <3>1. i \in 0..Len(C)
      BY <1>2, <2>2
    <3> QED
      BY <1>10, <1>11, <1>12, <2>2, <3>1
  <2> QED
    BY <1>2, <2>1, <2>2
<1>14. C # <<>>
  <2>1. Len(C) # 0
    BY <1>1, <1>12, NothingIsNotWhole
  <2> QED
    BY <2>1
<1>15. /\ \A i \in 1..HeaderSize : (header \o C)[i] = header[i]
       /\ \A i \in 1..Len(C) : (header \o C)[HeaderSize + i] = C[i]
  <2>1. /\ \A i \in 1..Len(header) : (header \o C)[i] = header[i]
        /\ \A i \in 1..Len(C) : (header \o C)[Len(header) + i] = C[i]
    BY <1>1, AfterThis, Zenon
  <2> QED
    BY <2>1
<1>16. ASSUME NEW i \in 1..Len(data), i <= HeaderSize + Len(C)
       PROVE  data[i] = (header \o C)[i]
  <2> i \in Nat \ {0}
    BY <1>2
  <2>1. data[i] = (header \o E)[i]
    BY <1>2, <1>8
  <2>2. CASE i <= HeaderSize
    <3>1. i \in 1..HeaderSize
      BY <1>2, <2>2
    <3> QED
      BY <1>7, <1>15, <2>1, <3>1
  <2>3. CASE i > HeaderSize
    <3> DEFINE k == i - HeaderSize
    <3>1. k \in 1..Len(C) /\ k \in 1..Len(E) /\ i = HeaderSize + k
      BY <1>2, <1>5, <1>16, <2>3
    <3> HIDE DEF k
    <3> QED
      BY <1>5, <1>7, <1>15, <2>1, <3>1
  <2>4. i <= HeaderSize \/ i > HeaderSize
    BY <1>2
  <2> QED
    BY <2>2, <2>3, <2>4, Zenon
<1> QED
  BY <1>1, <1>13, <1>14, <1>16 DEF C

(* Whatever followed the character and however much of it has come:        *)
(* Validate finds a character once the last byte of it is there.           *)
THEOREM AcceptedIsWhole ==
    ASSUME NEW header \in Seq(Byte), Len(header) = HeaderSize,
           NEW character \in Seq(Byte), Len(character) = CharacterSize,
           NEW garbage \in Seq(Byte), NEW data \in Seq(Byte), NEW rest \in Seq(Byte),
           IsUpload(data, rest, header, character, garbage)
    PROVE  Scan(data).enough <=> Len(data) >= HeaderSize + Len(Compress(character))
<1> DEFINE C == Compress(character)
           D == AfterHeader(data)
<1>1. C \in Seq(Byte) /\ C # <<>> /\ EndsWith(data, C)
  BY UploadReads
<1> HIDE DEF C
<1>2. Len(C) \in Nat \ {0} /\ Len(data) \in Nat /\ HeaderSize \in Nat \ {0}
  BY <1>1, SizesAssumption
<1>3. Len(D) = IF Len(data) >= HeaderSize THEN Len(data) - HeaderSize ELSE 0
  BY AfterHeaderIs
<1>4. Scan(data).enough <=> \E j \in 0..Len(D) : Whole(D, j)
  BY ScanFindsFirst
<1>5. /\ \A j \in 0..Len(D) : Whole(D, j) => ~(j < Len(C))
      /\ Len(C) \in 0..Len(D) => Whole(D, Len(C))
  BY <1>1 DEF EndsWith
<1> HIDE DEF D
<1>6. ASSUME Len(data) >= HeaderSize + Len(C)
      PROVE  Scan(data).enough
  <2>1. Len(C) \in 0..Len(D)
    BY <1>2, <1>3, <1>6
  <2> QED
    BY <1>4, <1>5, <2>1
<1>7. ASSUME Scan(data).enough
      PROVE  Len(data) >= HeaderSize + Len(C)
  <2>1. PICK j \in 0..Len(D) : ~(j < Len(C))
    BY <1>4, <1>5, <1>7
  <2> QED
    BY <1>2, <1>3, <2>1
<1> QED
  BY <1>6, <1>7 DEF C

(* Whatever followed the character and however much of it has come: what   *)
(* is kept is the header and the compressed character.                     *)
THEOREM TrimmedIsCharacter ==
    ASSUME NEW header \in Seq(Byte), Len(header) = HeaderSize,
           NEW character \in Seq(Byte), Len(character) = CharacterSize,
           NEW garbage \in Seq(Byte), NEW data \in Seq(Byte), NEW rest \in Seq(Byte),
           IsUpload(data, rest, header, character, garbage),
           Scan(data).enough
    PROVE  Trimmed(data) = header \o Compress(character)
<1> DEFINE C == Compress(character)
           D == AfterHeader(data)
<1>1. /\ C \in Seq(Byte) /\ C # <<>> /\ EndsWith(data, C)
      /\ \A i \in 1..Len(data) : i <= HeaderSize + Len(C) => data[i] = (header \o C)[i]
  BY UploadReads
<1>2. Len(data) >= HeaderSize + Len(C)
  BY AcceptedIsWhole
<1> HIDE DEF C
<1>3. Len(C) \in Nat \ {0} /\ Len(data) \in Nat /\ HeaderSize \in Nat \ {0}
  BY <1>1, SizesAssumption
<1>4. PICK j \in 0..Len(D) : /\ Whole(D, j) /\ \A i \in 0..(j - 1) : ~Whole(D, i)
                             /\ Scan(data).read = HeaderSize + j
  BY ScanFindsFirst
<1>5. Len(D) = IF Len(data) >= HeaderSize THEN Len(data) - HeaderSize ELSE 0
  BY AfterHeaderIs
<1>6. /\ ~(j < Len(C))
      /\ Len(C) \in 0..Len(D) => Whole(D, Len(C))
  BY <1>1, <1>4 DEF EndsWith
<1> HIDE DEF D
<1>7. j = Len(C)
  <2>1. Len(D) \in Nat /\ Len(C) \in 0..Len(D)
    BY <1>2, <1>3, <1>5
  <2>2. Len(C) \notin 0..(j - 1)
    BY <1>4, <1>6, <2>1
  <2> QED
    BY <1>3, <1>6, <2>1, <2>2
<1>8. HeaderSize + Len(C) \in 1..Len(data)
  BY <1>2, <1>3
<1>9. Trimmed(data) = SubSeq(data, 1, HeaderSize + Len(C))
  BY <1>4, <1>7 DEF Trimmed
<1>10. ASSUME NEW i \in 1..(HeaderSize + Len(C))
       PROVE  data[i] = (header \o C)[i]
  <2>1. i \in 1..Len(data) /\ i <= HeaderSize + Len(C)
    BY <1>3, <1>8
  <2> QED
    BY <1>1, <2>1
<1>11. SubSeq(data, 1, HeaderSize + Len(C)) = header \o C
  <2> DEFINE s == SubSeq(data, 1, HeaderSize + Len(C))
             h == header \o C
  <2>1. s \in Seq(Byte) /\ Len(s) = HeaderSize + Len(C)
        /\ \A i \in 1..(HeaderSize + Len(C)) : s[i] = data[i]
    BY <1>3, <1>8
  <2>2. h \in Seq(Byte) /\ Len(h) = HeaderSize + Len(C)
    BY <1>1, AfterThis
  <2>3. \A i \in 1..(HeaderSize + Len(C)) : s[i] = h[i]
    BY <1>10, <2>1
  <2> HIDE DEF s, h
  <2>4. s = h
    BY <2>1, <2>2, <2>3, SeqEqual
  <2> QED
    BY <2>4 DEF s, h
<1> QED
  BY <1>9, <1>11 DEF C

----------------------------------------------------------------------------
(* The metadata.                                                           *)

LEMMA SerializeIs ==
    ASSUME NEW meta \in Seq(Nat \X Nat)
    PROVE  /\ Serialize(meta) \in Seq(Nat)
           /\ Serialize(meta)[1] = Len(meta)
           /\ \A i \in 1..Len(meta) : /\ Serialize(meta)[i + 1] = meta[i][1]
                                      /\ Serialize(meta)[i + Len(meta) + 2] = meta[i][2]
<1> DEFINE n == Len(meta)
           keys == [i \in DOMAIN meta |-> meta[i][1]]
           values == [i \in DOMAIN meta |-> meta[i][2]]
           listed == <<n>> \o keys
           counted == listed \o <<n>>
<1>1. n \in Nat /\ DOMAIN meta = 1..n /\ \A i \in 1..n : meta[i] \in Nat \X Nat
  OBVIOUS
<1>2. /\ keys \in Seq(Nat) /\ Len(keys) = n /\ \A i \in 1..n : keys[i] = meta[i][1]
      /\ values \in Seq(Nat) /\ Len(values) = n /\ \A i \in 1..n : values[i] = meta[i][2]
  BY <1>1
<1>3. <<n>> \in Seq(Nat) /\ Len(<<n>>) = 1 /\ <<n>>[1] = n
  BY <1>1
<1>4. Serialize(meta) = counted \o values
  BY DEF Serialize
<1> HIDE DEF n, keys, values
<1>5. /\ listed \in Seq(Nat) /\ Len(listed) = n + 1 /\ listed[1] = n
      /\ \A i \in 1..n : listed[i + 1] = keys[i]
  <2>1. /\ listed \in Seq(Nat) /\ Len(listed) = Len(<<n>>) + Len(keys)
        /\ \A i \in 1..Len(<<n>>) : listed[i] = <<n>>[i]
        /\ \A i \in 1..Len(keys) : listed[Len(<<n>>) + i] = keys[i]
    BY <1>2, <1>3, Joined
  <2> QED
    BY <1>1, <1>2, <1>3, <2>1
<1> HIDE DEF listed
<1>6. /\ counted \in Seq(Nat) /\ Len(counted) = n + 2
      /\ \A i \in 1..(n + 1) : counted[i] = listed[i]
  <2>1. /\ counted \in Seq(Nat) /\ Len(counted) = Len(listed) + Len(<<n>>)
        /\ \A i \in 1..Len(listed) : counted[i] = listed[i]
    BY <1>3, <1>5, Joined
  <2> QED
    BY <1>1, <1>3, <1>5, <2>1
<1> HIDE DEF counted
<1>7. /\ counted \o values \in Seq(Nat)
      /\ \A i \in 1..(n + 2) : (counted \o values)[i] = counted[i]
      /\ \A i \in 1..n : (counted \o values)[(n + 2) + i] = values[i]
  <2>1. /\ counted \o values \in Seq(Nat)
        /\ \A i \in 1..Len(counted) : (counted \o values)[i] = counted[i]
        /\ \A i \in 1..Len(values) : (counted \o values)[Len(counted) + i] = values[i]
    BY <1>2, <1>6, Joined
  <2> QED
    BY <1>2, <1>6, <2>1
<1>8. Serialize(meta)[1] = n
  BY <1>1, <1>4, <1>5, <1>6, <1>7
<1>9. ASSUME NEW i \in 1..n
      PROVE  Serialize(meta)[i + 1] = meta[i][1] /\ Serialize(meta)[i + n + 2] = meta[i][2]
  <2>1. i + 1 \in 1..(n + 1) /\ i + 1 \in 1..(n + 2) /\ i + n + 2 = (n + 2) + i
    BY <1>1
  <2>2. Serialize(meta)[i + 1] = keys[i]
    BY <1>4, <1>5, <1>6, <1>7, <2>1
  <2>3. Serialize(meta)[i + n + 2] = values[i]
    BY <1>4, <1>7, <2>1
  <2> QED
    BY <1>2, <2>2, <2>3
<1> QED
  BY <1>4, <1>7, <1>8, <1>9 DEF n

(* What a client sends comes back, unless it has too many keys.            *)
THEOREM MetadataComesBack ==
    ASSUME NEW meta \in Seq(Nat \X Nat)
    PROVE  Deserialize(Serialize(meta)) = IF Len(meta) <= MaxKeys THEN meta ELSE <<>>
<1> DEFINE slot == Serialize(meta)
           back == [i \in 1..slot[1] |-> <<slot[i + 1], slot[i + slot[1] + 2]>>]
<1>1. /\ slot[1] = Len(meta) /\ Len(meta) \in Nat
      /\ \A i \in 1..Len(meta) : /\ slot[i + 1] = meta[i][1]
                                 /\ slot[i + Len(meta) + 2] = meta[i][2]
  BY SerializeIs
<1>2. Deserialize(slot) = IF slot[1] > MaxKeys THEN <<>> ELSE back
  BY DEF Deserialize
<1> HIDE DEF slot
<1>3. back = meta
  <2>1. back = [i \in 1..Len(meta) |-> <<meta[i][1], meta[i][2]>>]
    BY <1>1
  <2>2. \A i \in 1..Len(meta) : <<meta[i][1], meta[i][2]>> = meta[i]
    OBVIOUS
  <2>3. meta = [i \in 1..Len(meta) |-> meta[i]]
    BY <1>1
  <2> HIDE DEF back
  <2> QED
    BY <2>1, <2>2, <2>3
<1>4. Deserialize(slot) = IF Len(meta) > MaxKeys THEN <<>> ELSE meta
  <2> HIDE DEF back
  <2> QED
    BY <1>1, <1>2, <1>3
<1>5. MaxKeys \in Nat
  BY SizesAssumption
<1> QED
  BY <1>1, <1>4, <1>5 DEF slot

----------------------------------------------------------------------------
(* The chunks.                                                             *)

LEMMA Division ==
    ASSUME NEW a \in Nat, NEW k \in Nat \ {0}
    PROVE  a \div k \in Nat /\ a % k \in 0..(k - 1) /\ a = (a \div k) * k + (a % k)
BY SMT

LEMMA ChunkCountIs ==
    ASSUME NEW data \in Seq(Byte)
    PROVE  /\ ChunkCount(data) \in Nat
           /\ Len(data) <= ChunkCount(data) * ChunkSize
           /\ (ChunkCount(data) - 1) * ChunkSize < Len(data)
<1> DEFINE a == Len(data) + ChunkSize - 1
           q == a \div ChunkSize
<1>1. ChunkSize \in Nat \ {0} /\ Len(data) \in Nat /\ a \in Nat
  BY SizesAssumption
<1>2. q \in Nat /\ a % ChunkSize \in 0..(ChunkSize - 1) /\ a = q * ChunkSize + (a % ChunkSize)
  BY <1>1, Division
<1> HIDE DEF q
<1>3. Len(data) <= q * ChunkSize /\ (q - 1) * ChunkSize < Len(data)
  BY <1>1, <1>2
<1> QED
  BY <1>2, <1>3 DEF ChunkCount, q

(* A chunk has one length, the bytes at its place and zeros after the last *)
(* one, and is marked exactly if it is the last.                           *)
LEMMA ChunkIs ==
    ASSUME NEW data \in Seq(Byte), NEW n \in 1..ChunkCount(data)
    PROVE  /\ Chunks(data)[n].data \in Seq(Byte)
           /\ Len(Chunks(data)[n].data) = ChunkSize
           /\ \A r \in 1..ChunkSize :
                 Chunks(data)[n].data[r] = IF (n - 1) * ChunkSize + r <= Len(data)
                                           THEN data[(n - 1) * ChunkSize + r] ELSE 0
           /\ Chunks(data)[n].end \in BOOLEAN
           /\ Chunks(data)[n].end <=> n = ChunkCount(data)
<1> DEFINE L == Len(data)
           K == ChunkSize
           q == ChunkCount(data)
           a == (n - 1) * K
           z == Min({n * K, L})
           s == SubSeq(data, a + 1, z)
           zeros == [i \in 1..(K - Len(s)) |-> 0]
<1>1. K \in Nat \ {0} /\ L \in Nat /\ q \in Nat /\ n \in Nat \ {0} /\ n <= q
  BY SizesAssumption, ChunkCountIs
<1>2. L <= q * K /\ (q - 1) * K < L
  BY ChunkCountIs
<1>3. Chunks(data)[n] = [data |-> PaddedTo(s, K), end |-> n * K >= L]
  BY DEF Chunks
<1> HIDE DEF K, L, q
<1>4. a \in Nat /\ n * K = a + K /\ n * K \in Nat
  BY <1>1
<1>5. a < L
  <2>1. n - 1 <= q - 1 /\ n - 1 \in Nat /\ q - 1 \in Nat
    BY <1>1
  <2>2. (n - 1) * K <= (q - 1) * K
    BY <1>1, <2>1
  <2> QED
    BY <1>1, <1>2, <1>4, <2>1, <2>2
<1>6. z = IF a + K <= L THEN a + K ELSE L
  <2> DEFINE T == {n * K, L}
             m == IF a + K <= L THEN a + K ELSE L
  <2>1. T \subseteq Nat /\ m \in T /\ \A i \in T : m <= i
    BY <1>1, <1>4
  <2> HIDE DEF T, m
  <2>2. Min(T) = m
    BY <2>1, MinIs
  <2> QED
    BY <2>2 DEF T, m
<1> HIDE DEF z, a
<1>7. z \in Nat /\ a + 1 <= z /\ z <= L /\ z - a <= K
  BY <1>1, <1>4, <1>5, <1>6
<1>8. s \in Seq(Byte) /\ Len(s) = z - a /\ \A r \in 1..(z - a) : s[r] = data[a + r]
  BY <1>4, <1>7 DEF L
<1> HIDE DEF s
<1>9. zeros \in Seq(Byte) /\ Len(zeros) = K - (z - a) /\ \A r \in 1..(K - (z - a)) : zeros[r] = 0
  BY <1>1, <1>4, <1>7, <1>8, ByteIsNat
<1>10. PaddedTo(s, K) = s \o zeros
  BY DEF PaddedTo
<1> HIDE DEF zeros
<1>11. /\ s \o zeros \in Seq(Byte) /\ Len(s \o zeros) = Len(s) + Len(zeros)
       /\ \A r \in 1..Len(s) : (s \o zeros)[r] = s[r]
       /\ \A r \in 1..Len(zeros) : (s \o zeros)[Len(s) + r] = zeros[r]
  BY <1>8, <1>9, AfterThis
<1>12. Len(s \o zeros) = K
  BY <1>1, <1>4, <1>7, <1>8, <1>9, <1>11
<1>13. ASSUME NEW r \in 1..K
       PROVE  (s \o zeros)[r] = IF a + r <= L THEN data[a + r] ELSE 0
  <2>1. CASE r <= z - a
    <3>1. r \in 1..Len(s) /\ a + r <= L
      BY <1>1, <1>4, <1>7, <1>8, <2>1
    <3> QED
      BY <1>8, <1>11, <3>1
  <2>2. CASE r > z - a
    <3>1. z = L /\ ~(a + r <= L)
      BY <1>1, <1>4, <1>6, <1>7, <2>2
    <3> DEFINE m == r - (z - a)
    <3>2. m \in 1..Len(zeros) /\ r = Len(s) + m
      BY <1>1, <1>4, <1>7, <1>8, <1>9, <2>2
    <3> HIDE DEF m
    <3>3. (s \o zeros)[r] = zeros[m] /\ zeros[m] = 0
      BY <1>9, <1>11, <3>2
    <3> QED
      BY <3>1, <3>3
  <2>3. r <= z - a \/ r > z - a
    BY <1>1, <1>4, <1>7
  <2> QED
    BY <2>1, <2>2, <2>3
<1>14. n * K >= L <=> n = q
  <2>1. CASE n = q
    BY <1>2, <2>1
  <2>2. CASE n < q
    <3>1. n <= q - 1 /\ q - 1 \in Nat
      BY <1>1, <2>2
    <3>2. n * K <= (q - 1) * K
      BY <1>1, <3>1
    <3>3. (q - 1) * K \in Nat
      BY <1>1, <3>1
    <3> QED
      BY <1>1, <1>2, <1>4, <2>2, <3>2, <3>3
  <2> QED
    BY <1>1, <2>1, <2>2
<1>15. Chunks(data)[n].data = s \o zeros /\ Chunks(data)[n].end = (n * K >= L)
  BY <1>3, <1>10
<1>16. Chunks(data)[n].end \in BOOLEAN /\ (Chunks(data)[n].end <=> n = q)
  <2> DEFINE last == n * K >= L
  <2>1. last \in BOOLEAN /\ (last <=> n = q)
    BY <1>14
  <2>2. Chunks(data)[n].end = last
    BY <1>15
  <2> HIDE DEF last
  <2> QED
    BY <2>1, <2>2, Zenon
<1> QED
  BY <1>11, <1>12, <1>13, <1>15, <1>16 DEF a, K, L, q

LEMMA ChunksAre ==
    ASSUME NEW data \in Seq(Byte)
    PROVE  Chunks(data) \in Seq(Chunk) /\ Len(Chunks(data)) = ChunkCount(data)
<1>1. ChunkCount(data) \in Nat
  BY ChunkCountIs
<1>2. ASSUME NEW n \in 1..ChunkCount(data)
      PROVE  Chunks(data)[n] \in Chunk
  <2>1. Chunks(data)[n].data \in Seq(Byte) /\ Chunks(data)[n].end \in BOOLEAN
    BY ChunkIs
  <2>2. \E bytes, end : Chunks(data)[n] = [data |-> bytes, end |-> end]
    BY DEF Chunks
  <2> QED
    BY <2>1, <2>2 DEF Chunk
<1>3. Chunks(data) = [n \in 1..ChunkCount(data) |-> Chunks(data)[n]]
  BY DEF Chunks
<1>4. Chunks(data) \in [1..ChunkCount(data) -> Chunk]
  BY <1>2, <1>3
<1> QED
  BY <1>1, <1>4

LEMMA GatheredIs ==
    ASSUME NEW data \in Seq(Byte)
    PROVE  /\ Gathered(Chunks(data)) \in Seq(Byte)
           /\ Len(Gathered(Chunks(data))) >= Len(data)
           /\ \A i \in 1..Len(data) : Gathered(Chunks(data))[i] = data[i]
<1> DEFINE K == ChunkSize
           q == ChunkCount(data)
           C == Chunks(data)
           G == Gathered(C)
           Part(i) == ((i - 1) \div K) + 1
           Place(i) == ((i - 1) % K) + 1
<1>1. K \in Nat \ {0} /\ q \in Nat /\ Len(data) \in Nat /\ Len(data) <= q * K
  BY SizesAssumption, ChunkCountIs
<1>2. Len(C) = q
  BY ChunksAre
<1>3. G = [i \in 1..(q * K) |-> C[Part(i)].data[Place(i)]]
  BY <1>2 DEF Gathered
<1>4. ASSUME NEW i \in 1..(q * K)
      PROVE  /\ Part(i) \in 1..q /\ Place(i) \in 1..K
             /\ (Part(i) - 1) * K + Place(i) = i
  <2>1. i - 1 \in Nat /\ i - 1 < q * K
    BY <1>1
  <2>2. /\ (i - 1) \div K \in Nat /\ (i - 1) % K \in 0..(K - 1)
        /\ i - 1 = ((i - 1) \div K) * K + ((i - 1) % K)
    BY <1>1, <2>1, Division
  <2> DEFINE d == (i - 1) \div K
             r == (i - 1) % K
  <2>3. d \in Nat /\ r \in 0..(K - 1) /\ i - 1 = d * K + r
    BY <2>2
  <2> HIDE DEF d, r
  <2>4. d * K \in Nat /\ d * K < q * K
    BY <1>1, <2>1, <2>3
  <2>5. d < q
    BY <1>1, <2>3, <2>4
  <2>6. d + 1 \in 1..q /\ r + 1 \in 1..K /\ ((d + 1) - 1) * K + (r + 1) = i
    BY <1>1, <2>3, <2>5
  <2> QED
    BY <2>6 DEF d, r
<1> HIDE DEF K, q, Part, Place
<1>5. ASSUME NEW i \in 1..(q * K)
      PROVE  /\ C[Part(i)].data[Place(i)] \in Byte
             /\ i <= Len(data) => C[Part(i)].data[Place(i)] = data[i]
  <2>1. /\ Part(i) \in 1..q /\ Place(i) \in 1..K /\ (Part(i) - 1) * K + Place(i) = i
    BY <1>4
  <2>2. /\ C[Part(i)].data \in Seq(Byte) /\ Len(C[Part(i)].data) = K
        /\ C[Part(i)].data[Place(i)] = IF (Part(i) - 1) * K + Place(i) <= Len(data)
                                       THEN data[(Part(i) - 1) * K + Place(i)] ELSE 0
    BY <2>1, ChunkIs DEF K, q
  <2> HIDE DEF C
  <2>3. C[Part(i)].data[Place(i)] \in Byte
    BY <1>1, <2>1, <2>2
  <2> QED
    BY <2>1, <2>2, <2>3
<1> HIDE DEF C
<1>6. q * K \in Nat
  BY <1>1
<1>7. G \in Seq(Byte) /\ Len(G) = q * K
  BY <1>3, <1>5, <1>6
<1>8. ASSUME NEW i \in 1..Len(data)
      PROVE  G[i] = data[i]
  <2>1. i \in 1..(q * K) /\ i <= Len(data)
    BY <1>1, <1>6
  <2> QED
    BY <1>3, <1>5, <2>1
<1> QED
  BY <1>1, <1>7, <1>8 DEF C

(* The client that gathers the chunks of a stored character and unpacks    *)
(* them has the character, whatever zeros the last chunk was filled with.  *)
THEOREM DownloadUnpacks ==
    ASSUME NEW header \in Seq(Byte), Len(header) = HeaderSize,
           NEW character \in Seq(Byte), Len(character) = CharacterSize
    PROVE  SubSeq(Unpack(Gathered(Chunks(header \o Compress(character)))), 1, CharacterSize)
               = character
<1> DEFINE C == Compress(character)
           data == header \o C
           G == Gathered(Chunks(data))
           E == AfterHeader(G)
           out == UnpackSteps(E)[Len(E)].bytes
<1>1. C \in Seq(Byte) /\ Codes(C, character)
  <2>1. Len(character) \in 0..Len(character) /\ SubSeq(character, 1, Len(character)) = character
    OBVIOUS
  <2> QED
    BY <2>1, CompressCodes DEF Compress
<1>2. HeaderSize \in Nat \ {0} /\ CharacterSize \in Nat \ {0} /\ Len(C) \in Nat
  BY <1>1, SizesAssumption
<1> HIDE DEF C
<1>3. /\ data \in Seq(Byte) /\ Len(data) = HeaderSize + Len(C)
      /\ \A i \in 1..Len(C) : data[HeaderSize + i] = C[i]
  BY <1>1, AfterThis
<1> HIDE DEF data
<1>4. G \in Seq(Byte) /\ Len(G) >= Len(data) /\ \A i \in 1..Len(data) : G[i] = data[i]
  BY <1>3, GatheredIs
<1> HIDE DEF G
<1>5. /\ E \in Seq(Byte) /\ Len(E) = Len(G) - HeaderSize /\ Len(E) >= Len(C)
      /\ \A i \in 1..Len(E) : E[i] = G[HeaderSize + i]
  <2>1. /\ E \in Seq(Byte) /\ \A i \in 1..Len(E) : E[i] = G[HeaderSize + i]
        /\ Len(E) = IF Len(G) >= HeaderSize THEN Len(G) - HeaderSize ELSE 0
    BY <1>4, AfterHeaderIs
  <2>2. Len(G) \in Nat /\ Len(G) >= HeaderSize + Len(C)
    BY <1>3, <1>4
  <2> QED
    BY <1>2, <2>1, <2>2
<1> HIDE DEF E
<1>6. ASSUME NEW i \in 1..Len(C)
      PROVE  C[i] = E[i]
  <2>1. HeaderSize + i \in 1..Len(data) /\ i \in 1..Len(E)
    BY <1>2, <1>3, <1>5
  <2> QED
    BY <1>3, <1>4, <1>5, <2>1
<1>7. UnpackSteps(E)[Len(C)].bytes = character
  <2>1. UnpackSteps(C)[Len(C)] = UnpackSteps(E)[Len(C)]
    BY <1>1, <1>2, <1>5, <1>6, PrefixUnpacks
  <2>2. UnpackSteps(C)[Len(C)] = [bytes |-> character, counting |-> FALSE]
    BY <1>1 DEF Codes
  <2> QED
    BY <2>1, <2>2
<1>8. /\ Len(character) <= Len(out)
      /\ \A i \in 1..Len(character) : out[i] = character[i]
  <2>1. Len(E) \in Nat /\ Len(C) <= Len(E)
    BY <1>5
  <2> DEFINE k == Len(C)
             m == Len(E)
  <2>2. k \in Nat /\ m \in Nat /\ k <= m /\ m <= Len(E)
    BY <1>2, <2>1
  <2> HIDE DEF k, m
  <2>3. /\ Len(UnpackSteps(E)[k].bytes) <= Len(UnpackSteps(E)[m].bytes)
        /\ \A i \in 1..Len(UnpackSteps(E)[k].bytes) :
              UnpackSteps(E)[m].bytes[i] = UnpackSteps(E)[k].bytes[i]
    BY <1>5, <2>2, UnpackGrows
  <2> QED
    BY <1>7, <2>3 DEF k, m
<1>9. out \in Seq(Byte)
  <2>1. Len(E) \in 0..Len(E)
    BY <1>5
  <2> QED
    BY <1>5, <2>1, UnpackStateAt
<1> HIDE DEF out
<1>10. SubSeq(out, 1, CharacterSize) = character
  <2> DEFINE s == SubSeq(out, 1, CharacterSize)
  <2>1. s \in Seq(Byte) /\ Len(s) = CharacterSize /\ \A i \in 1..CharacterSize : s[i] = out[i]
    BY <1>2, <1>8, <1>9
  <2> HIDE DEF s
  <2>2. s = character
    BY <1>8, <2>1, SeqEqual
  <2> QED
    BY <2>2 DEF s
<1>11. Unpack(G) = out
  BY DEF Unpack, Unpacking, out, E
<1> QED
  BY <1>10, <1>11 DEF G, data, C

----------------------------------------------------------------------------
(* The upload.                                                             *)

LEMMA CompressIsBytes ==
    ASSUME NEW character \in Characters
    PROVE  /\ character \in Seq(Byte) /\ Len(character) = CharacterSize
           /\ Compress(character) \in Seq(Byte)
<1>1. character \in Seq(Byte) /\ Len(character) = CharacterSize
  BY InputsAssumption
<1>2. Len(character) \in 0..Len(character)
  BY <1>1
<1> QED
  BY <1>1, <1>2, CompressCodes DEF Compress

LEMMA SplitSeq ==
    ASSUME NEW s \in Seq(Byte), NEW n \in 0..Len(s)
    PROVE  /\ SubSeq(s, 1, n) \in Seq(Byte) /\ SubSeq(s, n + 1, Len(s)) \in Seq(Byte)
           /\ SubSeq(s, 1, n) \o SubSeq(s, n + 1, Len(s)) = s
<1>1. Len(s) \in Nat /\ n \in 1 - 1..Len(s) /\ Len(s) \in n..Len(s) /\ 1 \in 1..Len(s) + 1
  OBVIOUS
<1>2. SubSeq(s, 1, n) \o SubSeq(s, n + 1, Len(s)) = SubSeq(s, 1, Len(s))
  BY <1>1, ConcatAdjacentSubSeq
<1>3. SubSeq(s, 1, Len(s)) = s
  OBVIOUS
<1>4. SubSeq(s, 1, n) \in Seq(Byte) /\ SubSeq(s, n + 1, Len(s)) \in Seq(Byte)
  OBVIOUS
<1>5. SubSeq(s, 1, n) \o SubSeq(s, n + 1, Len(s)) = s
  BY <1>2, <1>3, Zenon
<1> QED
  BY <1>4, <1>5

LEMMA MetaIs ==
    ASSUME NEW meta \in Metas
    PROVE  /\ meta \in Seq(Nat \X Nat) /\ Serialize(meta) \in Seq(Nat)
           /\ Deserialize(Serialize(meta)) = IF Len(meta) <= MaxKeys THEN meta ELSE <<>>
           /\ Deserialize(Serialize(meta)) \in Metas \cup {<<>>}
           /\ Len(Deserialize(Serialize(meta))) <= MaxKeys
<1>1. meta \in Seq(Nat \X Nat) /\ MaxKeys \in Nat
  BY InputsAssumption, SizesAssumption
<1> QED
  BY <1>1, SerializeIs, MetadataComesBack

LEMMA InitIInv == Init => IInv
BY SizesAssumption
   DEF Init, IInv, TypeOK, TaskIsOfUpload, RowHasMetadata, StoredIsSaved, RepliesAreSaved,
       DownloadIsSaved, ListedIsSaved, NoReply

(* An upload begins.                                                       *)
LEMMA BeginStep ==
    ASSUME IInv, NEW upload \in Seq(Byte), NEW meta \in Metas,
           NEW saving \in Saving \cup {NoSaving}, Begin(upload, meta, saving),
           saving # NoSaving =>
               /\ Len(saving.header) = HeaderSize /\ meta = saving.meta
               /\ \E garbage \in Garbage :
                      upload = saving.header \o Compress(saving.character) \o garbage
    PROVE  IInv'
<1>1. PICK n \in 0..Len(upload) :
         /\ task' = [data |-> SubSeq(upload, 1, n), meta |-> Deserialize(Serialize(meta)),
                     saving |-> saving]
         /\ left' = SubSeq(upload, n + 1, Len(upload))
  BY DEF Begin
<1>2. /\ SubSeq(upload, 1, n) \in Seq(Byte) /\ SubSeq(upload, n + 1, Len(upload)) \in Seq(Byte)
      /\ SubSeq(upload, 1, n) \o SubSeq(upload, n + 1, Len(upload)) = upload
  BY SplitSeq
<1>3. /\ Deserialize(Serialize(meta)) \in Metas \cup {<<>>}
      /\ Len(Deserialize(Serialize(meta))) <= MaxKeys
  BY MetaIs
<1>4. task' \in Task
  BY <1>1, <1>2, <1>3 DEF Task
<1>5. /\ task'.data \o left' = upload /\ task'.saving = saving
      /\ task'.meta = Deserialize(Serialize(meta)) /\ left' \in Seq(Byte)
  BY <1>1, <1>2
<1>6. row' = row /\ reply' = reply /\ uploads' \in 0..MaxUploads
  BY SizesAssumption DEF Begin, IInv, TypeOK
<1>7. TypeOK'
  BY <1>4, <1>5, <1>6 DEF IInv, TypeOK
<1>8. TaskIsOfUpload'
  BY <1>3, <1>5 DEF TaskIsOfUpload
<1>9. RowHasMetadata' /\ StoredIsSaved' /\ RepliesAreSaved'
  BY <1>6 DEF IInv, RowHasMetadata, StoredIsSaved, RepliesAreSaved, DownloadIsSaved,
              ListedIsSaved
<1> QED
  BY <1>7, <1>8, <1>9 DEF IInv

LEMMA BeginCharacterStep == IInv /\ BeginCharacter => IInv'
<1> SUFFICES ASSUME IInv, NEW character \in Characters, NEW header \in [1..HeaderSize -> Byte],
                    NEW garbage \in Garbage, NEW meta \in Metas,
                    Begin(header \o Compress(character) \o garbage, meta,
                          [character |-> character, header |-> header, meta |-> meta])
             PROVE  IInv'
  BY DEF BeginCharacter
<1> DEFINE upload == header \o Compress(character) \o garbage
           saving == [character |-> character, header |-> header, meta |-> meta]
<1>1. header \in Seq(Byte) /\ Len(header) = HeaderSize
  BY SizesAssumption
<1>2. Compress(character) \in Seq(Byte) /\ garbage \in Seq(Byte)
  BY CompressIsBytes, InputsAssumption
<1>3. header \o Compress(character) \in Seq(Byte)
  BY <1>1, <1>2, AfterThis
<1>4. upload \in Seq(Byte)
  BY <1>2, <1>3, AfterThis
<1>5. saving \in Saving
  BY <1>1 DEF Saving
<1>6. /\ saving.header = header /\ saving.meta = meta /\ saving.character = character
  OBVIOUS
<1>7. upload = saving.header \o Compress(saving.character) \o garbage
  BY <1>6
<1> HIDE DEF upload, saving
<1> QED
  BY <1>1, <1>4, <1>5, <1>6, <1>7, BeginStep DEF upload, saving

LEMMA BeginJunkStep == IInv /\ BeginJunk => IInv'
<1> SUFFICES ASSUME IInv, NEW junk \in Junk, NEW meta \in Metas, Begin(junk, meta, NoSaving)
             PROVE  IInv'
  BY DEF BeginJunk
<1>1. junk \in Seq(Byte)
  BY InputsAssumption
<1> QED
  BY <1>1, BeginStep

(* A piece is added to what a task has.                                    *)
LEMMA PieceAdded ==
    ASSUME IInv, task # NoTask, NEW n \in 1..Len(left),
           left' = SubSeq(left, n + 1, Len(left))
    PROVE  LET t == [task EXCEPT !.data = @ \o SubSeq(left, 1, n)]
           IN  /\ t \in Task /\ left' \in Seq(Byte)
               /\ t.data \o left' = task.data \o left
               /\ t.saving = task.saving /\ t.meta = task.meta
<1> DEFINE piece == SubSeq(left, 1, n)
           t == [task EXCEPT !.data = @ \o piece]
<1>1. task \in Task /\ left \in Seq(Byte)
  BY DEF IInv, TypeOK
<1>2. task.data \in Seq(Byte)
  BY <1>1 DEF Task
<1>3. n \in 0..Len(left)
  BY <1>1
<1>4. piece \in Seq(Byte) /\ left' \in Seq(Byte) /\ piece \o left' = left
  BY <1>1, <1>3, SplitSeq
<1> HIDE DEF piece
<1>5. /\ t.data = task.data \o piece /\ t.saving = task.saving /\ t.meta = task.meta
  BY <1>1 DEF Task
<1>6. task.data \o piece \in Seq(Byte)
  BY <1>2, <1>4, AfterThis
<1>7. t \in Task
  BY <1>1, <1>6 DEF Task
<1>8. (task.data \o piece) \o left' = task.data \o (piece \o left')
  BY <1>2, <1>4, Associative
<1> QED
  BY <1>4, <1>5, <1>7, <1>8 DEF piece

(* What Validate lets through is, trimmed, a character with metadata, and  *)
(* the one that was sent.                                                  *)
LEMMA ValidIsCharacter ==
    ASSUME NEW t \in Task, NEW rest \in Seq(Byte), Scan(t.data).enough, t.meta # <<>>,
           Len(t.meta) <= MaxKeys,
           t.saving # NoSaving =>
               /\ Len(t.saving.header) = HeaderSize
               /\ t.meta = Deserialize(Serialize(t.saving.meta))
               /\ \E garbage \in Garbage :
                      t.data \o rest = t.saving.header \o Compress(t.saving.character)
                                         \o garbage
    PROVE  /\ Trimmed(t.data) \in Seq(Byte) /\ Scan(Trimmed(t.data)).enough
           /\ Trimmed(Trimmed(t.data)) = Trimmed(t.data)
           /\ t.meta \in Metas /\ Serialize(t.meta) \in Seq(Nat)
           /\ t.saving # NoSaving =>
                /\ Trimmed(t.data) = t.saving.header \o Compress(t.saving.character)
                /\ t.meta = t.saving.meta
<1>1. t.data \in Seq(Byte) /\ t.meta \in Metas /\ t.saving \in Saving \cup {NoSaving}
  BY DEF Task
<1>2. /\ Trimmed(t.data) \in Seq(Byte) /\ Scan(Trimmed(t.data)).enough
      /\ Trimmed(Trimmed(t.data)) = Trimmed(t.data)
  BY <1>1, TrimmedStays
<1>3. Serialize(t.meta) \in Seq(Nat)
  BY <1>1, MetaIs
<1>4. ASSUME t.saving # NoSaving
      PROVE  /\ Trimmed(t.data) = t.saving.header \o Compress(t.saving.character)
             /\ t.meta = t.saving.meta
  <2>1. /\ t.saving.header \in Seq(Byte) /\ t.saving.character \in Characters
        /\ t.saving.meta \in Metas
    BY <1>1, <1>4 DEF Saving
  <2>2. t.saving.character \in Seq(Byte) /\ Len(t.saving.character) = CharacterSize
    BY <2>1, CompressIsBytes
  <2>3. PICK garbage \in Garbage :
           t.data \o rest = t.saving.header \o Compress(t.saving.character) \o garbage
    BY <1>4
  <2>4. garbage \in Seq(Byte)
    BY InputsAssumption
  <2>5. Trimmed(t.data) = t.saving.header \o Compress(t.saving.character)
    <3> DEFINE data == t.data
               header == t.saving.header
               character == t.saving.character
    <3>1. /\ data \in Seq(Byte) /\ Scan(data).enough
          /\ header \in Seq(Byte) /\ Len(header) = HeaderSize
          /\ character \in Seq(Byte) /\ Len(character) = CharacterSize
          /\ IsUpload(data, rest, header, character, garbage)
      BY <1>1, <1>4, <2>1, <2>2, <2>3 DEF IsUpload
    <3> HIDE DEF data, header, character
    <3>2. Trimmed(data) = header \o Compress(character)
      BY <2>4, <3>1, TrimmedIsCharacter
    <3> QED
      BY <3>2 DEF data, header, character
  <2>6. t.meta = t.saving.meta
    BY <1>4, <2>1, MetaIs
  <2> QED
    BY <2>5, <2>6
<1> QED
  BY <1>1, <1>2, <1>3, <1>4

LEMMA AppendStep ==
    ASSUME IInv, NEW n \in 1..Len(left), NEW endOfData \in BOOLEAN, AppendPiece(n, endOfData)
    PROVE  IInv'
<1> DEFINE t == [task EXCEPT !.data = @ \o SubSeq(left, 1, n)]
           kept == [t EXCEPT !.data = Trimmed(@)]
<1>1. /\ left' = SubSeq(left, n + 1, Len(left)) /\ reply' = reply /\ uploads' = uploads
      /\ left' \in Seq(Byte) /\ left \in Seq(Byte)
  <2>1. left \in Seq(Byte)
    BY DEF IInv, TypeOK
  <2>2. n \in 0..Len(left)
    BY <2>1
  <2> QED
    BY <2>1, <2>2, SplitSeq DEF AppendPiece
<1>2. RepliesAreSaved'
  BY <1>1 DEF IInv, RepliesAreSaved, DownloadIsSaved, ListedIsSaved
<1>3. ASSUME UNCHANGED row
      PROVE  RowHasMetadata' /\ StoredIsSaved' /\ (row \in Row \cup {NoRow})'
  BY <1>3 DEF IInv, TypeOK, RowHasMetadata, StoredIsSaved
<1>4. CASE task = NoTask
  <2>1. UNCHANGED <<task, row>>
    BY <1>4 DEF AppendPiece
  <2>2. TypeOK' /\ TaskIsOfUpload'
    BY <1>1, <1>4, <2>1 DEF IInv, TypeOK, TaskIsOfUpload
  <2> QED
    BY <1>2, <1>3, <2>1, <2>2 DEF IInv
<1>5. CASE task # NoTask
  <2>1. /\ t \in Task /\ t.data \o left' = task.data \o left
        /\ t.saving = task.saving /\ t.meta = task.meta
    BY <1>1, <1>5, PieceAdded
  <2>2. IF endOfData /\ Validates(t) THEN Commit(kept) ELSE task' = t /\ UNCHANGED row
    BY <1>5 DEF AppendPiece
  <2>3. /\ Len(t.meta) <= MaxKeys
        /\ t.saving # NoSaving =>
             /\ Len(t.saving.header) = HeaderSize
             /\ t.meta = Deserialize(Serialize(t.saving.meta))
             /\ \E garbage \in Garbage :
                    t.data \o left' = t.saving.header \o Compress(t.saving.character)
                                        \o garbage
    BY <1>5, <2>1 DEF IInv, TaskIsOfUpload
  <2> HIDE DEF t
  <2>4. CASE ~(endOfData /\ Validates(t))
    <3>1. task' = t /\ UNCHANGED row
      BY <2>2, <2>4
    <3>2. TypeOK'
      BY <1>1, <1>3, <2>1, <3>1 DEF IInv, TypeOK
    <3>3. TaskIsOfUpload'
      BY <2>3, <3>1 DEF TaskIsOfUpload
    <3> QED
      BY <1>2, <1>3, <3>1, <3>2, <3>3 DEF IInv
  <2>5. CASE endOfData /\ Validates(t)
    <3>1. Commit(kept) /\ Scan(t.data).enough /\ t.meta # <<>>
      BY <2>2, <2>5 DEF Validates
    <3>2. /\ Trimmed(t.data) \in Seq(Byte) /\ Scan(Trimmed(t.data)).enough
          /\ Trimmed(Trimmed(t.data)) = Trimmed(t.data)
          /\ t.meta \in Metas /\ Serialize(t.meta) \in Seq(Nat)
          /\ t.saving # NoSaving =>
               /\ Trimmed(t.data) = t.saving.header \o Compress(t.saving.character)
               /\ t.meta = t.saving.meta
      BY <1>1, <2>1, <2>3, <3>1, ValidIsCharacter
    <3>3. kept.data = Trimmed(t.data) /\ kept.meta = t.meta /\ kept.saving = t.saving
      BY <2>1 DEF Task
    <3>4. task' = NoTask
      BY <3>1 DEF Commit
    <3>5. TaskIsOfUpload'
      BY <3>4 DEF TaskIsOfUpload
    <3>6. \/ UNCHANGED row
          \/ row' = [data |-> Trimmed(t.data), slot |-> Serialize(t.meta),
                     saving |-> t.saving]
      <4> HIDE DEF kept
      <4> QED
        BY <3>1, <3>2, <3>3 DEF Commit
    <3>7. CASE UNCHANGED row
      <4>1. TypeOK'
        BY <1>1, <1>3, <3>4, <3>7 DEF IInv, TypeOK
      <4> QED
        BY <1>2, <1>3, <3>5, <3>7, <4>1 DEF IInv
    <3>8. CASE row' = [data |-> Trimmed(t.data), slot |-> Serialize(t.meta),
                       saving |-> t.saving]
      <4>1. t.saving \in Saving \cup {NoSaving}
        BY <2>1 DEF Task
      <4>2. row' \in Row
        BY <3>2, <3>8, <4>1 DEF Row
      <4>3. TypeOK'
        BY <1>1, <3>4, <4>2 DEF IInv, TypeOK
      <4>4. row'.data = Trimmed(t.data) /\ row'.slot = Serialize(t.meta)
            /\ row'.saving = t.saving
        BY <3>8
      <4>5. StoredIsSaved'
        BY <3>2, <4>4 DEF StoredIsSaved
      <4>6. RowHasMetadata'
        BY <2>3, <3>2, <4>4 DEF RowHasMetadata
      <4> QED
        BY <1>2, <3>5, <4>3, <4>5, <4>6 DEF IInv
    <3> QED
      BY <3>6, <3>7, <3>8
  <2> QED
    BY <2>4, <2>5
<1> QED
  BY <1>4, <1>5

LEMMA ListStep == IInv /\ GetCharacterList => IInv'
<1> SUFFICES ASSUME IInv, GetCharacterList
             PROVE  IInv'
  OBVIOUS
<1>1. /\ row # NoRow /\ task' = task /\ left' = left /\ row' = row /\ uploads' = uploads
      /\ reply' = [type |-> "list", meta |-> Deserialize(row.slot), saving |-> row.saving]
  BY DEF GetCharacterList
<1>2. TaskIsOfUpload' /\ RowHasMetadata' /\ StoredIsSaved'
  BY <1>1 DEF IInv, TaskIsOfUpload, RowHasMetadata, StoredIsSaved
<1>3. PICK meta \in Metas : /\ row.slot = Serialize(meta) /\ Len(meta) <= MaxKeys
                            /\ row.saving # NoSaving => meta = row.saving.meta
  BY <1>1 DEF IInv, RowHasMetadata
<1>4. Deserialize(row.slot) = meta
  BY <1>3, MetaIs
<1>5. row \in Row
  BY <1>1 DEF IInv, TypeOK
<1>6. reply' \in Reply
  BY <1>1, <1>4, <1>5 DEF Reply, Row
<1>7. TypeOK'
  BY <1>1, <1>6 DEF IInv, TypeOK
<1>8. DownloadIsSaved'
  BY <1>1 DEF DownloadIsSaved
<1>9. ListedIsSaved'
  BY <1>1, <1>3, <1>4 DEF ListedIsSaved
<1> QED
  BY <1>2, <1>7, <1>8, <1>9 DEF IInv, RepliesAreSaved

LEMMA DataStep == IInv /\ GetCharacterData => IInv'
<1> SUFFICES ASSUME IInv, GetCharacterData
             PROVE  IInv'
  OBVIOUS
<1>1. /\ row # NoRow /\ task' = task /\ left' = left /\ row' = row /\ uploads' = uploads
      /\ reply' = [type |-> "data", chunks |-> Chunks(row.data), saving |-> row.saving]
  BY DEF GetCharacterData
<1>2. TaskIsOfUpload' /\ RowHasMetadata' /\ StoredIsSaved'
  BY <1>1 DEF IInv, TaskIsOfUpload, RowHasMetadata, StoredIsSaved
<1>3. row \in Row
  BY <1>1 DEF IInv, TypeOK
<1>4. row.data \in Seq(Byte) /\ row.saving \in Saving \cup {NoSaving}
  BY <1>3 DEF Row
<1>5. Chunks(row.data) \in Seq(Chunk) /\ Len(Chunks(row.data)) = ChunkCount(row.data)
  BY <1>4, ChunksAre
<1>6. reply' \in Reply
  BY <1>1, <1>4, <1>5 DEF Reply
<1>7. TypeOK'
  BY <1>1, <1>6 DEF IInv, TypeOK
<1>8. ListedIsSaved'
  BY <1>1 DEF ListedIsSaved
<1>9. Chunks(row.data) # <<>>
  <2>1. Scan(row.data).enough /\ Trimmed(row.data) = row.data
    BY <1>1 DEF IInv, StoredIsSaved
  <2>2. Len(row.data) > HeaderSize
    BY <1>4, <2>1, TrimmedStays
  <2>3. /\ Len(row.data) > 0 /\ Len(row.data) <= ChunkCount(row.data) * ChunkSize
        /\ ChunkCount(row.data) \in Nat
    BY <1>4, <2>2, ChunkCountIs, SizesAssumption
  <2>4. ChunkCount(row.data) # 0
    BY <1>4, <2>3, SizesAssumption
  <2> QED
    BY <1>5, <2>4
<1>10. ASSUME NEW n \in DOMAIN Chunks(row.data)
       PROVE  /\ Len(Chunks(row.data)[n].data) = ChunkSize
              /\ Chunks(row.data)[n].end <=> n = Len(Chunks(row.data))
  <2>1. n \in 1..ChunkCount(row.data)
    BY <1>5
  <2> QED
    BY <1>4, <1>5, <2>1, ChunkIs
<1>11. ASSUME row.saving # NoSaving
       PROVE  SubSeq(Unpack(Gathered(Chunks(row.data))), 1, CharacterSize)
                  = row.saving.character
  <2> DEFINE header == row.saving.header
             character == row.saving.character
  <2>1. /\ header \in Seq(Byte) /\ Len(header) = HeaderSize /\ character \in Characters
        /\ row.data = header \o Compress(character)
    BY <1>1, <1>4, <1>11 DEF Saving, IInv, RowHasMetadata, StoredIsSaved
  <2> HIDE DEF header, character
  <2>2. character \in Seq(Byte) /\ Len(character) = CharacterSize
    BY <2>1, CompressIsBytes
  <2>3. SubSeq(Unpack(Gathered(Chunks(header \o Compress(character)))), 1, CharacterSize)
            = character
    BY <2>1, <2>2, DownloadUnpacks
  <2> QED
    BY <2>1, <2>3 DEF character
<1>12. /\ reply'.chunks = Chunks(row.data) /\ reply'.saving = row.saving
  BY <1>1
<1>13. DownloadIsSaved'
  BY <1>9, <1>10, <1>11, <1>12 DEF DownloadIsSaved
<1> QED
  BY <1>2, <1>7, <1>8, <1>13 DEF IInv, RepliesAreSaved

LEMMA IInvStep == IInv /\ [Next]_vars => IInv'
<1> SUFFICES ASSUME IInv, [Next]_vars
             PROVE  IInv'
  OBVIOUS
<1>1. CASE BeginCharacter
  BY <1>1, BeginCharacterStep
<1>2. CASE BeginJunk
  BY <1>2, BeginJunkStep
<1>3. ASSUME NEW n \in 1..Len(left), NEW endOfData \in BOOLEAN, AppendPiece(n, endOfData)
      PROVE  IInv'
  BY <1>3, AppendStep
<1>4. CASE GetCharacterList
  BY <1>4, ListStep
<1>5. CASE GetCharacterData
  BY <1>5, DataStep
<1>6. CASE UNCHANGED vars
  BY <1>6 DEF vars, IInv, TypeOK, TaskIsOfUpload, RowHasMetadata, StoredIsSaved,
              RepliesAreSaved, DownloadIsSaved, ListedIsSaved
<1> QED
  BY <1>1, <1>2, <1>3, <1>4, <1>5, <1>6 DEF Next

----------------------------------------------------------------------------
(* The inductive invariant: a task has a beginning of what its client      *)
(* sends, a row a whole character with its metadata.                       *)
THEOREM TransferIInv == Spec => []IInv
BY InitIInv, IInvStep, PTL DEF Spec

(* The bytes of a task, a row and a reply are bytes, their metadata what   *)
(* clients send.  (CharacterSaveTask, LoadCharacterData)                   *)
THEOREM TransferTypes == Spec => []TypeOK
<1>1. IInv => TypeOK
  BY DEF IInv
<1> QED
  BY <1>1, TransferIInv, PTL

(* Whatever pieces the bytes come in, Validate finds a character exactly   *)
(* when some beginning unpacks to one.  (CharacterSaveTask::Validate,      *)
(* RealmCharacter::Unpack)                                                 *)
THEOREM TransferValidates == Spec => []ValidateAgreesWithUnpack
<1>1. TypeOK => ValidateAgreesWithUnpack
  <2> SUFFICES ASSUME TypeOK, task # NoTask
               PROVE  ValidateAgreesWithUnpack
    BY DEF ValidateAgreesWithUnpack
  <2>1. task.data \in Seq(Byte)
    BY DEF TypeOK, Task
  <2> QED
    BY <2>1, ValidateIsExact DEF ValidateAgreesWithUnpack
<1> QED
  BY <1>1, TransferTypes, PTL

(* An upload is found to be a character as soon as the last byte of it has *)
(* come.  (AppendSaveData, CharacterSaveTask::Validate)                    *)
THEOREM TransferAccepts == Spec => []AcceptedWhenWhole
<1>1. IInv => AcceptedWhenWhole
  <2> SUFFICES ASSUME IInv, task # NoTask, task.saving # NoSaving
               PROVE  Scan(task.data).enough
                        <=> Len(task.data) >= HeaderSize + Len(Compress(task.saving.character))
    BY DEF AcceptedWhenWhole
  <2> DEFINE data == task.data
             header == task.saving.header
             character == task.saving.character
  <2>1. /\ task \in Task /\ left \in Seq(Byte) /\ Len(header) = HeaderSize
        /\ \E garbage \in Garbage : IsUpload(data, left, header, character, garbage)
    BY DEF IInv, TypeOK, TaskIsOfUpload, IsUpload
  <2>2. data \in Seq(Byte) /\ header \in Seq(Byte) /\ character \in Characters
    BY <2>1 DEF Task, Saving
  <2> HIDE DEF data, header, character
  <2>3. character \in Seq(Byte) /\ Len(character) = CharacterSize
    BY <2>2, CompressIsBytes
  <2>4. PICK garbage \in Seq(Byte) : IsUpload(data, left, header, character, garbage)
    BY <2>1, InputsAssumption
  <2> QED
    BY <2>1, <2>2, <2>3, <2>4, AcceptedIsWhole DEF data, character
<1> QED
  BY <1>1, TransferIInv, PTL

(* A row has the header and the compressed character that were sent and no *)
(* byte more.  (AppendSaveData, CommitSaveTask)                            *)
THEOREM TransferStores == Spec => []StoredIsSaved
<1>1. IInv => StoredIsSaved
  BY DEF IInv
<1> QED
  BY <1>1, TransferIInv, PTL

(* The chunks of a row unpack to the character that was saved, and the     *)
(* list shows its metadata.  (SendCharacterData, LoadCharacterSlots)       *)
THEOREM TransferReplies == Spec => []RepliesAreSaved
<1>1. IInv => RepliesAreSaved
  BY DEF IInv
<1> QED
  BY <1>1, TransferIInv, PTL
=============================================================================
