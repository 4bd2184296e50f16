-------------------------- MODULE RpcSessionProofs --------------------------
(***************************************************************************)
(* Proofs about the session of RpcSession, from the bytes up: what the     *)
(* conversions of protocol.hpp do to every value of the types they         *)
(* convert, that every struct comes back from its octets, what a string of *)
(* octets on its way can be, and with these the invariant of a session.    *)
(* From that it follows that no answer meets another call, what an exit    *)
(* code of 0 means, and that the session implements RpcCall.               *)
(***************************************************************************)
EXTENDS RpcSession, SequenceTheorems, WellFoundedInduction, TLAPS

\* The C++ types.
U8  == {v \in Int : 0 <= v /\ v < 256}
U16 == {v \in Int : 0 <= v /\ v < 65536}
I16 == {v \in Int : -32768 <= v /\ v < 32768}
U32 == {v \in Int : 0 <= v /\ v < 4294967296}
I32 == {v \in Int : -2147483648 <= v /\ v < 2147483648}

\* The values a field of each kind can hold.
Values == [u8 |-> U8, u16 |-> U16, i16 |-> I16, u32 |-> U32, i32 |-> I32, text |-> U8]

-----------------------------------------------------------------------------
\* What is left of a number, of either sign, when its lowest byte is taken off.
LEMMA ByteFacts ==
  ASSUME NEW v \in Int
  PROVE  /\ v % 256 \in Int /\ 0 <= v % 256 /\ v % 256 < 256
         /\ v \div 256 \in Int
         /\ v = 256 * (v \div 256) + (v % 256)
BY SMT

\* Shifting by eight twice, and three times, is shifting by sixteen, and by twenty-four.
LEMMA ShiftFacts ==
  ASSUME NEW v \in Int
  PROVE  /\ v \div 65536 = (v \div 256) \div 256
         /\ v \div 16777216 = (v \div 65536) \div 256
BY SMT

\* The top byte: the mask keeps it when the number is unsigned, and the cast back to the
\* signed type restores it when it is not.
LEMMA TopByte ==
  ASSUME NEW q \in Int
  PROVE  /\ 0 <= q /\ q < 256 => q % 256 = q
         /\ -128 <= q /\ q < 128 => AsSigned(q % 256) = q
<1>1. 0 <= q /\ q < 256 => q % 256 = q
  BY SMT
<1>2. 0 <= q /\ q < 128 => q % 256 = q
  BY SMT
<1>3. -128 <= q /\ q < 0 => q % 256 = q + 256
  BY SMT
<1>4. QED
  BY <1>1, <1>2, <1>3, SMT DEF AsSigned

\* Two bytes are the number: the top one with its sign when the type has one.
LEMMA RoundTrip16 ==
  ASSUME NEW v \in Int
  PROVE  /\ 0 <= v /\ v < 65536 => from_le16(to_le16(v)) = v
         /\ -32768 <= v /\ v < 32768 => from_le16_s(to_le16(v)) = v
<1> DEFINE r == v % 256
           q == v \div 256
<1>1. to_le16(v) = <<r, q % 256>>
  BY DEF to_le16
<1>2. /\ r \in Int /\ 0 <= r /\ r < 256 /\ q \in Int
      /\ v = 256 * q + r
  BY ByteFacts
<1> HIDE DEF r, q
<1>3. /\ 0 <= v /\ v < 65536 => 0 <= q /\ q < 256
      /\ -32768 <= v /\ v < 32768 => -128 <= q /\ q < 128
  BY <1>2, SMT
<1>4. /\ 0 <= q /\ q < 256 => q % 256 = q
      /\ -128 <= q /\ q < 128 => AsSigned(q % 256) = q
  BY <1>2, TopByte
<1>5. /\ from_le16(to_le16(v)) = r + 256 * (q % 256)
      /\ from_le16_s(to_le16(v)) = r + 256 * AsSigned(q % 256)
  BY <1>1 DEF from_le16, from_le16_s
<1>6. QED
  BY <1>2, <1>3, <1>4, <1>5, SMT

\* Four bytes are the number: again the top one carries the sign.
LEMMA RoundTrip32 ==
  ASSUME NEW v \in Int
  PROVE  /\ 0 <= v /\ v < 4294967296 => from_le32(to_le32(v)) = v
         /\ -2147483648 <= v /\ v < 2147483648 => from_le32_s(to_le32(v)) = v
<1> DEFINE r1 == v % 256
           q1 == v \div 256
           r2 == q1 % 256
           q2 == q1 \div 256
           r3 == q2 % 256
           q3 == q2 \div 256
<1>1. to_le32(v) = <<r1, r2, r3, q3 % 256>>
  <2>1. v \div 65536 = q2 /\ v \div 16777216 = (v \div 65536) \div 256
    BY ShiftFacts
  <2>2. v \div 16777216 = q3
    BY <2>1
  <2>3. QED
    BY <2>1, <2>2 DEF to_le32
<1>2. /\ r1 \in Int /\ 0 <= r1 /\ r1 < 256 /\ q1 \in Int
      /\ v = 256 * q1 + r1
  BY ByteFacts
<1>3. /\ r2 \in Int /\ 0 <= r2 /\ r2 < 256 /\ q2 \in Int
      /\ q1 = 256 * q2 + r2
  BY <1>2, ByteFacts
<1>4. /\ r3 \in Int /\ 0 <= r3 /\ r3 < 256 /\ q3 \in Int
      /\ q2 = 256 * q3 + r3
  BY <1>3, ByteFacts
<1> HIDE DEF r1, q1, r2, q2, r3, q3
<1>5. v = r1 + 256 * r2 + 65536 * r3 + 16777216 * q3
  BY <1>2, <1>3, <1>4, SMT
<1>6. /\ 0 <= v /\ v < 4294967296 => 0 <= q3 /\ q3 < 256
      /\ -2147483648 <= v /\ v < 2147483648 => -128 <= q3 /\ q3 < 128
  BY <1>2, <1>3, <1>4, <1>5, SMT
<1>7. /\ 0 <= q3 /\ q3 < 256 => q3 % 256 = q3
      /\ -128 <= q3 /\ q3 < 128 => AsSigned(q3 % 256) = q3
  BY <1>4, TopByte
<1>8. /\ from_le32(to_le32(v)) = r1 + 256 * r2 + 65536 * r3 + 16777216 * (q3 % 256)
      /\ from_le32_s(to_le32(v))
           = r1 + 256 * r2 + 65536 * r3 + 16777216 * AsSigned(q3 % 256)
  BY <1>1 DEF from_le32, from_le32_s
<1>9. QED
  BY <1>5, <1>6, <1>7, <1>8, SMT

-----------------------------------------------------------------------------
\* A field arrives as it was sent, whatever its value: the conversions of both ends and
\* the casts between signed and unsigned undo one another, for every kind of field.
THEOREM FieldsRoundTrip ==
  \A kind \in DOMAIN SizeOfKind : \A v \in Values[kind] :
    DecodeField(kind, EncodeField(kind, v)) = v
<1> SUFFICES ASSUME NEW kind \in DOMAIN SizeOfKind, NEW v \in Values[kind]
             PROVE  DecodeField(kind, EncodeField(kind, v)) = v
  OBVIOUS
<1>1. kind \in {"u8", "u16", "i16", "u32", "i32", "text"}
  BY DEF SizeOfKind
<1>2. CASE kind = "u8"
  <2>1. EncodeField(kind, v) = <<v>> BY <1>2 DEF EncodeField
  <2>2. QED BY <1>2, <2>1 DEF DecodeField
<1>3. CASE kind = "text"
  <2>1. EncodeField(kind, v)[1] = v BY <1>3 DEF EncodeField
  <2>2. QED BY <1>3, <2>1 DEF DecodeField
<1>4. CASE kind = "u16"
  <2>1. v \in U16 BY <1>4 DEF Values
  <2>2. v \in Int /\ 0 <= v /\ v < 65536 BY <2>1 DEF U16
  <2>3. EncodeField(kind, v) = to_le16(v) BY <1>4 DEF EncodeField
  <2>4. DecodeField(kind, to_le16(v)) = from_le16(to_le16(v)) BY <1>4 DEF DecodeField
  <2>5. QED BY <2>2, <2>3, <2>4, RoundTrip16
<1>5. CASE kind = "i16"
  <2>1. v \in I16 BY <1>5 DEF Values
  <2>2. v \in Int /\ -32768 <= v /\ v < 32768 BY <2>1 DEF I16
  <2>3. EncodeField(kind, v) = to_le16(v) BY <1>5 DEF EncodeField
  <2>4. DecodeField(kind, to_le16(v)) = from_le16_s(to_le16(v)) BY <1>5 DEF DecodeField
  <2>5. QED BY <2>2, <2>3, <2>4, RoundTrip16
<1>6. CASE kind = "u32"
  <2>1. v \in U32 BY <1>6 DEF Values
  <2>2. v \in Int /\ 0 <= v /\ v < 4294967296 BY <2>1 DEF U32
  <2>3. EncodeField(kind, v) = to_le32(v) BY <1>6 DEF EncodeField
  <2>4. DecodeField(kind, to_le32(v)) = from_le32(to_le32(v)) BY <1>6 DEF DecodeField
  <2>5. QED BY <2>2, <2>3, <2>4, RoundTrip32
<1>7. CASE kind = "i32"
  <2>1. v \in I32 BY <1>7 DEF Values
  <2>2. v \in Int /\ -2147483648 <= v /\ v < 2147483648 BY <2>1 DEF I32
  <2>3. EncodeField(kind, v) = to_le32(v) BY <1>7 DEF EncodeField
  <2>4. DecodeField(kind, to_le32(v)) = from_le32_s(to_le32(v)) BY <1>7 DEF DecodeField
  <2>5. QED BY <2>2, <2>3, <2>4, RoundTrip32
<1>8. QED
  BY <1>1, <1>2, <1>3, <1>4, <1>5, <1>6, <1>7

\* A field occupies as many octets as its packed type: what sizeof and the offsets of
\* Decode rely on, and what makes reading a frame of the announced length safe.
THEOREM FieldsFillTheirBytes ==
  \A kind \in DOMAIN SizeOfKind : \A v \in Values[kind] :
    EncodeField(kind, v) \in [1..SizeOfKind[kind] -> U8]
<1> SUFFICES ASSUME NEW kind \in DOMAIN SizeOfKind, NEW v \in Values[kind]
             PROVE  EncodeField(kind, v) \in [1..SizeOfKind[kind] -> U8]
  OBVIOUS
<1>1. kind \in {"u8", "u16", "i16", "u32", "i32", "text"}
  BY DEF SizeOfKind
<1>2. \A w \in Int : w % 256 \in U8 /\ w \div 256 \in Int
  BY ByteFacts DEF U8
<1>3. \A w \in Int : w \div 65536 \in Int /\ w \div 16777216 \in Int
  BY SMT
<1>4. CASE kind = "u8"
  <2>1. v \in U8 /\ EncodeField(kind, v) = <<v>> BY <1>4 DEF Values, EncodeField
  <2>2. SizeOfKind[kind] = 1 BY <1>4 DEF SizeOfKind
  <2>3. QED BY <2>1, <2>2
<1>5. CASE kind = "text"
  <2>1. v \in U8 /\ EncodeField(kind, v) = [i \in 1..16 |-> IF i = 1 THEN v ELSE 0]
    BY <1>5 DEF Values, EncodeField
  <2>2. SizeOfKind[kind] = 16 /\ 0 \in U8 BY <1>5 DEF SizeOfKind, U8
  <2>3. QED BY <2>1, <2>2
<1>6. CASE kind \in {"u16", "i16"}
  <2>1. v \in U16 \/ v \in I16 BY <1>6 DEF Values
  <2>2. v \in Int BY <2>1 DEF U16, I16
  <2>3. EncodeField(kind, v) = to_le16(v) BY <1>6 DEF EncodeField
  <2>4. SizeOfKind[kind] = 2 BY <1>6 DEF SizeOfKind
  <2>5. v % 256 \in U8 /\ (v \div 256) % 256 \in U8 BY <2>2, <1>2
  <2>6. to_le16(v) \in [1..2 -> U8] BY <2>5 DEF to_le16
  <2>7. QED BY <2>3, <2>4, <2>6
<1>7. CASE kind \in {"u32", "i32"}
  <2>1. v \in U32 \/ v \in I32 BY <1>7 DEF Values
  <2>2. v \in Int BY <2>1 DEF U32, I32
  <2>3. EncodeField(kind, v) = to_le32(v) BY <1>7 DEF EncodeField
  <2>4. SizeOfKind[kind] = 4 BY <1>7 DEF SizeOfKind
  <2>5. /\ v % 256 \in U8 /\ (v \div 256) % 256 \in U8
        /\ (v \div 65536) % 256 \in U8 /\ (v \div 16777216) % 256 \in U8
    BY <2>2, <1>2, <1>3
  <2>6. to_le32(v) \in [1..4 -> U8] BY <2>5 DEF to_le32
  <2>7. QED BY <2>3, <2>4, <2>6
<1>8. QED
  BY <1>1, <1>4, <1>5, <1>6, <1>7

-----------------------------------------------------------------------------
(***************************************************************************)
(* Structs.  The library's induction rules take an operator, which the     *)
(* provers cannot instantiate; this one takes the set of the numbers a     *)
(* claim holds for.                                                        *)
(***************************************************************************)
\* A set of naturals has a least member.
LEMMA LeastMember ==
  ASSUME NEW T \in SUBSET Nat, T # {}
  PROVE  \E x \in T : \A y \in T : x <= y
<1>1. \E x \in T : \A y \in T : ~(<<y, x>> \in OpToRel(<, Nat))
  BY NatLessThanWellFounded, WFMin, Zenon
<1>2. PICK x \in T : \A y \in T : ~(<<y, x>> \in OpToRel(<, Nat))
  BY <1>1
<1>3. \A y \in T : ~(y < x)
  BY <1>2, Zenon DEF OpToRel
<1>4. QED
  BY <1>3

\* Induction: a set with 0 and the successor of each of its members has every natural.
LEMMA Induction ==
  ASSUME NEW T, 0 \in T, \A n \in Nat : n \in T => n + 1 \in T
  PROVE  \A n \in Nat : n \in T
<1> SUFFICES ASSUME NEW m \in Nat, m \notin T PROVE FALSE
  OBVIOUS
<1> DEFINE U == {n \in Nat : n \notin T}
<1>1. PICK x \in U : \A y \in U : x <= y
  <2>1. U \in SUBSET Nat /\ U # {} OBVIOUS
  <2> HIDE DEF U
  <2>2. QED BY <2>1, LeastMember
<1>2. x # 0 /\ x \in Nat BY <1>1
<1>3. x - 1 \in Nat /\ ~(x <= x - 1) BY <1>2
<1>4. x - 1 \in T BY <1>1, <1>3
<1>5. (x - 1) + 1 \in T BY <1>3, <1>4
<1>6. QED BY <1>1, <1>2, <1>5

\* What \o makes of two strings of octets.
LEMMA JoinFacts ==
  ASSUME NEW a \in Seq(U8), NEW b \in Seq(U8)
  PROVE  /\ a \o b \in Seq(U8)
         /\ Len(a \o b) = Len(a) + Len(b)
         /\ \A i \in 1..Len(a) + Len(b) :
              (a \o b)[i] = IF i <= Len(a) THEN a[i] ELSE b[i - Len(a)]
BY ConcatProperties

\* What SubSeq cuts out of a string of octets.
LEMMA CutFacts ==
  ASSUME NEW e \in Seq(U8), NEW m \in Nat, NEW n \in Nat, m <= n, n <= Len(e)
  PROVE  /\ SubSeq(e, m + 1, n) \in Seq(U8)
         /\ Len(SubSeq(e, m + 1, n)) = n - m
         /\ \A b \in 1..n - m : SubSeq(e, m + 1, n)[b] = e[m + b]
<1>1. \A i \in m + 1..n : i \in 1..Len(e) /\ e[i] \in U8
  OBVIOUS
<1>2. /\ SubSeq(e, m + 1, n) \in Seq(U8)
      /\ Len(SubSeq(e, m + 1, n)) = IF m + 1 <= n THEN n - (m + 1) + 1 ELSE 0
      /\ \A i \in 1..n - (m + 1) + 1 : SubSeq(e, m + 1, n)[i] = e[(m + 1) + i - 1]
  BY <1>1, SubSeqProperties
<1>3. \A b \in 1..n - m : b \in 1..n - (m + 1) + 1 /\ (m + 1) + b - 1 = m + b
  OBVIOUS
<1>4. (IF m + 1 <= n THEN n - (m + 1) + 1 ELSE 0) = n - m
  OBVIOUS
<1>5. QED BY <1>2, <1>3, <1>4

\* The structs the wire can carry: any sequence of fields.
Structs == Seq(DOMAIN SizeOfKind)

\* A value of a struct has, in every field, a value of the field's type.
Fits(struct, value) ==
  /\ DOMAIN value = DOMAIN struct
  /\ value = [i \in DOMAIN struct |-> value[i]]
  /\ \A i \in DOMAIN struct : value[i] \in Values[struct[i]]

\* The fields of a struct are kinds, of one to sixteen octets each.
LEMMA FieldSizes ==
  ASSUME NEW s \in Structs
  PROVE  /\ Len(s) \in Nat /\ DOMAIN s = 1..Len(s)
         /\ \A i \in 1..Len(s) : /\ s[i] \in DOMAIN SizeOfKind
                                 /\ SizeOfKind[s[i]] \in Nat /\ SizeOfKind[s[i]] >= 1
                                 /\ SizeOfKind[s[i]] <= 16
<1>1. Len(s) \in Nat /\ DOMAIN s = 1..Len(s) /\ \A i \in 1..Len(s) : s[i] \in DOMAIN SizeOfKind
  BY DEF Structs
<1>2. \A k \in DOMAIN SizeOfKind : /\ SizeOfKind[k] \in Nat /\ SizeOfKind[k] >= 1
                                   /\ SizeOfKind[k] <= 16
  BY DEF SizeOfKind
<1>3. QED BY <1>1, <1>2

\* The offsets exist and are what their recursive definition says: the first field is at
\* 0 and each field begins where the one before it ends.
LEMMA OffsetFacts ==
  ASSUME NEW s \in Structs
  PROVE  /\ Offset(s)[1] = 0
         /\ \A i \in 1..Len(s) : Offset(s)[i + 1] = Offset(s)[i] + SizeOfKind[s[i]]
         /\ \A i \in 1..Len(s) + 1 : /\ Offset(s)[i] \in Nat
                                     /\ i - 1 <= Offset(s)[i] /\ Offset(s)[i] <= 16 * (i - 1)
<1> DEFINE Upto(n) == \E g : g = [i \in 1..n |-> IF i = 1 THEN 0
                                                 ELSE g[i - 1] + SizeOfKind[s[i - 1]]]
           T == {n \in Nat : Upto(n)}
<1>1. 0 \in T
  <2> DEFINE g == [i \in 1..0 |-> 0]
  <2>1. g = [i \in 1..0 |-> IF i = 1 THEN 0 ELSE g[i - 1] + SizeOfKind[s[i - 1]]]
    OBVIOUS
  <2>2. Upto(0) BY <2>1
  <2>3. QED BY <2>2
<1>2. \A n \in Nat : n \in T => n + 1 \in T
  <2> SUFFICES ASSUME NEW n \in Nat, Upto(n) PROVE Upto(n + 1)
    OBVIOUS
  <2>1. PICK g : g = [i \in 1..n |-> IF i = 1 THEN 0 ELSE g[i - 1] + SizeOfKind[s[i - 1]]]
    OBVIOUS
  <2> DEFINE h == [i \in 1..n + 1 |-> IF i = 1 THEN 0 ELSE g[i - 1] + SizeOfKind[s[i - 1]]]
  <2>2. \A i \in 1..n : h[i] = g[i]
    BY <2>1
  <2>3. h = [i \in 1..n + 1 |-> IF i = 1 THEN 0 ELSE h[i - 1] + SizeOfKind[s[i - 1]]]
    <3>1. \A i \in 1..n + 1 : i # 1 => h[i - 1] = g[i - 1]
      <4> HIDE DEF h
      <4>1. \A i \in 1..n + 1 : i # 1 => i - 1 \in 1..n OBVIOUS
      <4>2. QED BY <2>2, <4>1
    <3>2. \A i \in 1..n + 1 : (IF i = 1 THEN 0 ELSE g[i - 1] + SizeOfKind[s[i - 1]])
                            = (IF i = 1 THEN 0 ELSE h[i - 1] + SizeOfKind[s[i - 1]])
      <4> HIDE DEF h
      <4>1. QED BY <3>1
    <3>3. QED BY <3>2, Zenon
  <2> HIDE DEF h
  <2>4. QED BY <2>3
<1>3. Upto(Len(s) + 1)
  <2>1. Len(s) + 1 \in Nat BY FieldSizes
  <2> HIDE DEF T
  <2>2. Len(s) + 1 \in T BY <1>1, <1>2, <2>1, Induction
  <2>3. QED BY <2>2 DEF T
<1>4. Offset(s) = [i \in 1..Len(s) + 1 |-> IF i = 1 THEN 0
                                          ELSE Offset(s)[i - 1] + SizeOfKind[s[i - 1]]]
  BY <1>3 DEF Offset
<1> DEFINE o == Offset(s)
<1> HIDE DEF o
<1>5. /\ o[1] = 0
      /\ \A i \in 1..Len(s) : o[i + 1] = o[i] + SizeOfKind[s[i]]
  <2>1. Len(s) \in Nat BY FieldSizes
  <2>2. \A i \in 1..Len(s) : i + 1 \in 1..Len(s) + 1 /\ i + 1 # 1 /\ (i + 1) - 1 = i BY <2>1
  <2>3. 1 \in 1..Len(s) + 1 BY <2>1
  <2>4. \A j \in 1..Len(s) + 1 : o[j] = IF j = 1 THEN 0 ELSE o[j - 1] + SizeOfKind[s[j - 1]]
    BY <1>4, Zenon DEF o
  <2>5. QED BY <2>2, <2>3, <2>4
<1> DEFINE Bounded(n) == o[n + 1] \in Nat /\ n <= o[n + 1] /\ o[n + 1] <= 16 * n
           R == {n \in Nat : n <= Len(s) => Bounded(n)}
<1>6. 0 \in R BY <1>5
<1>7. \A n \in Nat : n \in R => n + 1 \in R
  <2> SUFFICES ASSUME NEW n \in Nat, n \in R, n + 1 <= Len(s)
               PROVE  Bounded(n + 1)
    OBVIOUS
  <2>1. n + 1 \in 1..Len(s) /\ n <= Len(s) BY FieldSizes
  <2>2. o[(n + 1) + 1] = o[n + 1] + SizeOfKind[s[n + 1]] BY <1>5, <2>1
  <2>3. Bounded(n) BY <2>1
  <2>4. /\ SizeOfKind[s[n + 1]] \in Nat /\ SizeOfKind[s[n + 1]] >= 1
        /\ SizeOfKind[s[n + 1]] <= 16
    BY <2>1, FieldSizes
  <2>5. QED BY <2>2, <2>3, <2>4
<1>8. \A n \in Nat : n \in R
  <2> HIDE DEF R
  <2>1. QED BY <1>6, <1>7, Induction
<1>9. \A i \in 1..Len(s) + 1 : o[i] \in Nat /\ i - 1 <= o[i] /\ o[i] <= 16 * (i - 1)
  <2> SUFFICES ASSUME NEW i \in 1..Len(s) + 1
               PROVE  o[i] \in Nat /\ i - 1 <= o[i] /\ o[i] <= 16 * (i - 1)
    OBVIOUS
  <2>1. i - 1 \in Nat /\ i - 1 <= Len(s) /\ (i - 1) + 1 = i BY FieldSizes
  <2>2. Bounded(i - 1) BY <1>8, <2>1
  <2>3. QED BY <2>1, <2>2
<1>10. QED BY <1>5, <1>9 DEF o

\* A field that comes later does not begin, or end, earlier.
LEMMA OffsetsGrow ==
  ASSUME NEW s \in Structs, NEW i \in 1..Len(s) + 1, NEW j \in 1..Len(s) + 1, i <= j
  PROVE  Offset(s)[i] <= Offset(s)[j]
<1> DEFINE o == Offset(s)
           T == {n \in Nat : i + n <= Len(s) + 1 => o[i] <= o[i + n]}
<1>1. /\ Len(s) \in Nat
      /\ \A k \in 1..Len(s) : SizeOfKind[s[k]] \in Nat
  BY FieldSizes
<1>2. /\ \A k \in 1..Len(s) : o[k + 1] = o[k] + SizeOfKind[s[k]]
      /\ \A k \in 1..Len(s) + 1 : o[k] \in Nat
  BY OffsetFacts
<1> HIDE DEF o
<1>3. 0 \in T
  <2>1. i + 0 = i /\ o[i] \in Nat BY <1>1, <1>2
  <2>2. QED BY <2>1
<1>4. \A n \in Nat : n \in T => n + 1 \in T
  <2> SUFFICES ASSUME NEW n \in Nat, n \in T, i + (n + 1) <= Len(s) + 1
               PROVE  o[i] <= o[i + (n + 1)]
    OBVIOUS
  <2>1. /\ i + n \in 1..Len(s) /\ i + n \in 1..Len(s) + 1 /\ (i + n) + 1 = i + (n + 1)
        /\ i + n <= Len(s) + 1
    BY <1>1
  <2>2. o[i + (n + 1)] = o[i + n] + SizeOfKind[s[i + n]] /\ SizeOfKind[s[i + n]] \in Nat
    BY <2>1, <1>1, <1>2
  <2>3. o[i] <= o[i + n] /\ o[i] \in Nat /\ o[i + n] \in Nat BY <2>1, <1>2
  <2>4. QED BY <2>2, <2>3
<1>5. j - i \in Nat /\ i + (j - i) = j /\ j <= Len(s) + 1 BY <1>1
<1>6. j - i \in T
  <2> HIDE DEF T
  <2>1. QED BY <1>3, <1>4, <1>5, Induction
<1>7. o[i] <= o[j] BY <1>5, <1>6
<1>8. QED BY <1>7 DEF o

\* FlattenSeq of a sequence of parts, which is not empty: each part follows the one before.
LEMMA FlattenFacts ==
  ASSUME NEW n \in Nat \ {0}, NEW parts, DOMAIN parts = 1..n, Len(parts) = n
  PROVE  \E f : /\ f[1] = parts[1]
                /\ \A i \in 2..n : f[i] = f[i - 1] \o parts[i]
                /\ FlattenSeq(parts) = f[n]
<1> DEFINE Upto(k) == \E g : g = [i \in 1..k |-> IF i = 1 THEN parts[i]
                                                 ELSE g[i - 1] \o parts[i]]
           T == {k \in Nat : Upto(k)}
<1>1. 0 \in T
  <2> DEFINE g == [i \in 1..0 |-> 0]
  <2>1. g = [i \in 1..0 |-> IF i = 1 THEN parts[i] ELSE g[i - 1] \o parts[i]]
    OBVIOUS
  <2>2. Upto(0) BY <2>1
  <2>3. QED BY <2>2
<1>2. \A k \in Nat : k \in T => k + 1 \in T
  <2> SUFFICES ASSUME NEW k \in Nat, k \in T PROVE k + 1 \in T
    OBVIOUS
  <2>1. PICK g : g = [i \in 1..k |-> IF i = 1 THEN parts[i] ELSE g[i - 1] \o parts[i]]
    BY Zenon
  <2> DEFINE h == [i \in 1..k + 1 |-> IF i = 1 THEN parts[i] ELSE g[i - 1] \o parts[i]]
  <2>2. \A i \in 1..k : h[i] = g[i]
    <3>1. \A i \in 1..k : i \in 1..k + 1 OBVIOUS
    <3>2. \A i \in 1..k : g[i] = IF i = 1 THEN parts[i] ELSE g[i - 1] \o parts[i]
      BY <2>1, Zenon
    <3>3. QED BY <3>1, <3>2, Zenon
  <2>3. h = [i \in 1..k + 1 |-> IF i = 1 THEN parts[i] ELSE h[i - 1] \o parts[i]]
    <3>1. \A i \in 1..k + 1 : i # 1 => h[i - 1] = g[i - 1]
      <4> HIDE DEF h
      <4>1. \A i \in 1..k + 1 : i # 1 => i - 1 \in 1..k OBVIOUS
      <4>2. QED BY <2>2, <4>1
    <3>2. \A i \in 1..k + 1 : (IF i = 1 THEN parts[i] ELSE g[i - 1] \o parts[i])
                            = (IF i = 1 THEN parts[i] ELSE h[i - 1] \o parts[i])
      <4> HIDE DEF h
      <4>1. QED BY <3>1, Zenon
    <3>3. QED BY <3>2, Zenon
  <2> HIDE DEF h
  <2>4. Upto(k + 1) BY <2>3, Zenon
  <2>5. k + 1 \in Nat OBVIOUS
  <2>6. QED BY <2>4, <2>5, Zenon
<1>3. Upto(n)
  <2> HIDE DEF T
  <2>1. n \in T BY <1>1, <1>2, Induction
  <2>2. QED BY <2>1 DEF T
<1> DEFINE f == CHOOSE g : g = [i \in 1..n |-> IF i = 1 THEN parts[i]
                                               ELSE g[i - 1] \o parts[i]]
<1>4. f = [i \in 1..n |-> IF i = 1 THEN parts[i] ELSE f[i - 1] \o parts[i]]
  BY <1>3
<1>5. FlattenSeq(parts) = f[n]
  BY DEF FlattenSeq
<1> HIDE DEF f
<1>6. f[1] = parts[1] /\ \A i \in 2..n : f[i] = f[i - 1] \o parts[i]
  <2>1. \A i \in 1..n : f[i] = IF i = 1 THEN parts[i] ELSE f[i - 1] \o parts[i]
    BY <1>4, Zenon
  <2>2. 1 \in 1..n /\ \A i \in 2..n : i \in 1..n /\ i # 1 OBVIOUS
  <2>3. QED BY <2>1, <2>2, Zenon
<1>7. QED BY <1>5, <1>6

\* What Encode makes of a value: as many octets as the struct has, each field's own at
\* the field's offset.
LEMMA EncodeFacts ==
  ASSUME NEW s \in Structs, NEW v, Fits(s, v)
  PROVE  /\ Encode(s, v) \in Seq(U8)
         /\ Len(Encode(s, v)) = sizeof(s)
         /\ \A j \in 1..Len(s) : \A b \in 1..SizeOfKind[s[j]] :
              Encode(s, v)[Offset(s)[j] + b] = EncodeField(s[j], v[j])[b]
<1> DEFINE parts == [i \in DOMAIN s |-> EncodeField(s[i], v[i])]
           o == Offset(s)
           z(i) == SizeOfKind[s[i]]
<1>1. /\ Len(s) \in Nat /\ DOMAIN s = 1..Len(s)
      /\ \A i \in 1..Len(s) : s[i] \in DOMAIN SizeOfKind /\ z(i) \in Nat /\ z(i) >= 1
  BY FieldSizes
<1>2. /\ o[1] = 0
      /\ \A i \in 1..Len(s) : o[i + 1] = o[i] + z(i)
      /\ \A i \in 1..Len(s) + 1 : o[i] \in Nat
  BY OffsetFacts
<1>3. DOMAIN parts = 1..Len(s)
  BY <1>1
<1>4. \A i \in 1..Len(s) : parts[i] = EncodeField(s[i], v[i])
  BY <1>1
<1>5. \A i \in 1..Len(s) : parts[i] \in Seq(U8) /\ Len(parts[i]) = z(i)
  <2> SUFFICES ASSUME NEW i \in 1..Len(s) PROVE parts[i] \in Seq(U8) /\ Len(parts[i]) = z(i)
    OBVIOUS
  <2>1. v[i] \in Values[s[i]] BY <1>1 DEF Fits
  <2>2. EncodeField(s[i], v[i]) \in [1..z(i) -> U8] BY <1>1, <2>1, FieldsFillTheirBytes, Zenon
  <2>3. parts[i] \in [1..z(i) -> U8] /\ z(i) \in Nat BY <1>1, <1>4, <2>2
  <2> HIDE DEF parts, z
  <2>4. QED BY <2>3
<1>6. Len(parts) = Len(s)
  BY <1>1
<1>7. sizeof(s) = o[Len(s) + 1]
  BY DEF sizeof
<1>8. Encode(s, v) = FlattenSeq(parts)
  BY DEF Encode
<1> HIDE DEF parts, o, z
<1>9. CASE Len(s) = 0
  <2>1. FlattenSeq(parts) = parts BY <1>6, <1>9 DEF FlattenSeq
  <2>2. parts \in Seq(U8) /\ Len(parts) = 0
    <3>1. parts = [i \in 1..0 |-> EncodeField(s[i], v[i])] BY <1>1, <1>9 DEF parts
    <3>2. [i \in 1..0 |-> EncodeField(s[i], v[i])] = << >> OBVIOUS
    <3>3. QED BY <3>1, <3>2
  <2>3. QED BY <1>1, <1>2, <1>7, <1>8, <1>9, <2>1, <2>2
<1>10. CASE Len(s) # 0
  <2>1. Len(s) \in Nat \ {0} BY <1>1, <1>10
  <2>2. PICK f : /\ f[1] = parts[1]
                 /\ \A i \in 2..Len(s) : f[i] = f[i - 1] \o parts[i]
                 /\ FlattenSeq(parts) = f[Len(s)]
    BY <1>3, <1>6, <2>1, FlattenFacts
  <2> DEFINE Good(n) == /\ f[n] \in Seq(U8)
                        /\ Len(f[n]) = o[n + 1]
                        /\ \A j \in 1..n : \A b \in 1..z(j) : f[n][o[j] + b] = parts[j][b]
             T == {n \in Nat : n + 1 <= Len(s) => Good(n + 1)}
  <2>3. 0 \in T
    <3>1. 1 \in 1..Len(s) BY <2>1
    <3>2. parts[1] \in Seq(U8) /\ Len(parts[1]) = z(1) /\ o[1 + 1] = o[1] + z(1) /\ z(1) \in Nat
      BY <3>1, <1>1, <1>2, <1>5
    <3>3. Good(1) BY <3>2, <2>2, <1>2
    <3> HIDE DEF Good
    <3>4. 0 + 1 = 1 OBVIOUS
    <3>5. QED BY <3>3, <3>4
  <2>4. \A n \in Nat : n \in T => n + 1 \in T
    <3> SUFFICES ASSUME NEW n \in Nat, Good(n + 1), (n + 1) + 1 <= Len(s)
                 PROVE  Good((n + 1) + 1)
      <4> HIDE DEF Good
      <4>1. \A n \in Nat : (n + 1) + 1 <= Len(s) => n + 1 <= Len(s) BY <1>1
      <4>2. \A n \in Nat : n + 1 \in Nat OBVIOUS
      <4>3. QED BY <4>1, <4>2
    <3> DEFINE m == n + 1
    <3>1. /\ m \in 1..Len(s) /\ m + 1 \in 1..Len(s) /\ m + 1 \in 2..Len(s)
          /\ (m + 1) + 1 \in 1..Len(s) + 1 /\ m + 1 \in 1..Len(s) + 1
      BY <1>1
    <3>2. m \in Nat /\ (m + 1) - 1 = m OBVIOUS
    <3>3. /\ f[m] \in Seq(U8) /\ Len(f[m]) = o[m + 1]
          /\ \A j \in 1..m : \A b \in 1..z(j) : f[m][o[j] + b] = parts[j][b]
      OBVIOUS
    <3> HIDE DEF m
    <3>4. f[m + 1] = f[m] \o parts[m + 1]
      BY <3>1, <3>2, <2>2
    <3>5. /\ parts[m + 1] \in Seq(U8) /\ Len(parts[m + 1]) = z(m + 1)
          /\ o[(m + 1) + 1] = o[m + 1] + z(m + 1)
          /\ z(m + 1) \in Nat /\ o[m + 1] \in Nat
      BY <3>1, <1>1, <1>2, <1>5
    <3>6. /\ f[m] \o parts[m + 1] \in Seq(U8)
          /\ Len(f[m] \o parts[m + 1]) = Len(f[m]) + Len(parts[m + 1])
          /\ \A i \in 1..Len(f[m]) + Len(parts[m + 1]) :
               (f[m] \o parts[m + 1])[i]
                 = IF i <= Len(f[m]) THEN f[m][i] ELSE parts[m + 1][i - Len(f[m])]
      BY <3>3, <3>5, JoinFacts, Zenon
    <3>7. f[m + 1] \in Seq(U8) /\ Len(f[m + 1]) = o[(m + 1) + 1]
      BY <3>6, <3>3, <3>4, <3>5, Zenon
    <3>8. \A i \in 1..o[m + 1] + z(m + 1) :
            f[m + 1][i] = IF i <= o[m + 1] THEN f[m][i] ELSE parts[m + 1][i - o[m + 1]]
      BY <3>6, <3>3, <3>4, <3>5, Zenon
    <3>9. \A j \in 1..m : \A b \in 1..z(j) : f[m + 1][o[j] + b] = parts[j][b]
      <4> SUFFICES ASSUME NEW j \in 1..m, NEW b \in 1..z(j)
                   PROVE  f[m + 1][o[j] + b] = parts[j][b]
        OBVIOUS
      <4>1. j \in 1..Len(s) /\ j + 1 \in 1..Len(s) + 1 /\ j \in 1..Len(s) + 1
        BY <3>1, <3>2, <1>1
      <4>2. /\ o[j] \in Nat /\ z(j) \in Nat /\ o[j + 1] = o[j] + z(j) /\ o[j + 1] \in Nat
        BY <4>1, <1>1, <1>2
      <4>3. o[j + 1] <= o[m + 1]
        <5>1. j + 1 <= m + 1 BY <3>2
        <5>2. QED BY <4>1, <3>1, <5>1, OffsetsGrow, Zenon DEF o
      <4>4. o[j] + b \in 1..o[m + 1]
        <5>1. \A x, y, w, k \in Nat : k \in 1..y /\ x + y <= w => x + k \in 1..w OBVIOUS
        <5>2. b \in Nat /\ o[j] + z(j) <= o[m + 1] BY <4>2, <4>3
        <5>3. QED BY <5>1, <5>2, <4>2, <3>5
      <4>5. o[j] + b \in 1..o[m + 1] + z(m + 1) /\ o[j] + b <= o[m + 1]
        BY <4>4, <3>5
      <4>6. f[m + 1][o[j] + b] = f[m][o[j] + b]
        BY <4>5, <3>8
      <4>7. QED BY <4>6, <3>3
    <3>10. \A b \in 1..z(m + 1) : f[m + 1][o[m + 1] + b] = parts[m + 1][b]
      <4> SUFFICES ASSUME NEW b \in 1..z(m + 1)
                   PROVE  f[m + 1][o[m + 1] + b] = parts[m + 1][b]
        OBVIOUS
      <4>1. /\ o[m + 1] + b \in 1..o[m + 1] + z(m + 1) /\ ~(o[m + 1] + b <= o[m + 1])
            /\ (o[m + 1] + b) - o[m + 1] = b
        BY <3>5
      <4>2. QED BY <4>1, <3>8
    <3>11. \A j \in 1..m + 1 : j \in 1..m \/ j = m + 1 BY <3>2
    <3>12. Good(m + 1) BY <3>7, <3>9, <3>10, <3>11
    <3>13. QED BY <3>12 DEF m
  <2>5. Good(Len(s))
    <3> HIDE DEF T, Good
    <3>1. Len(s) - 1 \in Nat /\ (Len(s) - 1) + 1 = Len(s) /\ Len(s) <= Len(s) BY <2>1
    <3>2. Len(s) - 1 \in T BY <3>1, <2>3, <2>4, Induction
    <3>3. QED BY <3>1, <3>2 DEF T
  <2>6. f[Len(s)] = Encode(s, v) BY <1>8, <2>2
  <2>7. QED BY <2>5, <2>6, <1>4, <1>7 DEF o, z
<1>11. QED BY <1>9, <1>10

\* A struct arrives as it was sent.
THEOREM StructsRoundTrip ==
  \A s \in Structs : \A v : Fits(s, v) =>
    /\ Encode(s, v) \in Seq(U8)
    /\ Len(Encode(s, v)) = sizeof(s)
    /\ Decode(s, Encode(s, v)) = v
<1> SUFFICES ASSUME NEW s \in Structs, NEW v, Fits(s, v)
             PROVE  Decode(s, Encode(s, v)) = v
  BY EncodeFacts
<1> DEFINE e == Encode(s, v)
           o == Offset(s)
           z(i) == SizeOfKind[s[i]]
<1>1. /\ Len(s) \in Nat /\ DOMAIN s = 1..Len(s)
      /\ \A i \in 1..Len(s) : s[i] \in DOMAIN SizeOfKind /\ z(i) \in Nat /\ z(i) >= 1
  BY FieldSizes
<1>2. /\ \A i \in 1..Len(s) : o[i + 1] = o[i] + z(i)
      /\ \A i \in 1..Len(s) + 1 : o[i] \in Nat
  BY OffsetFacts
<1>3. /\ e \in Seq(U8) /\ Len(e) = o[Len(s) + 1]
      /\ \A j \in 1..Len(s) : \A b \in 1..z(j) : e[o[j] + b] = EncodeField(s[j], v[j])[b]
  BY EncodeFacts DEF sizeof
<1>4. Decode(s, e) = [i \in DOMAIN s |-> DecodeField(s[i], SubSeq(e, o[i] + 1, o[i + 1]))]
  BY DEF Decode
<1>5. v = [i \in DOMAIN s |-> v[i]] /\ \A i \in DOMAIN s : v[i] \in Values[s[i]]
  BY DEF Fits
<1> HIDE DEF e, o
<1>6. \A i \in DOMAIN s : DecodeField(s[i], SubSeq(e, o[i] + 1, o[i + 1])) = v[i]
  <2> SUFFICES ASSUME NEW i \in 1..Len(s)
               PROVE  DecodeField(s[i], SubSeq(e, o[i] + 1, o[i + 1])) = v[i]
    BY <1>1
  <2> DEFINE p == EncodeField(s[i], v[i])
             q == SubSeq(e, o[i] + 1, o[i + 1])
  <2>1. s[i] \in DOMAIN SizeOfKind /\ v[i] \in Values[s[i]] /\ z(i) \in Nat BY <1>1, <1>5
  <2>2. p \in [1..z(i) -> U8] BY <2>1, FieldsFillTheirBytes, Zenon
  <2>3. DecodeField(s[i], p) = v[i] BY <2>1, FieldsRoundTrip, Zenon
  <2>4. /\ i \in 1..Len(s) + 1 /\ i + 1 \in 1..Len(s) + 1 /\ Len(s) + 1 \in 1..Len(s) + 1
        /\ i + 1 <= Len(s) + 1
    BY <1>1
  <2>5. o[i] \in Nat /\ o[i + 1] = o[i] + z(i) /\ o[i + 1] \in Nat /\ Len(e) \in Nat
    BY <1>2, <1>3, <2>4
  <2>6. o[i + 1] <= Len(e) BY <2>4, <1>3, OffsetsGrow DEF o
  <2>7. \A b \in 1..z(i) : e[o[i] + b] = p[b] BY <1>3
  <2> HIDE DEF p, z
  <2>8. q = p
    <3>1. o[i] <= o[i + 1] /\ o[i + 1] - o[i] = z(i) BY <2>5, <2>1
    <3>2. /\ q \in Seq(U8) /\ Len(q) = o[i + 1] - o[i]
          /\ \A b \in 1..o[i + 1] - o[i] : q[b] = e[o[i] + b]
      BY <3>1, <2>5, <2>6, <1>3, CutFacts, ZenonT(30)
    <3> HIDE DEF q
    <3>3. q \in [1..z(i) -> U8] /\ \A b \in 1..z(i) : q[b] = e[o[i] + b]
      BY <3>1, <3>2
    <3>4. \A b \in 1..z(i) : q[b] = p[b] BY <3>3, <2>7
    <3>5. q = [b \in 1..z(i) |-> q[b]] /\ p = [b \in 1..z(i) |-> p[b]] BY <3>3, <2>2
    <3>6. [b \in 1..z(i) |-> q[b]] = [b \in 1..z(i) |-> p[b]] BY <3>4
    <3>7. QED BY <3>5, <3>6, Zenon
  <2> HIDE DEF q
  <2>9. QED BY <2>3, <2>8 DEF q
<1>7. QED BY <1>4, <1>5, <1>6 DEF e

-----------------------------------------------------------------------------
(***************************************************************************)
(* Strings of octets on their way: what has been read, what is on its way  *)
(* and what has still to be written, one after the other.                  *)
(***************************************************************************)
\* Any string of octets.
Octets == Seq(U8)

\* Two strings of octets with the same octets are the same string.
LEMMA SameOctets ==
  ASSUME NEW a \in Octets, NEW b \in Octets, Len(a) = Len(b), \A i \in 1..Len(a) : a[i] = b[i]
  PROVE  a = b
BY SeqEqual DEF Octets

\* What \o makes of two strings of octets.
LEMMA Joined ==
  ASSUME NEW a \in Octets, NEW b \in Octets
  PROVE  /\ a \o b \in Octets
         /\ Len(a) \in Nat /\ Len(b) \in Nat
         /\ Len(a \o b) = Len(a) + Len(b)
         /\ \A i \in 1..Len(a) : (a \o b)[i] = a[i]
         /\ \A i \in 1..Len(b) : (a \o b)[Len(a) + i] = b[i]
<1>1. /\ a \o b \in Octets /\ Len(a \o b) = Len(a) + Len(b)
      /\ \A i \in 1..Len(a) + Len(b) :
           (a \o b)[i] = IF i <= Len(a) THEN a[i] ELSE b[i - Len(a)]
  BY JoinFacts DEF Octets
<1>2. Len(a) \in Nat /\ Len(b) \in Nat
  BY DEF Octets
<1>3. \A i \in 1..Len(a) : i \in 1..Len(a) + Len(b) /\ i <= Len(a)
  BY <1>2
<1>4. \A i \in 1..Len(b) : /\ Len(a) + i \in 1..Len(a) + Len(b)
                           /\ ~(Len(a) + i <= Len(a)) /\ (Len(a) + i) - Len(a) = i
  BY <1>2
<1>5. QED BY <1>1, <1>2, <1>3, <1>4

\* The empty string.
LEMMA Empty ==
  /\ << >> \in Octets /\ Len(<< >>) = 0
  /\ \A a \in Octets : /\ a \o << >> = a /\ << >> \o a = a
                       /\ Len(a) \in Nat /\ (Len(a) = 0 <=> a = << >>)
<1>1. << >> \in Octets /\ Len(<< >>) = 0 BY DEF Octets
<1>2. \A a \in Octets : a \o << >> = a /\ << >> \o a = a BY ConcatEmptySeq DEF Octets
<1>3. \A a \in Octets : Len(a) \in Nat /\ (Len(a) = 0 <=> a = << >>) BY EmptySeq DEF Octets
<1>4. QED BY <1>1, <1>2, <1>3

\* Which two of three are joined first does not matter.
LEMMA Assoc ==
  \A a, b, d \in Octets : (a \o b) \o d = a \o (b \o d)
BY ConcatAssociative DEF Octets

\* A string cut in two.
LEMMA Cut ==
  ASSUME NEW a \in Octets, NEW n \in 1..Len(a)
  PROVE  /\ SubSeq(a, 1, n) \in Octets /\ SubSeq(a, n + 1, Len(a)) \in Octets
         /\ Len(SubSeq(a, 1, n)) = n
         /\ SubSeq(a, 1, n) \o SubSeq(a, n + 1, Len(a)) = a
<1> DEFINE l == SubSeq(a, 1, n)
           r == SubSeq(a, n + 1, Len(a))
<1>1. a \in Seq(U8) /\ Len(a) \in Nat /\ n \in Nat /\ n <= Len(a) /\ 0 <= n /\ 0 + 1 = 1
  BY DEF Octets
<1>2. /\ l \in Octets /\ Len(l) = n
      /\ \A i \in 1..n : l[i] = a[i]
  <2>1. /\ SubSeq(a, 0 + 1, n) \in Seq(U8) /\ Len(SubSeq(a, 0 + 1, n)) = n - 0
        /\ \A b \in 1..n - 0 : SubSeq(a, 0 + 1, n)[b] = a[0 + b]
    BY <1>1, CutFacts
  <2>2. n - 0 = n /\ \A i \in 1..n : 0 + i = i BY <1>1
  <2>3. QED BY <1>1, <2>1, <2>2 DEF Octets
<1>3. /\ r \in Octets /\ Len(r) = Len(a) - n
      /\ \A i \in 1..Len(a) - n : r[i] = a[n + i]
  <2>1. Len(a) <= Len(a) BY <1>1
  <2>2. QED BY <1>1, <2>1, CutFacts DEF Octets
<1> HIDE DEF l, r
<1>4. l \o r = a
  <2>1. /\ l \o r \in Octets /\ Len(l \o r) = Len(l) + Len(r)
        /\ \A i \in 1..Len(l) : (l \o r)[i] = l[i]
        /\ \A i \in 1..Len(r) : (l \o r)[Len(l) + i] = r[i]
    BY <1>2, <1>3, Joined, Zenon
  <2>2. /\ l \o r \in Octets /\ Len(l \o r) = n + (Len(a) - n)
        /\ \A i \in 1..n : (l \o r)[i] = l[i]
        /\ \A i \in 1..Len(a) - n : (l \o r)[n + i] = r[i]
    BY <1>2, <1>3, <2>1, Zenon
  <2>3. Len(l \o r) = Len(a) BY <2>2, <1>1
  <2>4. \A i \in 1..Len(l \o r) : (l \o r)[i] = a[i]
    <3> SUFFICES ASSUME NEW i \in 1..Len(a) PROVE (l \o r)[i] = a[i]
      BY <2>3
    <3>1. CASE i <= n BY <3>1, <2>2, <1>2
    <3>2. CASE ~(i <= n)
      <4>1. i - n \in 1..Len(a) - n /\ n + (i - n) = i BY <3>2, <1>1
      <4>2. QED BY <4>1, <2>2, <1>3
    <3>3. QED BY <3>1, <3>2
  <2>5. QED BY <2>2, <2>3, <2>4, SameOctets
<1>5. QED BY <1>2, <1>3, <1>4 DEF l, r

\* A prefix, octet by octet.
LEMMA PrefixFacts ==
  ASSUME NEW a \in Octets, NEW x \in Octets
  PROVE  IsPrefix(a, x) <=> Len(a) <= Len(x) /\ \A i \in 1..Len(a) : a[i] = x[i]
<1>1. Len(a) \in Nat /\ Len(x) \in Nat BY DEF Octets
<1>2. SubSeq(a, 1, Len(a)) = [i \in 1..Len(a) |-> a[i]]
  BY <1>1, SubSeqFull DEF Octets
<1>3. ASSUME Len(a) <= Len(x) PROVE SubSeq(x, 1, Len(a)) = [i \in 1..Len(a) |-> x[i]]
  <2>1. CASE Len(a) = 0
    <3>1. SubSeq(x, 1, 0) = << >> BY SubSeqEmpty
    <3>2. [i \in 1..0 |-> x[i]] = << >> OBVIOUS
    <3>3. QED BY <2>1, <3>1, <3>2
  <2>2. CASE Len(a) # 0
    <3>1. /\ SubSeq(x, 0 + 1, Len(a)) \in Seq(U8) /\ Len(SubSeq(x, 0 + 1, Len(a))) = Len(a) - 0
          /\ \A b \in 1..Len(a) - 0 : SubSeq(x, 0 + 1, Len(a))[b] = x[0 + b]
      BY <1>1, <1>3, CutFacts DEF Octets
    <3>2. 0 + 1 = 1 /\ Len(a) - 0 = Len(a) /\ \A b \in 1..Len(a) : 0 + b = b BY <1>1
    <3> DEFINE y == SubSeq(x, 1, Len(a))
    <3>3. y \in Seq(U8) /\ Len(y) = Len(a) /\ \A b \in 1..Len(a) : y[b] = x[b]
      BY <3>1, <3>2
    <3> HIDE DEF y
    <3>4. y = [i \in 1..Len(a) |-> y[i]] BY <3>3
    <3>5. QED BY <3>3, <3>4 DEF y
  <2>3. QED BY <2>1, <2>2
<1>4. [i \in 1..Len(a) |-> a[i]] = [i \in 1..Len(a) |-> x[i]]
        <=> \A i \in 1..Len(a) : a[i] = x[i]
  OBVIOUS
<1>5. QED BY <1>2, <1>3, <1>4 DEF IsPrefix

\* write_all and read_all move octets from one place to the next, and no octet changes.
LEMMA Written ==
  \A r, c, t \in Octets : \A n \in 1..Len(t) :
    (r \o (c \o SubSeq(t, 1, n))) \o SubSeq(t, n + 1, Len(t)) = (r \o c) \o t
<1> SUFFICES ASSUME NEW r \in Octets, NEW c \in Octets, NEW t \in Octets,
                    NEW n \in 1..Len(t)
             PROVE  (r \o (c \o SubSeq(t, 1, n))) \o SubSeq(t, n + 1, Len(t)) = (r \o c) \o t
  OBVIOUS
<1> DEFINE p == SubSeq(t, 1, n)
           q == SubSeq(t, n + 1, Len(t))
<1>1. p \in Octets /\ q \in Octets BY Cut
<1>2. p \o q = t BY Cut
<1> HIDE DEF p, q
<1>3. c \o p \in Octets /\ r \o c \in Octets BY <1>1, Joined
<1>4. (r \o c) \o p = r \o (c \o p)
  <2>1. \A d \in Octets : (r \o c) \o d = r \o (c \o d) BY Assoc, Zenon
  <2>2. QED BY <1>1, <2>1, Zenon
<1>5. ((r \o c) \o p) \o q = (r \o c) \o (p \o q)
  <2> DEFINE d == r \o c
  <2>1. d \in Octets BY <1>3
  <2> HIDE DEF d
  <2>2. \A x \in Octets : (d \o p) \o x = d \o (p \o x) BY <1>1, <2>1, Assoc, Zenon
  <2>3. QED BY <1>1, <2>2, Zenon DEF d
<1>6. QED BY <1>2, <1>4, <1>5 DEF p, q

\* The same for what is read.
LEMMA ReadOn ==
  \A r, c, t \in Octets : \A n \in 1..Len(c) :
    ((r \o SubSeq(c, 1, n)) \o SubSeq(c, n + 1, Len(c))) \o t = (r \o c) \o t
<1> SUFFICES ASSUME NEW r \in Octets, NEW c \in Octets, NEW t \in Octets,
                    NEW n \in 1..Len(c)
             PROVE  ((r \o SubSeq(c, 1, n)) \o SubSeq(c, n + 1, Len(c))) \o t = (r \o c) \o t
  OBVIOUS
<1> DEFINE p == SubSeq(c, 1, n)
           q == SubSeq(c, n + 1, Len(c))
<1>1. p \in Octets /\ q \in Octets BY Cut
<1>2. p \o q = c BY Cut
<1> HIDE DEF p, q
<1>3. (r \o p) \o q = r \o (p \o q)
  <2>1. \A d \in Octets : (r \o p) \o d = r \o (p \o d) BY <1>1, Assoc, Zenon
  <2>2. QED BY <1>1, <2>1, Zenon
<1>4. QED BY <1>3, <1>2 DEF p, q

\* What has been read is a prefix too, and what is lost behind it leaves it one.
LEMMA LostBehind ==
  ASSUME NEW r \in Octets, NEW c \in Octets, NEW t \in Octets, NEW x \in Octets,
         IsPrefix((r \o c) \o t, x)
  PROVE  /\ IsPrefix((r \o << >>) \o << >>, x) /\ Len(r) <= Len(x)
         /\ IsPrefix((r \o c) \o << >>, x)
<1>1. /\ r \o c \in Octets /\ (r \o c) \o t \in Octets BY Joined
<1>2. /\ Len(r) \in Nat /\ Len(c) \in Nat /\ Len(t) \in Nat /\ Len(x) \in Nat
      /\ Len(r \o c) = Len(r) + Len(c) /\ Len((r \o c) \o t) = Len(r \o c) + Len(t)
  BY <1>1, Joined, Empty
<1>3. /\ Len((r \o c) \o t) <= Len(x)
      /\ \A i \in 1..Len((r \o c) \o t) : ((r \o c) \o t)[i] = x[i]
  BY <1>1, PrefixFacts
<1>4. \A i \in 1..Len(r) : i \in 1..Len(r \o c) /\ i \in 1..Len((r \o c) \o t) BY <1>2
<1>5. \A i \in 1..Len(r \o c) : i \in 1..Len((r \o c) \o t) BY <1>2
<1>6. \A i \in 1..Len(r \o c) : ((r \o c) \o t)[i] = (r \o c)[i] BY <1>1, Joined
<1>7. \A i \in 1..Len(r) : (r \o c)[i] = r[i] BY Joined
<1>8. Len(r) <= Len(x) /\ Len(r \o c) <= Len(x) BY <1>2, <1>3
<1>9. IsPrefix(r, x)
  <2>1. \A i \in 1..Len(r) : r[i] = x[i] BY <1>3, <1>4, <1>6, <1>7
  <2>2. QED BY <2>1, <1>8, PrefixFacts
<1>10. IsPrefix(r \o c, x)
  <2>1. \A i \in 1..Len(r \o c) : (r \o c)[i] = x[i] BY <1>3, <1>5, <1>6
  <2>2. QED BY <2>1, <1>1, <1>8, PrefixFacts
<1>11. (r \o << >>) \o << >> = r /\ (r \o c) \o << >> = r \o c BY <1>1, Empty
<1>12. QED BY <1>8, <1>9, <1>10, <1>11

\* When as many octets have been read as the first part has, they are the first part, and
\* what follows belongs to the second.
LEMMA FirstPart ==
  ASSUME NEW r \in Octets, NEW c \in Octets, NEW t \in Octets,
         NEW h \in Octets, NEW p \in Octets,
         Len(r) = Len(h), IsPrefix((r \o c) \o t, h \o p)
  PROVE  r = h /\ IsPrefix((<< >> \o c) \o t, p)
<1>1. /\ r \o c \in Octets /\ (r \o c) \o t \in Octets /\ h \o p \in Octets /\ c \o t \in Octets
  BY Joined
<1>2. (r \o c) \o t = r \o (c \o t) /\ (<< >> \o c) \o t = c \o t
  <2>1. (r \o c) \o t = r \o (c \o t) BY Assoc, SMTT(20)
  <2>2. << >> \o c = c BY Empty
  <2>3. QED BY <2>1, <2>2
<1>3. /\ Len(r) \in Nat /\ Len(c \o t) \in Nat /\ Len(p) \in Nat /\ Len(h) \in Nat
      /\ Len(h \o p) = Len(h) + Len(p) /\ Len(r \o (c \o t)) = Len(r) + Len(c \o t)
  BY <1>1, Joined, Empty
<1>4. /\ Len(r \o (c \o t)) <= Len(h \o p)
      /\ \A i \in 1..Len(r \o (c \o t)) : (r \o (c \o t))[i] = (h \o p)[i]
  BY <1>1, <1>2, PrefixFacts
<1> DEFINE d == c \o t
<1>5. d \in Octets /\ Len(d) \in Nat BY <1>1, <1>3
<1> HIDE DEF d
<1>6. /\ \A i \in 1..Len(r) : (r \o d)[i] = r[i] /\ (h \o p)[i] = h[i]
      /\ \A i \in 1..Len(d) : (r \o d)[Len(r) + i] = d[i]
      /\ \A i \in 1..Len(p) : (h \o p)[Len(h) + i] = p[i]
  <2>1. /\ \A i \in 1..Len(r) : (r \o d)[i] = r[i]
        /\ \A i \in 1..Len(d) : (r \o d)[Len(r) + i] = d[i]
    BY <1>5, Joined, Zenon
  <2>2. /\ \A i \in 1..Len(h) : (h \o p)[i] = h[i]
        /\ \A i \in 1..Len(p) : (h \o p)[Len(h) + i] = p[i]
    BY Joined, Zenon
  <2>3. QED BY <2>1, <2>2, Zenon
<1>7. r = h
  <2>1. \A i \in 1..Len(r) : i \in 1..Len(r \o d) BY <1>3 DEF d
  <2>2. \A i \in 1..Len(r) : r[i] = h[i] BY <2>1, <1>4, <1>6 DEF d
  <2>3. QED BY <2>2, SameOctets
<1>8. IsPrefix(d, p)
  <2>1. Len(d) <= Len(p) BY <1>3, <1>4 DEF d
  <2>2. \A i \in 1..Len(d) : Len(r) + i \in 1..Len(r \o d) /\ i \in 1..Len(p)
    BY <1>3, <2>1, <1>5 DEF d
  <2>3. \A i \in 1..Len(d) : (r \o d)[Len(r) + i] = (h \o p)[Len(h) + i]
    BY <2>2, <1>4 DEF d
  <2>4. \A i \in 1..Len(d) : d[i] = p[i] BY <2>2, <2>3, <1>6
  <2>5. QED BY <2>1, <2>4, <1>5, PrefixFacts
<1>9. QED BY <1>2, <1>7, <1>8 DEF d

\* When all of it has been read, nothing follows.
LEMMA AllOfIt ==
  ASSUME NEW r \in Octets, NEW c \in Octets, NEW t \in Octets, NEW x \in Octets,
         Len(r) = Len(x), IsPrefix((r \o c) \o t, x)
  PROVE  r = x /\ c = << >> /\ t = << >>
<1>1. x \o << >> = x /\ << >> \in Octets /\ Len(<< >>) = 0 BY Empty
<1>2. r = x /\ IsPrefix((<< >> \o c) \o t, << >>)
  <2>1. IsPrefix((r \o c) \o t, x \o << >>) BY <1>1, Zenon
  <2>2. QED BY <1>1, <2>1, FirstPart, Zenon
<1>3. << >> \o c = c /\ c \o t \in Octets /\ Len(c \o t) = Len(c) + Len(t)
  BY Empty, Joined
<1>4. Len(c \o t) <= 0 BY <1>1, <1>2, <1>3, PrefixFacts
<1>5. Len(c) \in Nat /\ Len(t) \in Nat BY Empty
<1>6. Len(c) = 0 /\ Len(t) = 0 BY <1>3, <1>4, <1>5
<1>7. QED BY <1>2, <1>6, Empty

\* A string that is a prefix of the empty one is empty, in all its parts.
LEMMA NothingThere ==
  ASSUME NEW r \in Octets, NEW c \in Octets, NEW t \in Octets, IsPrefix((r \o c) \o t, << >>)
  PROVE  r = << >> /\ c = << >> /\ t = << >>
<1>1. Len(r) <= Len(<< >>) BY LostBehind, Empty
<1>2. Len(r) = Len(<< >>) BY <1>1, Empty
<1>3. QED BY <1>2, AllOfIt, Empty

\* A string with nothing before it.
LEMMA NothingBefore ==
  ASSUME NEW x \in Octets
  PROVE  /\ (<< >> \o << >>) \o x = x /\ IsPrefix(x, x)
         /\ (<< >> \o x) \o << >> = x /\ (x \o << >>) \o << >> = x
         /\ IsPrefix((<< >> \o << >>) \o << >>, x)
<1>1. (<< >> \o << >>) \o x = x /\ (<< >> \o x) \o << >> = x /\ (x \o << >>) \o << >> = x
  BY Empty
<1>2. Len(x) <= Len(x) /\ 0 <= Len(x) /\ Len(<< >>) = 0 BY Empty
<1>3. IsPrefix(x, x) BY <1>2, PrefixFacts
<1>4. IsPrefix(<< >>, x)
  <2>1. \A i \in 1..Len(<< >>) : << >>[i] = x[i] BY <1>2
  <2>2. QED BY <1>2, <2>1, Empty, PrefixFacts
<1>5. (<< >> \o << >>) \o << >> = << >> BY Empty
<1>6. QED BY <1>1, <1>3, <1>4, <1>5

-----------------------------------------------------------------------------
(***************************************************************************)
(* The catalogue, the frames and the callers.                              *)
(***************************************************************************)
\* The catalogue: structs the wire can carry, none larger than a payload may be.
LEMMA CatalogFacts ==
  ASSUME NEW api \in DOMAIN desc
  PROVE  /\ desc[api].req \in Structs /\ desc[api].resp \in Structs
         /\ sizeof(desc[api].req) <= 64 /\ sizeof(desc[api].resp) <= 64
         /\ Len(desc[api].resp) > 0
<1>1. api \in {"get_short_addr", "get_panid", "get_channel", "open_network", "wait_annce",
               "find_sensor", "read_basic", "bind_sensor", "subscribe_sensor",
               "config_report", "read_temp", "get_last_temp", "get_sensor_addr"}
  BY DEF desc
<1>2. /\ EmptyReq \in Structs /\ U8Resp \in Structs /\ U16Resp \in Structs
      /\ I16Resp \in Structs /\ I32Resp \in Structs /\ OpenNetworkReq \in Structs
      /\ FindSensorReq \in Structs /\ zb_addr_t \in Structs /\ zb_basic_t \in Structs
      /\ zb_temp_t \in Structs
  BY DEF Structs, SizeOfKind, EmptyReq, U8Resp, U16Resp, I16Resp, I32Resp, OpenNetworkReq,
         FindSensorReq, zb_addr_t, zb_basic_t, zb_temp_t
<1>3. /\ Len(U8Resp) > 0 /\ Len(U16Resp) > 0 /\ Len(I16Resp) > 0 /\ Len(I32Resp) > 0
      /\ Len(zb_addr_t) > 0 /\ Len(zb_basic_t) > 0 /\ Len(zb_temp_t) > 0
  BY DEF U8Resp, U16Resp, I16Resp, I32Resp, zb_addr_t, zb_basic_t, zb_temp_t
<1>4. /\ desc[api].req \in {EmptyReq, OpenNetworkReq, FindSensorReq, zb_addr_t}
      /\ desc[api].resp \in {U8Resp, U16Resp, I16Resp, I32Resp, zb_addr_t, zb_basic_t,
                             zb_temp_t}
  BY <1>1 DEF desc
<1>5. sizeof(desc[api].req) <= 64 /\ sizeof(desc[api].resp) <= 64
  BY CatalogAssumption DEF k_max_payload
<1>6. QED BY <1>2, <1>3, <1>4, <1>5

\* The identifiers: every API has one of its own, and none is that of an error.
LEMMA IdFacts ==
  /\ \A api \in DOMAIN desc : api_id[api] \in 1..13
  /\ \A a, b \in DOMAIN desc : api_id[a] = api_id[b] => a = b
  /\ Handlers \subseteq DOMAIN desc
BY DEF desc, api_id, Handlers

\* Which handler an identifier of the catalogue finds.
LEMMA HandlerFacts ==
  ASSUME NEW api \in DOMAIN desc
  PROVE  HandlerOf(api_id[api]) = IF api \in Handlers THEN {api} ELSE {}
BY IdFacts DEF HandlerOf

\* The size of a struct is a number, and no struct is larger than sixteen times its fields.
LEMMA SizeFacts ==
  ASSUME NEW s \in Structs
  PROVE  sizeof(s) \in Nat /\ Len(s) <= sizeof(s) /\ sizeof(s) <= 16 * Len(s)
<1>1. Len(s) \in Nat BY FieldSizes
<1>2. Len(s) + 1 \in 1..Len(s) + 1 /\ (Len(s) + 1) - 1 = Len(s) BY <1>1
<1>3. QED BY <1>2, OffsetFacts DEF sizeof

\* The octets of a header.
HeaderOf(magic, id, struct) == Encode(WireHeader, <<magic, id, sizeof(struct)>>)

\* A frame is its header and its payload, and each can be told from its octets.
LEMMA FrameFacts ==
  ASSUME NEW magic \in U32, NEW id \in U32, NEW s \in Structs, sizeof(s) \in U32,
         NEW v, Fits(s, v)
  PROVE  /\ HeaderOf(magic, id, s) \in Octets /\ Len(HeaderOf(magic, id, s)) = 12
         /\ Decode(WireHeader, HeaderOf(magic, id, s)) = <<magic, id, sizeof(s)>>
         /\ Encode(s, v) \in Octets /\ Len(Encode(s, v)) = sizeof(s)
         /\ Decode(s, Encode(s, v)) = v
         /\ Frame(magic, id, s, v) = HeaderOf(magic, id, s) \o Encode(s, v)
         /\ Frame(magic, id, s, v) \in Octets /\ Frame(magic, id, s, v) # << >>
<1> DEFINE h == HeaderOf(magic, id, s)
           p == Encode(s, v)
<1>1. WireHeader \in Structs BY DEF WireHeader, Structs, SizeOfKind
<1>2. Fits(WireHeader, <<magic, id, sizeof(s)>>)
  BY DEF Fits, WireHeader, Values
<1>3. sizeof(WireHeader) = 12 BY SizesAssumption
<1>4. h \in Octets /\ Len(h) = 12 /\ Decode(WireHeader, h) = <<magic, id, sizeof(s)>>
  BY <1>1, <1>2, <1>3, StructsRoundTrip DEF Octets, HeaderOf
<1>5. p \in Octets /\ Len(p) = sizeof(s) /\ Decode(s, p) = v
  BY StructsRoundTrip DEF Octets
<1>6. Frame(magic, id, s, v) = h \o p BY DEF Frame, HeaderOf
<1> HIDE DEF h, p
<1>7. h \o p \in Octets /\ Len(h \o p) = Len(h) + Len(p) /\ Len(p) \in Nat
  BY <1>4, <1>5, Joined
<1>8. h \o p # << >>
  <2>1. Len(h \o p) # 0 BY <1>4, <1>7
  <2>2. QED BY <1>7, <2>1, Empty, Zenon
<1>9. QED BY <1>4, <1>5, <1>6, <1>7, <1>8 DEF h, p

\* An error frame.
LEMMA ErrorFacts ==
  ASSUME NEW code \in 1..4
  PROVE  /\ HeaderOf(k_magic, 0, ErrorResp) \in Octets
         /\ Len(HeaderOf(k_magic, 0, ErrorResp)) = 12
         /\ Decode(WireHeader, HeaderOf(k_magic, 0, ErrorResp)) = <<k_magic, 0, 4>>
         /\ Encode(ErrorResp, <<code>>) \in Octets /\ Len(Encode(ErrorResp, <<code>>)) = 4
         /\ ErrorFrame(code) = HeaderOf(k_magic, 0, ErrorResp) \o Encode(ErrorResp, <<code>>)
         /\ ErrorFrame(code) \in Octets
<1>1. k_magic \in U32 /\ 0 \in U32 /\ 4 \in U32 BY DEF k_magic, U32
<1>2. ErrorResp \in Structs BY DEF ErrorResp, Structs, SizeOfKind
<1>3. Fits(ErrorResp, <<code>>) BY DEF Fits, ErrorResp, Values, U32
<1>4. sizeof(ErrorResp) = 4 BY SizesAssumption
<1>5. sizeof(ErrorResp) \in U32 BY <1>1, <1>4
<1>6. ErrorFrame(code) = Frame(k_magic, 0, ErrorResp, <<code>>) BY DEF ErrorFrame, api_id
<1>7. /\ HeaderOf(k_magic, 0, ErrorResp) \in Octets
      /\ Len(HeaderOf(k_magic, 0, ErrorResp)) = 12
      /\ Decode(WireHeader, HeaderOf(k_magic, 0, ErrorResp)) = <<k_magic, 0, sizeof(ErrorResp)>>
      /\ Encode(ErrorResp, <<code>>) \in Octets
      /\ Len(Encode(ErrorResp, <<code>>)) = sizeof(ErrorResp)
      /\ Frame(k_magic, 0, ErrorResp, <<code>>)
           = HeaderOf(k_magic, 0, ErrorResp) \o Encode(ErrorResp, <<code>>)
      /\ Frame(k_magic, 0, ErrorResp, <<code>>) \in Octets
  <2> DEFINE m == k_magic
             i == 0
             v == <<code>>
  <2>1. m \in U32 /\ i \in U32 /\ Fits(ErrorResp, v) BY <1>1, <1>3
  <2> HIDE DEF m, i, v
  <2>2. /\ HeaderOf(m, i, ErrorResp) \in Octets /\ Len(HeaderOf(m, i, ErrorResp)) = 12
        /\ Decode(WireHeader, HeaderOf(m, i, ErrorResp)) = <<m, i, sizeof(ErrorResp)>>
        /\ Encode(ErrorResp, v) \in Octets /\ Len(Encode(ErrorResp, v)) = sizeof(ErrorResp)
        /\ Frame(m, i, ErrorResp, v) = HeaderOf(m, i, ErrorResp) \o Encode(ErrorResp, v)
        /\ Frame(m, i, ErrorResp, v) \in Octets
    BY <1>2, <1>5, <2>1, FrameFacts
  <2>3. QED BY <2>2 DEF m, i, v
<1>8. QED BY <1>4, <1>6, <1>7

\* The request structs of all callers; one of the catalogue's size is the catalogue's.
LEMMA ReqFacts ==
  ASSUME program \in DOMAIN Script, NEW api \in DOMAIN desc
  PROVE  /\ ReqStruct(api) \in Structs /\ sizeof(ReqStruct(api)) \in U32
         /\ sizeof(ReqStruct(api)) = sizeof(desc[api].req) => ReqStruct(api) = desc[api].req
<1>1. CASE program = "skewed" /\ api = "open_network"
  <2>1. ReqStruct(api) = <<"u16">> BY <1>1, Zenon DEF ReqStruct
  <2>2. /\ ReqStruct(api) = FindSensorReq /\ desc[api].req = OpenNetworkReq
    BY <1>1, <2>1 DEF FindSensorReq, desc
  <2>3. FindSensorReq \in Structs BY DEF FindSensorReq, Structs, SizeOfKind
  <2>4. QED BY <2>2, <2>3, SizesAssumption DEF U32
<1>2. CASE program = "large" /\ api = "open_network"
  <2> DEFINE s == [i \in 1..65 |-> "u8"]
  <2>1. ReqStruct(api) = s BY <1>2, Zenon DEF ReqStruct
  <2>2. s \in Structs /\ Len(s) = 65 BY DEF Structs, SizeOfKind
  <2>3. desc[api].req = OpenNetworkReq BY <1>2 DEF desc
  <2> HIDE DEF s
  <2>4. sizeof(s) \in Nat /\ 65 <= sizeof(s) /\ sizeof(s) <= 16 * 65 BY <2>2, SizeFacts
  <2>5. sizeof(s) \in U32 BY <2>4 DEF U32
  <2>6. sizeof(s) # 1 BY <2>4
  <2>7. QED BY <2>1, <2>2, <2>3, <2>5, <2>6, SizesAssumption
<1>3. CASE ~(program = "skewed" /\ api = "open_network")
           /\ ~(program = "large" /\ api = "open_network")
  <2>1. ReqStruct(api) = desc[api].req BY <1>3, Zenon DEF ReqStruct
  <2>2. desc[api].req \in Structs /\ sizeof(desc[api].req) <= 64 BY CatalogFacts
  <2>3. sizeof(desc[api].req) \in Nat BY <2>2, SizeFacts
  <2>4. QED BY <2>1, <2>2, <2>3 DEF U32
<1>4. QED BY <1>1, <1>2, <1>3

\* The magic number of every caller is a 32-bit one.
LEMMA MagicFacts == Magic \in U32
BY DEF Magic, k_magic, U32

\* What every call of every caller passes fits the struct it is sent as.
LEMMA ArgumentFits ==
  ASSUME program \in DOMAIN Script, NEW api \in DOMAIN desc,
         peer \in U16, Fits(zb_addr_t, sensor)
  PROVE  Fits(ReqStruct(api), Argument(api))
<1>1. CASE api = "open_network" /\ program = "large"
  <2>1. ReqStruct(api) = [i \in 1..65 |-> "u8"] BY <1>1, Zenon DEF ReqStruct
  <2>2. desc[api].req # zb_addr_t BY <1>1 DEF desc, OpenNetworkReq, zb_addr_t
  <2>3. Argument(api) = [i \in 1..65 |-> 0] BY <1>1, <2>2, Zenon DEF Argument
  <2>4. Fits([i \in 1..65 |-> "u8"], [i \in 1..65 |-> 0]) BY DEF Fits, Values, U8
  <2>5. QED BY <2>1, <2>3, <2>4
<1>2. CASE api = "open_network" /\ program # "large"
  <2>1. desc[api].req # zb_addr_t BY <1>2 DEF desc, OpenNetworkReq, zb_addr_t
  <2>2. Argument(api) = <<180>> BY <1>2, <2>1, Zenon DEF Argument
  <2>3. desc[api].req = <<"u8">> BY <1>2 DEF desc, OpenNetworkReq
  <2>4. ReqStruct(api) = <<"u16">> \/ ReqStruct(api) = desc[api].req
    <3>1. CASE program = "skewed" BY <1>2, <3>1, Zenon DEF ReqStruct
    <3>2. CASE program # "skewed" BY <1>2, <3>2, Zenon DEF ReqStruct
    <3>3. QED BY <3>1, <3>2
  <2>5. Fits(<<"u16">>, <<180>>) /\ Fits(<<"u8">>, <<180>>) BY DEF Fits, Values, U8, U16
  <2>6. QED BY <2>2, <2>3, <2>4, <2>5
<1>3. CASE api # "open_network"
  <2>1. ReqStruct(api) = desc[api].req BY <1>3, Zenon DEF ReqStruct
  <2>2. CASE api = "find_sensor"
    <3>1. desc[api].req = <<"u16">> BY <2>2 DEF desc, FindSensorReq
    <3>2. Argument(api) = <<peer>>
      <4>1. desc[api].req # zb_addr_t BY <3>1 DEF zb_addr_t
      <4>2. QED BY <1>3, <2>2, <4>1, Zenon DEF Argument
    <3>3. Fits(<<"u16">>, <<peer>>) BY DEF Fits, Values
    <3>4. QED BY <2>1, <3>1, <3>2, <3>3
  <2>3. CASE api # "find_sensor" /\ desc[api].req = zb_addr_t
    <3>1. Argument(api) = sensor BY <1>3, <2>3, Zenon DEF Argument
    <3>2. QED BY <2>1, <2>3, <3>1
  <2>4. CASE api # "find_sensor" /\ desc[api].req # zb_addr_t
    <3>1. Argument(api) = << >> BY <1>3, <2>4, Zenon DEF Argument
    <3>2. api \in {"get_short_addr", "get_panid", "get_channel", "wait_annce",
                   "get_last_temp", "get_sensor_addr"}
      BY <1>3, <2>4 DEF desc
    <3>3. desc[api].req = << >> BY <3>2 DEF desc, EmptyReq
    <3>4. Fits(<< >>, << >>) BY DEF Fits
    <3>5. QED BY <2>1, <3>1, <3>3, <3>4
  <2>5. QED BY <2>2, <2>3, <2>4
<1>4. QED BY <1>1, <1>2, <1>3

\* What the globals of sim_zigbee.cpp can be.
Sims == [permit_join : BOOLEAN, joined : BOOLEAN, temp : {t \in Int : 1300 <= t /\ t < 1900}]

\* What a function of sim_zigbee.cpp can answer, as far as the client looks at it.
Computed(api, value) ==
  /\ api \in Handlers /\ Fits(desc[api].resp, value)
  /\ api = "wait_annce" => value = <<g_sensor_short>>
  /\ api = "find_sensor" => value \in {<<0, g_sensor_short, g_sensor_ep>>, <<-1, 0, 0>>}

\* An assignment to one of the flags.
LEMMA SimFacts ==
  ASSUME NEW s \in Sims, NEW b \in BOOLEAN
  PROVE  [s EXCEPT !.permit_join = b] \in Sims /\ [s EXCEPT !.joined = b] \in Sims
BY DEF Sims

\* The functions of sim_zigbee.cpp answer with values their response structs can hold.
LEMMA ServeFacts ==
  ASSUME NEW s \in Sims, NEW api \in Handlers, NEW req, Fits(desc[api].req, req)
  PROVE  /\ Computed(api, Serve(s, [api |-> api, req |-> req]).value)
         /\ Serve(s, [api |-> api, req |-> req]).service \in Sims
<1> DEFINE call == [api |-> api, req |-> req]
           served == Serve(s, call)
<1>1. call.api = api /\ call.req = req OBVIOUS
<1> HIDE DEF call
<1>2. /\ s.temp \in I16 /\ bump_temp(s) \in Sims /\ bump_temp(s).temp \in I16
  BY DEF Sims, bump_temp, I16
<1>3. /\ 0 \in U16 /\ 0 \in U8 /\ 0 \in I32 /\ -1 \in I32 /\ 0 \in I16
      /\ g_panid \in U16 /\ g_channel \in U8 /\ g_sensor_short \in U16 /\ g_sensor_ep \in U8
      /\ Manufacturer \in U8 /\ Model \in U8 /\ -1000 \in I16 /\ 8000 \in I16
      /\ g_short_addr = 0
  BY DEF U8, U16, I16, I32, g_panid, g_channel, g_sensor_short, g_sensor_ep, Manufacturer,
         Model, g_short_addr
<1>4. \A v \in U16 : Fits(<<"u16">>, <<v>>) BY DEF Fits, Values
<1>5. \A v \in U8 : Fits(<<"u8">>, <<v>>) BY DEF Fits, Values
<1>6. \A v \in I32 : Fits(<<"i32">>, <<v>>) BY DEF Fits, Values
<1>7. \A v \in I16 : Fits(<<"i16">>, <<v>>) BY DEF Fits, Values
<1>8. \A v \in I32, a \in U16, e \in U8 : Fits(zb_addr_t, <<v, a, e>>)
  BY DEF Fits, Values, zb_addr_t
<1>9. \A v \in I32, a \in U8, e \in U8 : Fits(zb_basic_t, <<v, a, e>>)
  BY DEF Fits, Values, zb_basic_t
<1>10. \A v \in I32, a, b, d, e \in I16 : Fits(zb_temp_t, <<v, a, b, d, e>>)
  BY DEF Fits, Values, zb_temp_t
<1>11. CASE api = "get_short_addr"
  <2>1. served = Says(s, <<g_short_addr>>) BY <1>1, <1>11, Zenon DEF Serve
  <2>2. desc[api].resp = <<"u16">> BY <1>11 DEF desc, U16Resp
  <2>3. QED BY <1>3, <1>4, <1>11, <2>1, <2>2 DEF Says, Computed, call
<1>12. CASE api = "get_panid"
  <2>1. served = Says(s, <<g_panid>>) BY <1>1, <1>12, Zenon DEF Serve
  <2>2. desc[api].resp = <<"u16">> BY <1>12 DEF desc, U16Resp
  <2>3. QED BY <1>3, <1>4, <1>12, <2>1, <2>2 DEF Says, Computed, call
<1>13. CASE api = "get_channel"
  <2>1. served = Says(s, <<g_channel>>) BY <1>1, <1>13, Zenon DEF Serve
  <2>2. desc[api].resp = <<"u8">> BY <1>13 DEF desc, U8Resp
  <2>3. QED BY <1>3, <1>5, <1>13, <2>1, <2>2 DEF Says, Computed, call
<1>14. CASE api = "open_network"
  <2>1. served = open_network(s, req) BY <1>1, <1>14, Zenon DEF Serve
  <2>2. desc[api].resp = <<"i32">> BY <1>14 DEF desc, I32Resp
  <2>3. [s EXCEPT !.permit_join = (req[1] # 0)] \in Sims BY SimFacts, Zenon
  <2>4. QED BY <1>3, <1>6, <1>14, <2>1, <2>2, <2>3 DEF open_network, Says, Computed, call
<1>15. CASE api = "wait_annce"
  <2>1. served = wait_annce(s) BY <1>1, <1>15, Zenon DEF Serve
  <2>2. desc[api].resp = <<"u16">> BY <1>15 DEF desc, U16Resp
  <2>3. [s EXCEPT !.joined = TRUE] \in Sims BY SimFacts, Zenon
  <2>4. served.value = <<g_sensor_short>> /\ served.service \in Sims
    BY <2>1, <2>3 DEF wait_annce, Says
  <2>5. Fits(desc[api].resp, <<g_sensor_short>>) BY <1>3, <1>4, <2>2
  <2> HIDE DEF served
  <2>6. QED BY <1>15, <2>4, <2>5 DEF Computed, call, served
<1>16. CASE api = "find_sensor"
  <2>1. served = find_sensor(s, req) BY <1>1, <1>16, Zenon DEF Serve
  <2>2. desc[api].resp = zb_addr_t BY <1>16 DEF desc
  <2>3. Fits(zb_addr_t, <<-1, 0, 0>>) /\ Fits(zb_addr_t, <<0, g_sensor_short, g_sensor_ep>>)
    BY <1>3, <1>8
  <2>4. QED BY <1>16, <2>1, <2>2, <2>3 DEF find_sensor, Says, Computed, call
<1>17. CASE api = "read_basic"
  <2>1. served = read_basic(s, req) BY <1>1, <1>17, Zenon DEF Serve
  <2>2. desc[api].resp = zb_basic_t BY <1>17 DEF desc
  <2>3. Fits(zb_basic_t, <<-1, 0, 0>>) /\ Fits(zb_basic_t, <<0, Manufacturer, Model>>)
    BY <1>3, <1>9
  <2>4. QED BY <1>17, <2>1, <2>2, <2>3 DEF read_basic, Says, Computed, call
<1>18. CASE api \in {"bind_sensor", "subscribe_sensor", "config_report"}
  <2>1. served = CheckedAddr(s, req) BY <1>1, <1>18, Zenon DEF Serve
  <2>2. desc[api].resp = <<"i32">> BY <1>18 DEF desc, I32Resp
  <2>3. Fits(<<"i32">>, <<0>>) /\ Fits(<<"i32">>, <<-1>>) BY <1>3, <1>6
  <2>4. QED BY <1>18, <2>1, <2>2, <2>3 DEF CheckedAddr, Says, Computed, call
<1>19. CASE api = "read_temp"
  <2>1. served = read_temp(s, req) BY <1>1, <1>19, Zenon DEF Serve
  <2>2. desc[api].resp = zb_temp_t BY <1>19 DEF desc
  <2>3. /\ Fits(zb_temp_t, <<-1, 0, 0, 0, 0>>)
        /\ Fits(zb_temp_t, <<0, bump_temp(s).temp, -1000, 8000, 0>>)
    BY <1>2, <1>3, <1>10
  <2>4. QED BY <1>2, <1>19, <2>1, <2>2, <2>3 DEF read_temp, Says, Computed, call
<1>20. CASE api = "get_last_temp"
  <2>1. served = get_last_temp(s) BY <1>1, <1>20, Zenon DEF Serve
  <2>2. desc[api].resp = <<"i16">> BY <1>20 DEF desc, I16Resp
  <2>3. QED BY <1>2, <1>7, <1>20, <2>1, <2>2 DEF get_last_temp, Says, Computed, call
<1>21. QED
  BY <1>11, <1>12, <1>13, <1>14, <1>15, <1>16, <1>17, <1>18, <1>19, <1>20 DEF Handlers

-----------------------------------------------------------------------------
(***************************************************************************)
(* The inductive invariant of a session.                                   *)
(***************************************************************************)
\* The client waits for the answer to a call; the server takes no more requests.
Waiting == {"send", "header", "payload", "error"}
Gone == {"refuse", "close", "done", "killed"}
ClientPlaces == Waiting \cup {"start", "ready", "leave", "done", "killed"}
ServerPlaces == Gone \cup {"start", "accept", "header", "payload", "discard", "respond"}

\* What read_all has read of what it is reading, what is on its way, and what the other
\* end has still to write.
Taken(e) == IF pc[e] \in Reading THEN rx[e] ELSE << >>
In(e)    == (Taken(e) \o chan[e]) \o tx[Other(e)]

LastCall  == asked[Len(asked)]
LastValue == executed[Len(asked)]
Answered  == Len(executed) = Len(asked)

\* The request that has still to be executed.
RequestHeader  == HeaderOf(Magic, api_id[LastCall.api], ReqStruct(LastCall.api))
RequestPayload == Encode(ReqStruct(LastCall.api), LastCall.req)
Request == IF Answered THEN << >> ELSE RequestHeader \o RequestPayload

\* The answers that can be on their way to the client.
ReplyHeader  == HeaderOf(k_magic, api_id[LastCall.api], desc[LastCall.api].resp)
ReplyPayload == Encode(desc[LastCall.api].resp, LastValue)
Replies ==
  IF Answered THEN {ReplyHeader \o ReplyPayload}
  ELSE IF pc["server"] \in Gone THEN {ErrorFrame(code) : code \in 1..4} ELSE {<< >>}

\* What every variable can be.
Types ==
  /\ program \in DOMAIN Script
  /\ pc \in [Ends -> ClientPlaces \cup ServerPlaces]
  /\ pc["client"] \in ClientPlaces /\ pc["server"] \in ServerPlaces
  /\ fd \in [Ends -> {"none", "open", "closed"}]
  /\ reset \in [Ends -> BOOLEAN]
  /\ chan \in [Ends -> Octets] /\ tx \in [Ends -> Octets] /\ rx \in [Ends -> Octets]
  /\ hdr \in [Ends -> [id : Int, size : Int]]
  /\ step \in Nat /\ step >= 1 /\ peer \in U16 /\ Fits(zb_addr_t, sensor) /\ sensor \in Seq(Int)
  /\ asked \in Seq(AllCalls) /\ executed \in Seq(Seq(Int)) /\ results \in Seq(Seq(Int))
  /\ sim \in Sims

\* Where the programs are and how their ends of the connection are.
Links ==
  /\ fd["client"] = "open" <=> pc["client"] \in Waiting \cup {"ready", "leave"}
  /\ pc["client"] = "start" => fd["client"] = "none"
  /\ fd["client"] = "none" => /\ pc["client"] \in {"start", "done"}
                              /\ pc["server"] \in {"start", "accept", "done"}
  /\ fd["server"] = "open" <=>
       pc["server"] \in {"header", "payload", "discard", "respond", "refuse", "close"}
  /\ fd["server"] = "closed" => pc["server"] \in {"done", "killed"}
  /\ reset["client"] => fd["server"] = "closed"
  /\ pc["client"] # "send" => tx["client"] = << >>
  /\ pc["server"] \notin {"respond", "refuse"} => tx["server"] = << >>

\* How far the calls, their executions and their results can be apart.
Counts ==
  /\ Len(executed) <= Len(asked)
  /\ pc["client"] \in Waiting => /\ Len(asked) = Len(results) + 1
                                 /\ step <= Len(Script[program])
                                 /\ LastCall.api = Current
  /\ pc["client"] \notin Waiting => Len(asked) = Len(results)
  /\ pc["client"] = "start" => Len(asked) = 0
  /\ pc["server"] \notin Gone =>
       /\ Len(asked) <= Len(executed) + 1
       /\ pc["client"] \notin Waiting \cup {"killed"} => Answered

\* After a failed call no later one is executed: the server takes no more requests, unless
\* the call failed because the client was killed, and then it was the last.
Failures ==
  \A i \in 1..Len(results) :
    results[i] = Failed =>
      /\ Len(executed) <= i
      /\ i < Len(asked) \/ pc["client"] # "killed" => pc["server"] \in Gone

\* What the last call passes, and what was computed for it.
CallValues ==
  Len(asked) > 0 => /\ Fits(ReqStruct(LastCall.api), LastCall.req)
                    /\ Answered => Computed(LastCall.api, LastValue)

\* The octets on their way to the server are the beginning of what is left of the request.
Requests ==
  /\ pc["server"] \notin Gone \cup {"payload", "discard"} => IsPrefix(In("server"), Request)
  /\ pc["server"] \in {"payload", "discard"} =>
       /\ Len(executed) < Len(asked)
       /\ hdr["server"].id = api_id[LastCall.api]
       /\ hdr["server"].size = sizeof(ReqStruct(LastCall.api))
       /\ IsPrefix(In("server"), RequestPayload)
  /\ pc["server"] = "payload" =>
       LastCall.api \in Handlers /\ ReqStruct(LastCall.api) = desc[LastCall.api].req

\* The octets on their way to the client are the beginning of what is left of one answer.
Answers ==
  /\ pc["client"] = "header" => \E x \in Replies : IsPrefix(In("client"), x)
  /\ pc["client"] = "send" => \/ reset["client"] /\ tx["client"] # << >>
                              \/ \E x \in Replies : IsPrefix(In("client"), x)
  /\ pc["client"] = "payload" =>
       /\ Answered /\ hdr["client"].size = sizeof(desc[LastCall.api].resp)
       /\ IsPrefix(In("client"), ReplyPayload)
  /\ pc["client"] = "error" =>
       /\ pc["server"] \in Gone /\ hdr["client"].size = sizeof(ErrorResp)
       /\ \E code \in 1..4 : IsPrefix(In("client"), Encode(ErrorResp, <<code>>))
  /\ pc["client"] \in {"start", "ready"} =>
       reset["client"] \/ (chan["client"] = << >> /\ tx["server"] = << >>)

\* Every call that ended was answered.
NoFailure == \A i \in 1..Len(results) : results[i] # Failed

\* The script of client.cpp: where it can be, and what it has learnt by then.
Progress ==
  /\ program = "client" =>
       /\ step <= 17 /\ (NoFailure \/ step <= 16)
       /\ NoFailure /\ pc["client"] \in Waiting \cup {"start", "ready"}
            => step = Len(results) + 1
       /\ step >= 6 => peer = g_sensor_short
       /\ step >= 7 => sensor = <<0, g_sensor_short, g_sensor_ep>>
       /\ exit = 0 => Len(results) = 16 /\ NoFailure
  /\ exit = 0 => pc["client"] \in {"leave", "done", "killed"}

\* The inductive invariant.
IInv == /\ Types /\ Links /\ Counts /\ Failures /\ CallValues /\ Requests /\ Answers
        /\ Progress

-----------------------------------------------------------------------------
\* The two ends are different, and each is the other's other.
LEMMA EndFacts ==
  /\ "client" \in Ends /\ "server" \in Ends /\ "client" # "server"
  /\ Other("client") = "server" /\ Other("server") = "client"
  /\ \A e \in Ends : e = "client" \/ e = "server"
BY DEF Ends, Other

\* The server's stream, when nothing the server is about to read changes.
LEMMA RequestsKept ==
  ASSUME Requests, UNCHANGED <<program, asked, executed>>,
         pc'["server"] = pc["server"], hdr'["server"] = hdr["server"],
         In("server")' = In("server")
  PROVE  Requests'
<1>1. /\ Request' = Request /\ RequestPayload' = RequestPayload /\ LastCall' = LastCall
      /\ ReqStruct(LastCall.api)' = ReqStruct(LastCall.api)
  BY DEF Request, RequestHeader, RequestPayload, LastCall, ReqStruct, Magic, Answered
<1>2. QED
  BY <1>1 DEF Requests

\* No claim is made about what a server that takes no more requests does not read.
LEMMA RequestsDropped ==
  ASSUME pc'["server"] \in Gone
  PROVE  Requests'
BY DEF Requests, Gone

\* The client's stream, when nothing the client is about to read changes.
LEMMA AnswersKept ==
  ASSUME Answers, UNCHANGED <<asked, executed>>,
         pc'["client"] = pc["client"], hdr'["client"] = hdr["client"],
         pc["server"] \in Gone <=> pc'["server"] \in Gone,
         In("client")' = In("client"), reset'["client"] = reset["client"],
         reset["client"] => tx'["client"] = tx["client"],
         pc["client"] \in {"start", "ready"} =>
           chan'["client"] = chan["client"] /\ tx'["server"] = tx["server"]
  PROVE  Answers'
<1>1. /\ Replies' = Replies /\ ReplyPayload' = ReplyPayload /\ LastCall' = LastCall
      /\ Answered' = Answered
  BY DEF Replies, ReplyHeader, ReplyPayload, LastCall, LastValue, Answered
<1>2. QED
  BY <1>1 DEF Answers

\* A client that has ended waits for no answer.
LEMMA AnswersDropped ==
  ASSUME pc'["client"] \in {"leave", "done", "killed"}
  PROVE  Answers'
BY DEF Answers

\* What the request that was made last, and the answer to it, look like on the wire.
LEMMA LastFacts ==
  ASSUME Types, CallValues, Len(asked) > 0
  PROVE  /\ LastCall \in AllCalls /\ LastCall.api \in DOMAIN desc
         /\ RequestHeader \in Octets /\ Len(RequestHeader) = 12
         /\ Decode(WireHeader, RequestHeader)
              = <<Magic, api_id[LastCall.api], sizeof(ReqStruct(LastCall.api))>>
         /\ RequestPayload \in Octets
         /\ Len(RequestPayload) = sizeof(ReqStruct(LastCall.api))
         /\ Decode(ReqStruct(LastCall.api), RequestPayload) = LastCall.req
         /\ RequestHeader \o RequestPayload \in Octets
         /\ Answered =>
              /\ ReplyHeader \in Octets /\ Len(ReplyHeader) = 12
              /\ Decode(WireHeader, ReplyHeader)
                   = <<k_magic, api_id[LastCall.api], sizeof(desc[LastCall.api].resp)>>
              /\ ReplyPayload \in Octets
              /\ Len(ReplyPayload) = sizeof(desc[LastCall.api].resp)
              /\ Decode(desc[LastCall.api].resp, ReplyPayload) = LastValue
              /\ ReplyHeader \o ReplyPayload \in Octets
<1> DEFINE api == LastCall.api
           req == LastCall.req
           m == Magic
           i == api_id[api]
           s == ReqStruct(api)
           t == desc[api].resp
           v == LastValue
<1>1. LastCall \in AllCalls
  <2>1. asked \in Seq(AllCalls) BY DEF Types
  <2>2. Len(asked) \in 1..Len(asked) BY <2>1
  <2>3. QED BY <2>1, <2>2 DEF LastCall
<1>2. api \in DOMAIN desc BY <1>1 DEF AllCalls
<1>3. program \in DOMAIN Script BY DEF Types
<1>4. Fits(s, req) /\ (Answered => Computed(api, v)) BY DEF CallValues
<1> HIDE DEF api, req, v
<1>5. i \in U32 BY <1>2, IdFacts DEF U32
<1>6. m \in U32 BY MagicFacts
<1>7. s \in Structs /\ sizeof(s) \in U32 BY <1>2, <1>3, ReqFacts
<1>8. t \in Structs /\ sizeof(t) <= 64 BY <1>2, CatalogFacts
<1>9. sizeof(t) \in U32 BY <1>8, SizeFacts DEF U32
<1>10. k_magic \in U32 BY DEF k_magic, U32
<1>11. Answered => Fits(t, v) BY <1>4 DEF Computed
<1> HIDE DEF m, i, s, t
<1>12. /\ HeaderOf(m, i, s) \in Octets /\ Len(HeaderOf(m, i, s)) = 12
       /\ Decode(WireHeader, HeaderOf(m, i, s)) = <<m, i, sizeof(s)>>
       /\ Encode(s, req) \in Octets /\ Len(Encode(s, req)) = sizeof(s)
       /\ Decode(s, Encode(s, req)) = req
       /\ Frame(m, i, s, req) = HeaderOf(m, i, s) \o Encode(s, req)
       /\ Frame(m, i, s, req) \in Octets
  BY <1>4, <1>5, <1>6, <1>7, FrameFacts
<1>13. ASSUME Answered
       PROVE  /\ HeaderOf(k_magic, i, t) \in Octets /\ Len(HeaderOf(k_magic, i, t)) = 12
              /\ Decode(WireHeader, HeaderOf(k_magic, i, t)) = <<k_magic, i, sizeof(t)>>
              /\ Encode(t, v) \in Octets /\ Len(Encode(t, v)) = sizeof(t)
              /\ Decode(t, Encode(t, v)) = v
              /\ Frame(k_magic, i, t, v) = HeaderOf(k_magic, i, t) \o Encode(t, v)
              /\ Frame(k_magic, i, t, v) \in Octets
  BY <1>5, <1>8, <1>9, <1>10, <1>11, <1>13, FrameFacts
<1>14. RequestHeader = HeaderOf(m, i, s) /\ RequestPayload = Encode(s, req)
  BY DEF RequestHeader, RequestPayload, m, i, s, api, req
<1>15. ReplyHeader = HeaderOf(k_magic, i, t) /\ ReplyPayload = Encode(t, v)
  BY DEF ReplyHeader, ReplyPayload, i, t, v, api
<1>16. QED
  BY <1>1, <1>2, <1>12, <1>13, <1>14, <1>15 DEF m, i, s, t, api, req, v

\* The streams are strings of octets.
LEMMA StreamFacts ==
  ASSUME Types, Counts, CallValues
  PROVE  /\ \A e \in Ends : /\ Taken(e) \in Octets /\ chan[e] \in Octets /\ tx[e] \in Octets
                            /\ rx[e] \in Octets
         /\ Len(asked) \in Nat /\ Len(executed) \in Nat /\ Len(results) \in Nat
         /\ ~Answered => Len(asked) > 0
         /\ Request \in Octets
         /\ Len(asked) > 0 => \A x \in Replies : x \in Octets
<1>1. /\ \A e \in Ends : chan[e] \in Octets /\ tx[e] \in Octets /\ rx[e] \in Octets
      /\ Len(asked) \in Nat /\ Len(executed) \in Nat /\ Len(results) \in Nat
  BY DEF Types
<1>2. \A e \in Ends : Taken(e) \in Octets
  BY <1>1, Empty DEF Taken
<1>3. ~Answered => Len(asked) > 0
  BY <1>1 DEF Answered, Counts
<1>4. Request \in Octets
  BY <1>3, LastFacts, Empty DEF Request
<1>5. Len(asked) > 0 => \A x \in Replies : x \in Octets
  BY LastFacts, Empty, ErrorFacts DEF Replies
<1>6. QED
  BY <1>1, <1>2, <1>3, <1>4, <1>5

\* The client's stream, when the server takes no more requests from here on: what it has
\* written is there, or the end of it is lost.
LEMMA ServerLeaves ==
  ASSUME Types, Counts, CallValues, Answers, UNCHANGED <<asked, executed>>,
         pc'["client"] = pc["client"], hdr'["client"] = hdr["client"],
         rx'["client"] = rx["client"], pc'["server"] \in Gone,
         reset["client"] => reset'["client"], tx'["client"] = tx["client"],
         \/ chan'["client"] = chan["client"] /\ tx'["server"] = tx["server"]
         \/ chan'["client"] = chan["client"] /\ tx'["server"] = << >>
         \/ chan'["client"] = << >> /\ tx'["server"] = << >>
  PROVE  Answers'
<1> USE EndFacts
<1> DEFINE r == Taken("client")
           c == chan["client"]
           t == tx["server"]
<1>1. /\ r \in Octets /\ c \in Octets /\ t \in Octets
      /\ Len(asked) > 0 => \A x \in Replies : x \in Octets
      /\ Len(asked) \in Nat /\ Len(results) \in Nat
  BY StreamFacts
<1>2. In("client") = (r \o c) \o t BY DEF In
<1>3. /\ Taken("client")' = r
      /\ In("client")' = (r \o chan'["client"]) \o tx'["server"]
  BY DEF In, Taken
<1> HIDE DEF r, c, t
<1>4. \A x \in Octets : IsPrefix(In("client"), x) => IsPrefix(In("client")', x)
  <2> SUFFICES ASSUME NEW x \in Octets, IsPrefix((r \o c) \o t, x)
               PROVE  IsPrefix(In("client")', x)
    BY <1>2
  <2>1. IsPrefix((r \o c) \o << >>, x) /\ IsPrefix((r \o << >>) \o << >>, x)
    BY <1>1, LostBehind
  <2>2. QED BY <1>3, <2>1 DEF c, t
<1>5. /\ LastCall' = LastCall /\ Answered' = Answered /\ ReplyPayload' = ReplyPayload
      /\ ReplyHeader' = ReplyHeader
  BY DEF LastCall, LastValue, Answered, ReplyPayload, ReplyHeader
<1>6. ASSUME Len(asked) > 0, NEW x \in Replies, IsPrefix(In("client"), x)
      PROVE  \E y \in Replies' : IsPrefix(In("client")', y)
  <2>1. x \in Octets BY <1>1, <1>6
  <2>2. IsPrefix(In("client")', x) BY <1>4, <1>6, <2>1
  <2>3. CASE Answered \/ pc["server"] \in Gone
    <3>1. Replies' = Replies BY <1>5, <2>3 DEF Replies
    <3>2. QED BY <1>6, <2>2, <3>1
  <2>4. CASE ~Answered /\ pc["server"] \notin Gone
    <3>1. x = << >> BY <1>6, <2>4 DEF Replies
    <3>2. r = << >> /\ c = << >> /\ t = << >> BY <1>1, <1>2, <1>6, <3>1, NothingThere
    <3>3. In("client")' = (<< >> \o << >>) \o << >> BY <1>3, <3>2 DEF c, t
    <3>4. ErrorFrame(1) \in Replies' BY <1>5, <2>4 DEF Replies
    <3>5. ErrorFrame(1) \in Octets BY ErrorFacts
    <3>6. IsPrefix(In("client")', ErrorFrame(1)) BY <3>3, <3>5, NothingBefore
    <3>7. QED BY <3>4, <3>6
  <2>5. QED BY <2>3, <2>4
<1>7. pc["client"] \in Waiting => Len(asked) > 0 BY <1>1 DEF Counts
<1>8. pc["client"] = "header" => \E x \in Replies' : IsPrefix(In("client")', x)
  BY <1>6, <1>7 DEF Answers, Waiting
<1>9. pc["client"] = "send" => \/ reset'["client"] /\ tx'["client"] # << >>
                              \/ \E x \in Replies' : IsPrefix(In("client")', x)
  BY <1>6, <1>7 DEF Answers, Waiting
<1>10. pc["client"] = "payload" => IsPrefix(In("client")', ReplyPayload)
  BY <1>4, <1>7, LastFacts DEF Answers, Waiting
<1>11. pc["client"] = "error" =>
         \E code \in 1..4 : IsPrefix(In("client")', Encode(ErrorResp, <<code>>))
  BY <1>4, ErrorFacts DEF Answers
<1>12. pc["client"] \in {"start", "ready"} =>
         reset'["client"] \/ (chan'["client"] = << >> /\ tx'["server"] = << >>)
  BY DEF Answers
<1>13. QED
  BY <1>5, <1>8, <1>9, <1>10, <1>11, <1>12 DEF Answers

\* The server's stream, when the client writes no more: what it has written is there, or
\* is lost.
LEMMA ClientLeaves ==
  ASSUME Types, Counts, CallValues, Requests, UNCHANGED <<program, asked, executed>>,
         pc'["server"] = pc["server"], hdr'["server"] = hdr["server"],
         rx'["server"] = rx["server"], tx'["client"] = << >>,
         chan'["server"] = chan["server"] \/ chan'["server"] = << >>
  PROVE  Requests'
<1> USE EndFacts
<1> DEFINE r == Taken("server")
           c == chan["server"]
           t == tx["client"]
<1>1. r \in Octets /\ c \in Octets /\ t \in Octets /\ Request \in Octets
  BY StreamFacts
<1>2. In("server") = (r \o c) \o t BY DEF In
<1>3. In("server")' = (r \o chan'["server"]) \o << >>
  BY DEF In, Taken
<1> HIDE DEF r, c, t
<1>4. \A x \in Octets : IsPrefix(In("server"), x) => IsPrefix(In("server")', x)
  <2> SUFFICES ASSUME NEW x \in Octets, IsPrefix((r \o c) \o t, x)
               PROVE  IsPrefix(In("server")', x)
    BY <1>2
  <2>1. IsPrefix((r \o c) \o << >>, x) /\ IsPrefix((r \o << >>) \o << >>, x)
    BY <1>1, LostBehind
  <2>2. QED BY <1>3, <2>1 DEF c
<1>5. /\ Request' = Request /\ RequestPayload' = RequestPayload /\ LastCall' = LastCall
      /\ ReqStruct(LastCall.api)' = ReqStruct(LastCall.api)
  BY DEF Request, RequestHeader, RequestPayload, LastCall, ReqStruct, Magic, Answered
<1>6. pc["server"] \in {"payload", "discard"} => RequestPayload \in Octets
  <2>1. Len(asked) \in Nat /\ Len(executed) \in Nat BY DEF Types
  <2>2. pc["server"] \in {"payload", "discard"} => Len(asked) > 0 BY <2>1 DEF Requests
  <2>3. QED BY <2>2, LastFacts
<1>7. QED
  BY <1>1, <1>4, <1>5, <1>6 DEF Requests

\* What close(), or the end of a process, does to the connection.
LEMMA CloseFacts ==
  ASSUME Types, NEW e \in Ends, CloseFd(e)
  PROVE  /\ fd' \in [Ends -> {"none", "open", "closed"}] /\ reset' \in [Ends -> BOOLEAN]
         /\ chan' \in [Ends -> Octets]
         /\ fd'[e] = "closed" /\ fd'[Other(e)] = fd[Other(e)] /\ reset'[e] = reset[e]
         /\ reset[Other(e)] => reset'[Other(e)]
         /\ chan'[Other(e)] = chan[Other(e)] \/ chan'[Other(e)] = << >>
<1> USE EndFacts, Empty DEF CloseFd
<1>1. Other(e) \in Ends /\ Other(e) # e BY DEF Other, Ends
<1>2. /\ fd' \in [Ends -> {"none", "open", "closed"}]
      /\ fd'[e] = "closed" /\ fd'[Other(e)] = fd[Other(e)]
  BY <1>1 DEF Types
<1>3. chan' \in [Ends -> Octets] BY <1>1 DEF Types
<1>4. chan'[Other(e)] = chan[Other(e)] \/ chan'[Other(e)] = << >> BY <1>1 DEF Types
<1>5. reset' = reset \/ reset' = [reset EXCEPT ![Other(e)] = TRUE] OBVIOUS
<1>6. /\ reset' \in [Ends -> BOOLEAN] /\ reset'[e] = reset[e]
      /\ reset[Other(e)] => reset'[Other(e)]
  BY <1>1, <1>5 DEF Types
<1>7. QED BY <1>2, <1>3, <1>4, <1>6

-----------------------------------------------------------------------------
(***************************************************************************)
(* The steps, one lemma for each action.                                   *)
(***************************************************************************)
\* The client connects.
LEMMA ConnectStep ==
  ASSUME IInv, rpc_connect
  PROVE  IInv'
<1> USE EndFacts DEF rpc_connect, Goto, clientVars
<1>1. Types /\ Links /\ Counts /\ Failures /\ CallValues /\ Requests /\ Answers /\ Progress
  BY DEF IInv
<1>2. Types' BY <1>1 DEF Types, ClientPlaces
<1>3. Links' BY <1>1 DEF Types, Links, Waiting
<1>4. Counts' /\ Failures'
  BY <1>1 DEF Types, Counts, Failures, Waiting, Gone, Answered
<1>5. CallValues' BY <1>1 DEF CallValues, LastCall, LastValue, Answered, ReqStruct
<1>6. Requests'
  <2>1. In("server")' = In("server") BY <1>1 DEF Types, In, Taken
  <2>2. QED BY <1>1, <2>1, RequestsKept DEF Types
<1>7. Answers' BY <1>1 DEF Types, Answers
<1>8. Progress' BY <1>1 DEF Types, Progress, NoFailure, Waiting
<1>9. QED BY <1>2, <1>3, <1>4, <1>5, <1>6, <1>7, <1>8 DEF IInv

\* The client cannot connect.
LEMMA ConnectFailsStep ==
  ASSUME IInv, ConnectFails
  PROVE  IInv'
<1> USE EndFacts DEF ConnectFails, Goto, engineVars
<1>1. Types /\ Links /\ Counts /\ Failures /\ CallValues /\ Requests /\ Answers /\ Progress
  BY DEF IInv
<1>2. Types' BY <1>1 DEF Types, ClientPlaces
<1>3. Links' BY <1>1 DEF Types, Links, Waiting
<1>4. Counts' /\ Failures'
  BY <1>1 DEF Types, Counts, Failures, Waiting, Gone, Answered
<1>5. CallValues' BY <1>1 DEF CallValues, LastCall, LastValue, Answered, ReqStruct
<1>6. Requests'
  <2>1. In("server")' = In("server") BY <1>1 DEF Types, In, Taken
  <2>2. QED BY <1>1, <2>1, RequestsKept DEF Types
<1>7. Answers' BY <1>1, AnswersDropped DEF Types
<1>8. Progress' BY <1>1 DEF Types, Progress, NoFailure, Waiting
<1>9. QED BY <1>2, <1>3, <1>4, <1>5, <1>6, <1>7, <1>8 DEF IInv

\* A request has been written.
LEMMA SentStep ==
  ASSUME IInv, Sent
  PROVE  IInv'
<1> USE EndFacts DEF Sent, Goto, StartRead, clientVars
<1>1. Types /\ Links /\ Counts /\ Failures /\ CallValues /\ Requests /\ Answers /\ Progress
  BY DEF IInv
<1>2. Types' BY <1>1, Empty DEF Types, ClientPlaces, Waiting
<1>3. Links' BY <1>1 DEF Types, Links, Waiting
<1>4. Counts' /\ Failures'
  BY <1>1 DEF Types, Counts, Failures, Waiting, Gone, Answered, LastCall, Current
<1>5. CallValues' BY <1>1 DEF CallValues, LastCall, LastValue, Answered, ReqStruct
<1>6. Requests'
  <2>1. In("server")' = In("server") BY <1>1 DEF Types, In, Taken
  <2>2. QED BY <1>1, <2>1, RequestsKept DEF Types
<1>7. Answers'
  <2>1. Replies' = Replies
    BY <1>1 DEF Types, Replies, ReplyHeader, ReplyPayload, LastCall, LastValue, Answered
  <2>2. In("client")' = In("client") BY <1>1 DEF Types, In, Taken, Reading
  <2>3. \E x \in Replies : IsPrefix(In("client"), x) BY <1>1 DEF Answers
  <2>4. QED BY <1>1, <2>1, <2>2, <2>3 DEF Types, Answers
<1>8. Progress' BY <1>1 DEF Types, Progress, NoFailure, Waiting
<1>9. QED BY <1>2, <1>3, <1>4, <1>5, <1>6, <1>7, <1>8 DEF IInv

\* client.cpp passes its last call only when every call has been answered.
LEMMA LastStep ==
  ASSUME Types, Progress, program = "client", pc["client"] = "ready", step > 16
  PROVE  NoFailure /\ Len(results) = 16
<1>1. step \in Nat /\ Len(results) \in Nat BY DEF Types
<1>2. step <= 17 /\ (NoFailure \/ step <= 16) BY DEF Progress
<1>3. NoFailure BY <1>1, <1>2
<1>4. step = Len(results) + 1 BY <1>3 DEF Progress
<1>5. step <= 17 BY DEF Progress
<1>6. \A m, n \in Nat : m > 16 /\ m <= 17 /\ m = n + 1 => n = 16 OBVIOUS
<1>7. QED BY <1>1, <1>3, <1>4, <1>5, <1>6, Zenon

\* The client comes to the end of its script.
LEMMA ClientEndsStep ==
  ASSUME IInv, ClientEnds
  PROVE  IInv'
<1> USE EndFacts DEF ClientEnds, Leave, Goto, engineVars
<1>1. Types /\ Links /\ Counts /\ Failures /\ CallValues /\ Requests /\ Answers /\ Progress
  BY DEF IInv
<1>2. Types' BY <1>1 DEF Types, ClientPlaces
<1>3. Links' BY <1>1 DEF Types, Links, Waiting
<1>4. Counts' /\ Failures'
  BY <1>1 DEF Types, Counts, Failures, Waiting, Gone, Answered
<1>5. CallValues' BY <1>1 DEF CallValues, LastCall, LastValue, Answered, ReqStruct
<1>6. Requests'
  <2>1. In("server")' = In("server") BY <1>1 DEF Types, In, Taken
  <2>2. QED BY <1>1, <2>1, RequestsKept DEF Types
<1>7. Answers' BY <1>1, AnswersDropped DEF Types
<1>8. Progress'
  <2>1. program = "client" => Len(Script[program]) = 16 BY DEF Script
  <2>2. program = "client" => NoFailure /\ Len(results) = 16
    BY <1>1, <2>1, LastStep
  <2>3. results' = results /\ (NoFailure' <=> NoFailure) BY DEF NoFailure
  <2>4. QED BY <1>1, <2>2, <2>3 DEF Types, Progress
<1>9. QED BY <1>2, <1>3, <1>4, <1>5, <1>6, <1>7, <1>8 DEF IInv

\* The server listens.
LEMMA ListenStep ==
  ASSUME IInv, rpc_listen
  PROVE  IInv'
<1> USE EndFacts DEF rpc_listen, Goto, engineVars, clientVars
<1>1. Types /\ Links /\ Counts /\ Failures /\ CallValues /\ Requests /\ Answers /\ Progress
  BY DEF IInv
<1>2. Types' BY <1>1 DEF Types, ServerPlaces
<1>3. Links' BY <1>1 DEF Types, Links, Waiting
<1>4. Counts' /\ Failures'
  BY <1>1 DEF Types, Counts, Failures, Waiting, Gone, Answered, LastCall, Current
<1>5. CallValues' BY <1>1 DEF CallValues, LastCall, LastValue, Answered, ReqStruct
<1>6. Requests'
  <2>1. In("server")' = In("server") BY <1>1 DEF Types, In, Taken, Reading
  <2>2. Request' = Request
    BY DEF Request, RequestHeader, RequestPayload, LastCall, ReqStruct, Magic, Answered
  <2>3. QED BY <1>1, <2>1, <2>2 DEF Types, Requests, Gone
<1>7. Answers'
  <2>1. In("client")' = In("client") BY <1>1 DEF Types, In, Taken
  <2>2. QED BY <1>1, <2>1, AnswersKept DEF Types, Gone
<1>8. Progress' BY <1>1 DEF Types, Progress, NoFailure, Waiting
<1>9. QED BY <1>2, <1>3, <1>4, <1>5, <1>6, <1>7, <1>8 DEF IInv

\* The server cannot listen.
LEMMA ListenFailsStep ==
  ASSUME IInv, ListenFails
  PROVE  IInv'
<1> USE EndFacts DEF ListenFails, Goto, engineVars, clientVars
<1>1. Types /\ Links /\ Counts /\ Failures /\ CallValues /\ Requests /\ Answers /\ Progress
  BY DEF IInv
<1>2. Types' BY <1>1 DEF Types, ServerPlaces, Gone
<1>3. Links' BY <1>1 DEF Types, Links, Waiting
<1>4. Counts' /\ Failures'
  BY <1>1 DEF Types, Counts, Failures, Waiting, Gone, Answered, LastCall, Current
<1>5. CallValues' BY <1>1 DEF CallValues, LastCall, LastValue, Answered, ReqStruct
<1>6. Requests' BY <1>1, RequestsDropped DEF Types, Gone
<1>7. Answers' BY <1>1, ServerLeaves DEF Types, Gone
<1>8. Progress' BY <1>1 DEF Types, Progress, NoFailure, Waiting
<1>9. QED BY <1>2, <1>3, <1>4, <1>5, <1>6, <1>7, <1>8 DEF IInv

\* The server accepts the connection.
LEMMA AcceptStep ==
  ASSUME IInv, rpc_accept
  PROVE  IInv'
<1> USE EndFacts DEF rpc_accept, Goto, StartRead, clientVars
<1>1. Types /\ Links /\ Counts /\ Failures /\ CallValues /\ Requests /\ Answers /\ Progress
  BY DEF IInv
<1>2. Types'
  <2>1. rx' \in [Ends -> Octets] BY <1>1, Empty DEF Types
  <2>2. /\ pc' \in [Ends -> ClientPlaces \cup ServerPlaces]
        /\ pc'["client"] = pc["client"] /\ pc'["server"] \in ServerPlaces
    BY <1>1 DEF Types, ServerPlaces
  <2>3. QED BY <1>1, <2>1, <2>2 DEF Types
<1>3. Links' BY <1>1 DEF Types, Links, Waiting
<1>4. Counts' /\ Failures'
  BY <1>1 DEF Types, Counts, Failures, Waiting, Gone, Answered, LastCall, Current
<1>5. CallValues' BY <1>1 DEF CallValues, LastCall, LastValue, Answered, ReqStruct
<1>6. Requests'
  <2>1. In("server")' = In("server") BY <1>1 DEF Types, In, Taken, Reading
  <2>2. Request' = Request
    BY DEF Request, RequestHeader, RequestPayload, LastCall, ReqStruct, Magic, Answered
  <2>3. QED BY <1>1, <2>1, <2>2 DEF Types, Requests, Gone
<1>7. Answers'
  <2>1. In("client")' = In("client") BY <1>1 DEF Types, In, Taken
  <2>2. QED BY <1>1, <2>1, AnswersKept DEF Types, Gone
<1>8. Progress' BY <1>1 DEF Types, Progress, NoFailure, Waiting
<1>9. QED BY <1>2, <1>3, <1>4, <1>5, <1>6, <1>7, <1>8 DEF IInv

\* accept() fails.
LEMMA AcceptFailsStep ==
  ASSUME IInv, AcceptFails
  PROVE  IInv'
<1> USE EndFacts DEF AcceptFails, Goto, clientVars
<1>1. Types /\ Links /\ Counts /\ Failures /\ CallValues /\ Requests /\ Answers /\ Progress
  BY DEF IInv
<1>2. Types'
  <2>1. CloseFd("server") OBVIOUS
  <2>2. QED BY <1>1, <2>1, CloseFacts DEF Types, ServerPlaces, Gone
<1>3. Links'
  <2>1. CloseFd("server") OBVIOUS
  <2>2. QED BY <1>1, <2>1, CloseFacts DEF Types, Links, Waiting
<1>4. Counts' /\ Failures'
  BY <1>1 DEF Types, Counts, Failures, Waiting, Gone, Answered, LastCall, Current
<1>5. CallValues' BY <1>1 DEF CallValues, LastCall, LastValue, Answered, ReqStruct
<1>6. Requests' BY <1>1, RequestsDropped DEF Types, Gone
<1>7. Answers'
  <2>1. CloseFd("server") OBVIOUS
  <2>2. tx["server"] = << >> BY <1>1 DEF Links
  <2>3. QED BY <1>1, <2>1, <2>2, CloseFacts, ServerLeaves DEF Types, Gone
<1>8. Progress' BY <1>1 DEF Types, Progress, NoFailure, Waiting
<1>9. QED BY <1>2, <1>3, <1>4, <1>5, <1>6, <1>7, <1>8 DEF IInv

\* A response has been written.
LEMMA RespondedStep ==
  ASSUME IInv, Responded
  PROVE  IInv'
<1> USE EndFacts DEF Responded, Goto, StartRead, clientVars
<1>1. Types /\ Links /\ Counts /\ Failures /\ CallValues /\ Requests /\ Answers /\ Progress
  BY DEF IInv
<1>2. Types'
  <2>1. rx' \in [Ends -> Octets] BY <1>1, Empty DEF Types
  <2>2. /\ pc' \in [Ends -> ClientPlaces \cup ServerPlaces]
        /\ pc'["client"] = pc["client"] /\ pc'["server"] \in ServerPlaces
    BY <1>1 DEF Types, ServerPlaces
  <2>3. QED BY <1>1, <2>1, <2>2 DEF Types
<1>3. Links' BY <1>1 DEF Types, Links, Waiting
<1>4. Counts' /\ Failures'
  BY <1>1 DEF Types, Counts, Failures, Waiting, Gone, Answered, LastCall, Current
<1>5. CallValues' BY <1>1 DEF CallValues, LastCall, LastValue, Answered, ReqStruct
<1>6. Requests'
  <2>1. In("server")' = In("server") BY <1>1 DEF Types, In, Taken, Reading
  <2>2. Request' = Request
    BY DEF Request, RequestHeader, RequestPayload, LastCall, ReqStruct, Magic, Answered
  <2>3. QED BY <1>1, <2>1, <2>2 DEF Types, Requests, Gone
<1>7. Answers'
  <2>1. In("client")' = In("client") BY <1>1 DEF Types, In, Taken
  <2>2. QED BY <1>1, <2>1, AnswersKept DEF Types, Gone
<1>8. Progress' BY <1>1 DEF Types, Progress, NoFailure, Waiting
<1>9. QED BY <1>2, <1>3, <1>4, <1>5, <1>6, <1>7, <1>8 DEF IInv

\* An error has been written.
LEMMA RefusedStep ==
  ASSUME IInv, Refused
  PROVE  IInv'
<1> USE EndFacts DEF Refused, Goto, engineVars, clientVars
<1>1. Types /\ Links /\ Counts /\ Failures /\ CallValues /\ Requests /\ Answers /\ Progress
  BY DEF IInv
<1>2. Types' BY <1>1 DEF Types, ServerPlaces, Gone
<1>3. Links' BY <1>1 DEF Types, Links, Waiting
<1>4. Counts' /\ Failures'
  BY <1>1 DEF Types, Counts, Failures, Waiting, Gone, Answered, LastCall, Current
<1>5. CallValues' BY <1>1 DEF CallValues, LastCall, LastValue, Answered, ReqStruct
<1>6. Requests' BY <1>1, RequestsDropped DEF Types, Gone
<1>7. Answers' BY <1>1, ServerLeaves DEF Types, Gone
<1>8. Progress' BY <1>1 DEF Types, Progress, NoFailure, Waiting
<1>9. QED BY <1>2, <1>3, <1>4, <1>5, <1>6, <1>7, <1>8 DEF IInv

\* The server cannot write.
LEMMA ServerWriteFailsStep ==
  ASSUME IInv, ServerWriteFails
  PROVE  IInv'
<1> USE EndFacts DEF ServerWriteFails, Goto, clientVars
<1>1. Types /\ Links /\ Counts /\ Failures /\ CallValues /\ Requests /\ Answers /\ Progress
  BY DEF IInv
<1>2. Types'
  <2>1. tx' \in [Ends -> Octets] BY <1>1, Empty DEF Types
  <2>2. /\ pc' \in [Ends -> ClientPlaces \cup ServerPlaces]
        /\ pc'["client"] = pc["client"] /\ pc'["server"] \in ServerPlaces
    BY <1>1 DEF Types, ServerPlaces, Gone
  <2>3. QED BY <1>1, <2>1, <2>2 DEF Types
<1>3. Links' BY <1>1 DEF Types, Links, Waiting
<1>4. Counts' /\ Failures'
  BY <1>1 DEF Types, Counts, Failures, Waiting, Gone, Answered, LastCall, Current
<1>5. CallValues' BY <1>1 DEF CallValues, LastCall, LastValue, Answered, ReqStruct
<1>6. Requests' BY <1>1, RequestsDropped DEF Types, Gone
<1>7. Answers' BY <1>1, ServerLeaves DEF Types, Gone
<1>8. Progress' BY <1>1 DEF Types, Progress, NoFailure, Waiting
<1>9. QED BY <1>2, <1>3, <1>4, <1>5, <1>6, <1>7, <1>8 DEF IInv

\* The server meets the end of the stream.
LEMMA ServerReadFailsStep ==
  ASSUME IInv, ServerReadFails
  PROVE  IInv'
<1> USE EndFacts DEF ServerReadFails, ReadFails, Goto, engineVars, clientVars
<1>1. Types /\ Links /\ Counts /\ Failures /\ CallValues /\ Requests /\ Answers /\ Progress
  BY DEF IInv
<1>2. Types' BY <1>1 DEF Types, ServerPlaces, Gone
<1>3. Links' BY <1>1 DEF Types, Links, Waiting, Reading, ServerPlaces, Gone
<1>4. Counts' /\ Failures'
  BY <1>1 DEF Types, Counts, Failures, Waiting, Gone, Answered, LastCall, Current
<1>5. CallValues' BY <1>1 DEF CallValues, LastCall, LastValue, Answered, ReqStruct
<1>6. Requests' BY <1>1, RequestsDropped DEF Types, Gone
<1>7. Answers' BY <1>1, ServerLeaves DEF Types, Gone
<1>8. Progress' BY <1>1 DEF Types, Progress, NoFailure, Waiting
<1>9. QED BY <1>2, <1>3, <1>4, <1>5, <1>6, <1>7, <1>8 DEF IInv

\* The server closes the connection.
LEMMA ServerClosesStep ==
  ASSUME IInv, ServerCloses
  PROVE  IInv'
<1> USE EndFacts DEF ServerCloses, Goto, clientVars
<1>1. Types /\ Links /\ Counts /\ Failures /\ CallValues /\ Requests /\ Answers /\ Progress
  BY DEF IInv
<1>2. Types'
  <2>1. CloseFd("server") OBVIOUS
  <2>2. QED BY <1>1, <2>1, CloseFacts DEF Types, ServerPlaces, Gone
<1>3. Links'
  <2>1. CloseFd("server") OBVIOUS
  <2>2. QED BY <1>1, <2>1, CloseFacts DEF Types, Links, Waiting
<1>4. Counts' /\ Failures'
  BY <1>1 DEF Types, Counts, Failures, Waiting, Gone, Answered, LastCall, Current
<1>5. CallValues' BY <1>1 DEF CallValues, LastCall, LastValue, Answered, ReqStruct
<1>6. Requests' BY <1>1, RequestsDropped DEF Types, Gone
<1>7. Answers'
  <2>1. CloseFd("server") OBVIOUS
  <2>2. tx["server"] = << >> BY <1>1 DEF Links
  <2>3. QED BY <1>1, <2>1, <2>2, CloseFacts, ServerLeaves DEF Types, Gone
<1>8. Progress' BY <1>1 DEF Types, Progress, NoFailure, Waiting
<1>9. QED BY <1>2, <1>3, <1>4, <1>5, <1>6, <1>7, <1>8 DEF IInv

\* The client closes the connection.
LEMMA ClientClosesStep ==
  ASSUME IInv, ClientCloses
  PROVE  IInv'
<1> USE EndFacts DEF ClientCloses, Goto, clientVars
<1>1. Types /\ Links /\ Counts /\ Failures /\ CallValues /\ Requests /\ Answers /\ Progress
  BY DEF IInv
<1>2. Types'
  <2>1. CloseFd("client") OBVIOUS
  <2>2. QED BY <1>1, <2>1, CloseFacts DEF Types, ClientPlaces
<1>3. Links'
  <2>1. CloseFd("client") OBVIOUS
  <2>2. QED BY <1>1, <2>1, CloseFacts DEF Types, Links, Waiting
<1>4. Counts' /\ Failures'
  BY <1>1 DEF Types, Counts, Failures, Waiting, Gone, Answered, LastCall, Current
<1>5. CallValues' BY <1>1 DEF CallValues, LastCall, LastValue, Answered, ReqStruct
<1>6. Requests'
  <2>1. CloseFd("client") OBVIOUS
  <2>2. tx["client"] = << >> BY <1>1 DEF Links
  <2>3. QED BY <1>1, <2>1, <2>2, CloseFacts, ClientLeaves DEF Types
<1>7. Answers' BY <1>1, AnswersDropped DEF Types
<1>8. Progress' BY <1>1 DEF Types, Progress, NoFailure, Waiting
<1>9. QED BY <1>2, <1>3, <1>4, <1>5, <1>6, <1>7, <1>8 DEF IInv

\* The scripts call functions of the catalogue; only client.cpp uses an address, and only
\* after it has asked for it.
LEMMA ScriptFacts ==
  ASSUME program \in DOMAIN Script, step \in Nat, step >= 1, step <= Len(Script[program])
  PROVE  /\ Current \in DOMAIN desc
         /\ program = "client" => Len(Script[program]) = 16
         /\ Current = "wait_annce" => program = "client" /\ step = 5
         /\ Current = "find_sensor" => program = "client" /\ step = 6
         /\ desc[Current].req = zb_addr_t => program = "client" /\ step >= 7
         /\ program = "client" /\ Current \in {"bind_sensor", "subscribe_sensor",
                                              "config_report", "get_last_temp"}
              => step >= 7 /\ step <= 15
         /\ program = "client" /\ step = 5 => Current = "wait_annce"
         /\ program = "client" /\ step = 6 => Current = "find_sensor"
<1>1. CASE program = "client"
  <2>1. Len(Script[program]) = 16 BY <1>1 DEF Script
  <2>2. step \in {1, 2, 3, 4, 5, 6, 7, 8, 9, 10, 11, 12, 13, 14, 15, 16} BY <2>1
  <2>3. CASE step \in {1, 2, 3, 4, 5, 6}
    <3>1. /\ Current \in {"get_short_addr", "get_panid", "get_channel", "open_network",
                          "wait_annce", "find_sensor"}
          /\ Current = "wait_annce" <=> step = 5
          /\ Current = "find_sensor" <=> step = 6
      BY <1>1, <2>3 DEF Current, Script
    <3>2. /\ Current \in DOMAIN desc
          /\ desc[Current].req \in {EmptyReq, OpenNetworkReq, FindSensorReq}
      BY <3>1 DEF desc
    <3>3. desc[Current].req # zb_addr_t
      BY <3>2 DEF EmptyReq, OpenNetworkReq, FindSensorReq, zb_addr_t
    <3>4. QED BY <1>1, <2>1, <3>1, <3>2, <3>3
  <2>4. CASE step \in {7, 8, 9, 10, 11, 12, 13, 14, 15, 16}
    <3>1. /\ Current \in {"read_basic", "bind_sensor", "subscribe_sensor", "config_report",
                          "get_last_temp", "read_temp"}
          /\ Current = "read_temp" <=> step = 16
      BY <1>1, <2>4 DEF Current, Script
    <3>2. Current \in DOMAIN desc BY <3>1 DEF desc
    <3>3. step >= 7 /\ (step # 16 => step <= 15) BY <2>4
    <3>4. QED BY <1>1, <2>1, <3>1, <3>2, <3>3
  <2>5. QED BY <2>2, <2>3, <2>4
<1>2. CASE program # "client"
  <2>1. program \in {"newer", "skewed", "alien", "large"} BY <1>2 DEF Script
  <2>2. Current \in {"get_panid", "get_sensor_addr", "get_last_temp", "open_network"}
    <3>1. CASE program = "newer"
      <4>1. step \in {1, 2, 3} BY <3>1 DEF Script
      <4>2. QED BY <3>1, <4>1 DEF Current, Script
    <3>2. CASE program \in {"skewed", "alien", "large"}
      <4>1. Len(Script[program]) = 2 BY <3>2 DEF Script
      <4>2. step \in {1, 2} BY <4>1
      <4>3. QED BY <3>2, <4>2 DEF Current, Script
    <3>3. QED BY <2>1, <3>1, <3>2
  <2>3. Current \in DOMAIN desc /\ desc[Current].req # zb_addr_t
    BY <2>2 DEF desc, EmptyReq, OpenNetworkReq, zb_addr_t
  <2>4. QED BY <1>2, <2>2, <2>3
<1>3. QED BY <1>1, <1>2

\* Every call that is made is one of AllCalls: client.cpp passes an address only when it
\* has the right one.
LEMMA CallFacts ==
  ASSUME Types, Progress, step <= Len(Script[program])
  PROVE  [api |-> Current, req |-> Argument(Current)] \in AllCalls
<1> DEFINE api == Current
<1>1. program \in DOMAIN Script /\ step \in Nat /\ step >= 1 BY DEF Types
<1>2. /\ api \in DOMAIN desc
      /\ api = "find_sensor" => program = "client" /\ step = 6
      /\ desc[api].req = zb_addr_t => program = "client" /\ step >= 7
  BY <1>1, ScriptFacts
<1> HIDE DEF api
<1>3. Argument(api) \in {<< >>, <<180>>, <<g_sensor_short>>,
                         <<0, g_sensor_short, g_sensor_ep>>, [i \in 1..65 |-> 0]}
  <2>1. CASE api = "open_network"
    <3>1. desc[api].req # zb_addr_t BY <2>1 DEF desc, OpenNetworkReq, zb_addr_t
    <3>2. Argument(api) = IF program = "large" THEN [i \in 1..65 |-> 0] ELSE <<180>>
      BY <2>1, <3>1, Zenon DEF Argument
    <3>3. QED BY <3>2, Zenon
  <2>2. CASE api = "find_sensor"
    <3>1. desc[api].req # zb_addr_t BY <2>2 DEF desc, FindSensorReq, zb_addr_t
    <3>2. Argument(api) = <<peer>> BY <2>2, <3>1, Zenon DEF Argument
    <3>3. program = "client" /\ step >= 6 BY <1>1, <1>2, <2>2
    <3>4. peer = g_sensor_short BY <3>3 DEF Progress
    <3>5. QED BY <3>2, <3>4, Zenon
  <2>3. CASE api \notin {"open_network", "find_sensor"} /\ desc[api].req = zb_addr_t
    <3>1. Argument(api) = sensor BY <2>3, Zenon DEF Argument
    <3>2. sensor = <<0, g_sensor_short, g_sensor_ep>> BY <1>2, <2>3 DEF Progress
    <3>3. QED BY <3>1, <3>2, Zenon
  <2>4. CASE api \notin {"open_network", "find_sensor"} /\ desc[api].req # zb_addr_t
    <3>1. Argument(api) = << >> BY <2>4, Zenon DEF Argument
    <3>2. QED BY <3>1, Zenon
  <2>5. QED BY <2>1, <2>2, <2>3, <2>4
<1>4. QED BY <1>2, <1>3, Zenon DEF AllCalls, api


\* A call is made: the request is all there is on its way to a server that still takes
\* requests, and no answer is on its way.
LEMMA CallStep ==
  ASSUME IInv, Call
  PROVE  IInv'
<1> USE EndFacts
<1>1. Types /\ Links /\ Counts /\ Failures /\ CallValues /\ Requests /\ Answers /\ Progress
  BY DEF IInv
<1> DEFINE api == Current
           call == [api |-> api, req |-> Argument(api)]
           frame == Frame(Magic, api_id[api], ReqStruct(api), Argument(api))
<1>2. /\ pc["client"] = "ready" /\ step <= Len(Script[program])
      /\ tx' = [tx EXCEPT !["client"] = frame] /\ asked' = Append(asked, call)
      /\ pc' = [pc EXCEPT !["client"] = "send"]
      /\ UNCHANGED <<program, fd, reset, chan, rx, hdr, step, peer, sensor, exit, executed,
                     results, sim>>
  BY DEF Call, Goto, clientVars, Current
<1>3. /\ program \in DOMAIN Script /\ step \in Nat /\ step >= 1
      /\ peer \in U16 /\ Fits(zb_addr_t, sensor)
      /\ asked \in Seq(AllCalls) /\ Len(asked) \in Nat /\ Len(executed) \in Nat
      /\ Len(results) \in Nat
  BY <1>1 DEF Types
<1>4. call \in AllCalls /\ api \in DOMAIN desc /\ call.api = api /\ call.req = Argument(api)
  BY <1>1, <1>2, <1>3, CallFacts, ScriptFacts
<1>5. Fits(ReqStruct(api), Argument(api))
  BY <1>3, <1>4, ArgumentFits
<1>6. /\ frame \in Octets /\ frame # << >>
      /\ frame = HeaderOf(Magic, api_id[api], ReqStruct(api))
                   \o Encode(ReqStruct(api), Argument(api))
  <2> DEFINE m == Magic
             i == api_id[api]
             s == ReqStruct(api)
             v == Argument(api)
  <2>1. m \in U32 BY MagicFacts
  <2>2. i \in U32 BY <1>4, IdFacts DEF U32
  <2>3. s \in Structs /\ sizeof(s) \in U32 BY <1>3, <1>4, ReqFacts
  <2>4. Fits(s, v) BY <1>5
  <2> HIDE DEF m, i, s, v
  <2>5. /\ Frame(m, i, s, v) \in Octets /\ Frame(m, i, s, v) # << >>
        /\ Frame(m, i, s, v) = HeaderOf(m, i, s) \o Encode(s, v)
    BY <2>1, <2>2, <2>3, <2>4, FrameFacts
  <2>6. QED BY <2>5 DEF m, i, s, v
<1> HIDE DEF frame, call
<1>7. /\ asked' \in Seq(AllCalls) /\ Len(asked') = Len(asked) + 1
      /\ LastCall' = call
  <2>1. asked' \in Seq(AllCalls) /\ Len(asked') = Len(asked) + 1
        /\ asked'[Len(asked) + 1] = call
    BY <1>2, <1>3, <1>4
  <2>2. QED BY <2>1 DEF LastCall
<1>8. ~Answered' BY <1>1, <1>2, <1>3, <1>7 DEF Answered, Counts
<1>9. Request' = frame
  <2>1. /\ LastCall'.api = api /\ LastCall'.req = Argument(api) BY <1>4, <1>7
  <2>2. Magic' = Magic BY <1>2 DEF Magic
  <2>3. ReqStruct(LastCall.api)' = ReqStruct(api) BY <1>2, <2>1 DEF ReqStruct
  <2>4. RequestHeader' = HeaderOf(Magic, api_id[api], ReqStruct(api))
    BY <2>1, <2>2, <2>3 DEF RequestHeader
  <2>5. RequestPayload' = Encode(ReqStruct(api), Argument(api))
    BY <2>1, <2>3 DEF RequestPayload
  <2>6. QED BY <1>6, <1>8, <2>4, <2>5 DEF Request
<1>10. Types' BY <1>1, <1>2, <1>6, <1>7 DEF Types, ClientPlaces, Waiting
<1>11. Links' BY <1>1, <1>2, <1>3 DEF Types, Links, Waiting
<1>12. Counts'
  <2>1. LastCall'.api = Current' BY <1>2, <1>4, <1>7 DEF Current, api
  <2>2. QED BY <1>1, <1>2, <1>3, <1>7, <2>1 DEF Types, Counts, Waiting, Gone, Answered
<1>13. Failures' BY <1>1, <1>2, <1>3, <1>7 DEF Types, Failures
<1>14. CallValues'
  <2>1. ReqStruct(LastCall.api)' = ReqStruct(api) BY <1>2, <1>4, <1>7 DEF ReqStruct
  <2>2. LastCall'.req = Argument(api) BY <1>4, <1>7
  <2>3. QED BY <1>5, <1>8, <2>1, <2>2 DEF CallValues
<1>15. Requests'
  <2>1. pc'["server"] = pc["server"] BY <1>1, <1>2 DEF Types
  <2>2. ASSUME pc["server"] \notin Gone
        PROVE  /\ pc["server"] \notin {"payload", "discard"}
               /\ IsPrefix(In("server")', Request')
    <3>1. Answered BY <1>1, <1>2, <2>2 DEF Counts, Waiting
    <3>2. pc["server"] \notin {"payload", "discard"}
      BY <1>1, <1>3, <3>1 DEF Requests, Answered
    <3>3. IsPrefix(In("server"), << >>) BY <1>1, <2>2, <3>1, <3>2 DEF Requests, Request
    <3>4. Taken("server") \in Octets /\ chan["server"] \in Octets /\ tx["client"] \in Octets
      BY <1>1, StreamFacts
    <3>5. Taken("server") = << >> /\ chan["server"] = << >>
      BY <3>3, <3>4, NothingThere DEF In
    <3>6. Taken("server")' = Taken("server") /\ chan'["server"] = chan["server"]
          /\ tx'["client"] = frame
      BY <1>1, <1>2, <2>1 DEF Types, Taken
    <3>7. In("server")' = (<< >> \o << >>) \o frame BY <3>5, <3>6 DEF In
    <3>8. QED BY <1>6, <1>9, <3>2, <3>7, NothingBefore
  <2>3. QED BY <2>1, <2>2 DEF Requests, Gone
<1>16. Answers'
  <2>1. pc'["client"] = "send" /\ tx'["client"] = frame /\ reset' = reset
        /\ chan' = chan /\ tx'["server"] = tx["server"] /\ pc'["server"] = pc["server"]
    BY <1>1, <1>2 DEF Types
  <2>2. CASE reset["client"] BY <1>6, <2>1, <2>2 DEF Answers
  <2>3. CASE ~reset["client"]
    <3>1. chan["client"] = << >> /\ tx["server"] = << >> BY <1>1, <1>2, <2>3 DEF Answers
    <3>2. Taken("client")' = << >> BY <2>1 DEF Taken, Reading
    <3>3. In("client")' = (<< >> \o << >>) \o << >> BY <2>1, <3>1, <3>2 DEF In
    <3>4. \E x \in Replies' : IsPrefix(In("client")', x)
      <4>1. CASE pc["server"] \in Gone
        <5>1. ErrorFrame(1) \in Replies' BY <1>8, <2>1, <4>1 DEF Replies
        <5>2. ErrorFrame(1) \in Octets BY ErrorFacts
        <5>3. QED BY <3>3, <5>1, <5>2, NothingBefore
      <4>2. CASE pc["server"] \notin Gone
        <5>1. << >> \in Replies' BY <1>8, <2>1, <4>2 DEF Replies
        <5>2. QED BY <3>3, <5>1, Empty, NothingBefore
      <4>3. QED BY <4>1, <4>2
    <3>5. QED BY <2>1, <3>4 DEF Answers
  <2>4. QED BY <2>2, <2>3
<1>17. Progress' BY <1>1, <1>2 DEF Types, Progress, NoFailure, Waiting
<1>18. QED BY <1>10, <1>11, <1>12, <1>13, <1>14, <1>15, <1>16, <1>17 DEF IInv

\* What a failed call leaves of the client: it ends with 1, or goes on where it knows the
\* addresses it needs, or with the last call.
LEMMA FailFacts ==
  ASSUME Types, Counts, pc["client"] \in Waiting, Fails
  PROVE  /\ results' = Append(results, Failed) /\ peer' = peer /\ sensor' = sensor
         /\ \/ pc' = [pc EXCEPT !["client"] = "ready"] /\ exit' = exit
            \/ pc' = [pc EXCEPT !["client"] = "leave"] /\ exit' = 1
         /\ step' \in Nat /\ step' >= 1
         /\ program = "client" => /\ step' <= 16 /\ (step' >= 6 => step >= 6)
                                  /\ (step' >= 7 => step >= 7)
<1>1. /\ program \in DOMAIN Script /\ step \in Nat /\ step >= 1
      /\ step <= Len(Script[program])
  BY DEF Types, Counts
<1>2. /\ program = "client" => Len(Script[program]) = 16
      /\ program = "client" /\ Current \in {"bind_sensor", "subscribe_sensor",
                                           "config_report", "get_last_temp"}
           => step >= 7 /\ step <= 15
  BY <1>1, ScriptFacts
<1>3. results' = Append(results, Failed) /\ peer' = peer /\ sensor' = sensor
  BY DEF Fails
<1>4. OnFailure(Current) BY DEF Fails
<1>5. CASE program # "client"
  <2>1. Proceed(step + 1)
    <3>1. program # "client" \/ Current \in {"bind_sensor", "subscribe_sensor", "config_report"}
      BY <1>5
    <3>2. ~(program = "client" /\ Current = "get_last_temp") BY <1>5
    <3>3. QED BY <1>4, <3>1, <3>2, Zenon DEF OnFailure
  <2>2. QED BY <1>1, <1>3, <1>5, <2>1 DEF Proceed, Goto
<1>6. CASE /\ program = "client"
           /\ Current \in {"bind_sensor", "subscribe_sensor", "config_report"}
  <2>1. Proceed(step + 1)
    <3>1. ~(program = "client" /\ Current = "get_last_temp") BY <1>6
    <3>2. QED BY <1>4, <1>6, <3>1, Zenon DEF OnFailure
  <2>2. QED BY <1>1, <1>2, <1>3, <1>6, <2>1 DEF Proceed, Goto
<1>7. CASE program = "client" /\ Current = "get_last_temp"
  <2>1. Proceed(Len(Script[program]))
    <3>1. ~(program # "client"
            \/ Current \in {"bind_sensor", "subscribe_sensor", "config_report"})
      BY <1>7
    <3>2. QED BY <1>4, <1>7, <3>1, Zenon DEF OnFailure
  <2>2. step' = Len(Script[program]) /\ exit' = exit /\ pc' = [pc EXCEPT !["client"] = "ready"]
    BY <2>1 DEF Proceed, Goto
  <2>3. Len(Script[program]) = 16 /\ step >= 7 BY <1>2, <1>7
  <2>4. step' \in Nat /\ step' >= 1 /\ step' <= 16 /\ step >= 6 BY <1>1, <2>2, <2>3
  <2>5. QED BY <1>3, <2>2, <2>3, <2>4
<1>8. CASE program = "client" /\ Current \notin {"bind_sensor", "subscribe_sensor",
                                                "config_report", "get_last_temp"}
  <2>1. Leave(1)
    <3>1. /\ ~(program # "client"
               \/ Current \in {"bind_sensor", "subscribe_sensor", "config_report"})
          /\ ~(program = "client" /\ Current = "get_last_temp")
      BY <1>8
    <3>2. QED BY <1>4, <3>1, Zenon DEF OnFailure
  <2>2. QED BY <1>1, <1>2, <1>3, <1>8, <2>1 DEF Leave, Goto
<1>9. QED BY <1>5, <1>6, <1>7, <1>8

\* A call fails only when the server takes no more requests and nothing of an answer is
\* left.
LEMMA FailsStep ==
  ASSUME IInv, pc["client"] \in Waiting, pc["server"] \in Gone, Fails,
         tx' \in [Ends -> Octets], tx'["client"] = << >>, tx'["server"] = tx["server"],
         UNCHANGED <<program, fd, reset, chan, rx, hdr, asked, executed, sim>>,
         reset["client"] \/ (chan["client"] = << >> /\ tx["server"] = << >>)
  PROVE  IInv'
<1> USE EndFacts
<1>1. Types /\ Links /\ Counts /\ Failures /\ CallValues /\ Requests /\ Answers /\ Progress
  BY DEF IInv
<1>2. /\ results' = Append(results, Failed) /\ peer' = peer /\ sensor' = sensor
      /\ \/ pc' = [pc EXCEPT !["client"] = "ready"] /\ exit' = exit
         \/ pc' = [pc EXCEPT !["client"] = "leave"] /\ exit' = 1
      /\ step' \in Nat /\ step' >= 1
      /\ program = "client" => /\ step' <= 16 /\ (step' >= 6 => step >= 6)
                               /\ (step' >= 7 => step >= 7)
  BY <1>1, FailFacts
<1>3. /\ results \in Seq(Seq(Int)) /\ Len(results) \in Nat /\ Failed \in Seq(Int)
      /\ Len(asked) \in Nat /\ Len(executed) \in Nat
  BY <1>1 DEF Types, Failed
<1>4. /\ results' \in Seq(Seq(Int)) /\ Len(results') = Len(results) + 1
      /\ \A i \in 1..Len(results) : results'[i] = results[i]
      /\ results'[Len(results) + 1] = Failed
  BY <1>2, <1>3
<1>5. /\ pc'["client"] \in {"ready", "leave"} /\ pc'["server"] = pc["server"]
      /\ pc' \in [Ends -> ClientPlaces \cup ServerPlaces]
  BY <1>1, <1>2 DEF Types, ClientPlaces
<1>6. Len(asked) = Len(results) + 1 BY <1>1 DEF Counts
<1>7. Types' BY <1>1, <1>2, <1>4, <1>5 DEF Types, ClientPlaces
<1>8. Links' BY <1>1, <1>5 DEF Types, Links, Waiting
<1>9. Counts' BY <1>1, <1>3, <1>4, <1>5, <1>6 DEF Counts, Waiting
<1>10. Failures'
  <2> SUFFICES ASSUME NEW i \in 1..Len(results'), results'[i] = Failed
               PROVE  Len(executed) <= i
    BY <1>5 DEF Failures
  <2>1. CASE i \in 1..Len(results) BY <1>1, <1>4, <2>1 DEF Failures
  <2>2. CASE i = Len(results) + 1 BY <1>1, <1>6, <2>2 DEF Counts
  <2>3. QED BY <1>3, <1>4, <2>1, <2>2
<1>11. CallValues' BY <1>1 DEF CallValues, LastCall, LastValue, Answered, ReqStruct
<1>12. Requests' BY <1>5, RequestsDropped
<1>13. Answers' BY <1>5 DEF Answers
<1>14. Progress'
  <2>1. ~NoFailure'
    <3>1. Len(results) + 1 \in 1..Len(results') BY <1>3, <1>4
    <3>2. QED BY <1>4, <3>1 DEF NoFailure
  <2>2. exit # 0 BY <1>1 DEF Progress, Waiting
  <2>3. exit' # 0 BY <1>2, <2>2
  <2>4. program = "client" =>
          /\ step' <= 17 /\ step' <= 16
          /\ step' >= 6 => peer' = g_sensor_short
          /\ step' >= 7 => sensor' = <<0, g_sensor_short, g_sensor_ep>>
    BY <1>1, <1>2 DEF Progress
  <2>5. QED BY <2>1, <2>3, <2>4, Zenon DEF Progress
<1>15. QED BY <1>7, <1>8, <1>9, <1>10, <1>11, <1>12, <1>13, <1>14 DEF IInv

\* The server's error has been read.
LEMMA DroppedStep ==
  ASSUME IInv, ClientDropped
  PROVE  IInv'
<1> USE EndFacts
<1>1. Types /\ Links /\ Counts /\ CallValues /\ Answers
  BY DEF IInv
<1>2. pc["client"] = "error" BY <1>1 DEF ClientDropped, Types, ClientPlaces, Waiting
<1>3. Len(rx["client"]) = hdr["client"].size BY <1>2 DEF ClientDropped, HasRead, Wanted
<1>4. PICK code \in 1..4 : IsPrefix(In("client"), Encode(ErrorResp, <<code>>))
  BY <1>1, <1>2 DEF Answers
<1>5. hdr["client"].size = sizeof(ErrorResp) /\ pc["server"] \in Gone
  BY <1>1, <1>2 DEF Answers
<1> DEFINE x == Encode(ErrorResp, <<code>>)
<1>6. x \in Octets /\ Len(x) = 4 BY ErrorFacts
<1>7. Len(rx["client"]) = Len(x) BY <1>3, <1>5, <1>6, SizesAssumption
<1>8. In("client") = (rx["client"] \o chan["client"]) \o tx["server"]
  BY <1>2 DEF In, Taken, Reading
<1>9. IsPrefix((rx["client"] \o chan["client"]) \o tx["server"], x) BY <1>4, <1>8
<1> HIDE DEF x
<1>10. chan["client"] = << >> /\ tx["server"] = << >>
  <2>1. rx["client"] \in Octets /\ chan["client"] \in Octets /\ tx["server"] \in Octets
    BY <1>1 DEF Types
  <2>2. QED BY <1>6, <1>7, <1>9, <2>1, AllOfIt
<1>11. tx["client"] = << >> /\ tx \in [Ends -> Octets] BY <1>1, <1>2 DEF Links, Types
<1>12. Fails /\ UNCHANGED <<program, fd, reset, chan, tx, rx, hdr, asked, executed, sim>>
  BY DEF ClientDropped, engineVars
<1>13. QED BY <1>2, <1>5, <1>10, <1>11, <1>12, FailsStep DEF Waiting

\* The client meets the end of the stream.
LEMMA ClientReadFailsStep ==
  ASSUME IInv, ClientReadFails
  PROVE  IInv'
<1> USE EndFacts
<1>1. Types /\ Links BY DEF IInv
<1>2. pc["client"] \in Reading /\ chan["client"] = << >> /\ fd["server"] = "closed"
  BY DEF ClientReadFails, ReadFails
<1>3. pc["client"] \in Waiting /\ pc["client"] # "send"
  BY <1>1, <1>2 DEF Types, ClientPlaces, Waiting, Reading
<1>4. pc["server"] \in {"done", "killed"} BY <1>1, <1>2 DEF Links
<1>5. tx["client"] = << >> /\ tx["server"] = << >> /\ tx \in [Ends -> Octets]
  BY <1>1, <1>3, <1>4 DEF Links, Types
<1>6. Fails /\ UNCHANGED <<program, fd, reset, chan, tx, rx, hdr, asked, executed, sim>>
  BY DEF ClientReadFails, engineVars
<1>7. pc["server"] \in Gone BY <1>4 DEF Gone
<1>8. QED BY <1>2, <1>3, <1>5, <1>6, <1>7, FailsStep

\* The client cannot write.
LEMMA ClientWriteFailsStep ==
  ASSUME IInv, ClientWriteFails
  PROVE  IInv'
<1> USE EndFacts
<1>1. Types /\ Links BY DEF IInv
<1>2. pc["client"] = "send" /\ reset["client"] BY DEF ClientWriteFails
<1>3. pc["server"] \in Gone BY <1>1, <1>2 DEF Links, Gone
<1>4. tx' \in [Ends -> Octets] /\ tx'["client"] = << >> /\ tx'["server"] = tx["server"]
  BY <1>1, Empty DEF ClientWriteFails, Types
<1>5. Fails /\ UNCHANGED <<program, fd, reset, chan, rx, hdr, asked, executed, sim>>
  BY DEF ClientWriteFails
<1>6. QED BY <1>2, <1>3, <1>4, <1>5, FailsStep DEF Waiting

\* A value a struct can hold is a sequence of numbers, one for each field.
LEMMA FitsFacts ==
  ASSUME NEW s \in Structs, NEW v, Fits(s, v)
  PROVE  v \in Seq(Int) /\ Len(v) = Len(s)
<1>1. Len(s) \in Nat /\ DOMAIN s = 1..Len(s) BY FieldSizes
<1>2. \A i \in 1..Len(s) : s[i] \in DOMAIN SizeOfKind BY DEF Structs
<1>3. \A k \in DOMAIN SizeOfKind : Values[k] \subseteq Int
  BY DEF SizeOfKind, Values, U8, U16, U32, I16, I32
<1>4. \A i \in 1..Len(s) : v[i] \in Int BY <1>1, <1>2, <1>3 DEF Fits
<1>5. v \in [1..Len(s) -> Int] BY <1>1, <1>4 DEF Fits
<1>6. QED BY <1>1, <1>5

\* A request is refused: the error is all there is on its way to the client.
LEMMA RefuseStep ==
  ASSUME IInv, pc["server"] \in {"header", "discard"}, ~Answered,
         NEW code \in 1..4, Refuse(code),
         rx' \in [Ends -> Octets], rx'["client"] = rx["client"],
         hdr' \in [Ends -> [id : Int, size : Int]], hdr'["client"] = hdr["client"],
         UNCHANGED <<program, fd, reset, chan, clientVars, asked, executed, results, sim>>
  PROVE  IInv'
<1> USE EndFacts
<1>1. Types /\ Links /\ Counts /\ Failures /\ CallValues /\ Requests /\ Answers /\ Progress
  BY DEF IInv
<1>2. UNCHANGED <<step, peer, sensor, exit>> BY DEF clientVars
<1>3. ErrorFrame(code) \in Octets BY ErrorFacts
<1>4. /\ pc'["server"] = "refuse" /\ pc'["client"] = pc["client"]
      /\ pc' \in [Ends -> ClientPlaces \cup ServerPlaces]
      /\ tx'["server"] = ErrorFrame(code) /\ tx'["client"] = tx["client"]
      /\ tx' \in [Ends -> Octets]
  BY <1>1, <1>3 DEF Refuse, Goto, Types, ServerPlaces, Gone
<1>5. pc["server"] \notin Gone BY DEF Gone
<1>6. pc["client"] \in Waiting \cup {"killed"} BY <1>1, <1>5 DEF Counts
<1>7. Types' BY <1>1, <1>2, <1>4 DEF Types, ServerPlaces, Gone
<1>8. Links' BY <1>1, <1>4 DEF Links, Waiting
<1>9. Counts' /\ Failures'
  BY <1>1, <1>2, <1>4 DEF Counts, Failures, Waiting, Gone, Answered, LastCall, Current
<1>10. CallValues' BY <1>1 DEF CallValues, LastCall, LastValue, Answered, ReqStruct
<1>11. Requests' BY <1>4, RequestsDropped DEF Gone
<1>12. Answers'
  <2>1. Replies = {<< >>} BY <1>5 DEF Replies
  <2>2. ErrorFrame(code) \in Replies'
    <3>1. ~Answered' BY DEF Answered
    <3>2. QED BY <1>4, <3>1 DEF Replies, Gone
  <2>3. ASSUME \E x \in Replies : IsPrefix(In("client"), x)
        PROVE  \E x \in Replies' : IsPrefix(In("client")', x)
    <3>1. IsPrefix((Taken("client") \o chan["client"]) \o tx["server"], << >>)
      BY <2>1, <2>3 DEF In
    <3>2. Taken("client") \in Octets /\ chan["client"] \in Octets /\ tx["server"] \in Octets
      BY <1>1, StreamFacts
    <3>3. Taken("client") = << >> /\ chan["client"] = << >>
      BY <3>1, <3>2, NothingThere
    <3>4. Taken("client")' = Taken("client") BY <1>4 DEF Taken
    <3>5. In("client")' = (<< >> \o << >>) \o ErrorFrame(code) BY <1>4, <3>3, <3>4 DEF In
    <3>6. IsPrefix(In("client")', ErrorFrame(code)) BY <1>3, <3>5, NothingBefore
    <3>7. QED BY <2>2, <3>6
  <2>4. pc["client"] \notin {"payload", "error", "start", "ready"}
    BY <1>1, <1>5, <1>6 DEF Answers, Waiting
  <2>5. pc["client"] = "header" => \E x \in Replies' : IsPrefix(In("client")', x)
    BY <1>1, <2>3 DEF Answers
  <2>6. pc["client"] = "send" => \/ reset["client"] /\ tx["client"] # << >>
                                \/ \E x \in Replies' : IsPrefix(In("client")', x)
    BY <1>1, <2>3 DEF Answers
  <2>7. QED BY <1>4, <2>4, <2>5, <2>6 DEF Answers
<1>13. Progress' BY <1>1, <1>2, <1>4 DEF Progress, NoFailure
<1>14. QED BY <1>7, <1>8, <1>9, <1>10, <1>11, <1>12, <1>13 DEF IInv

\* The header the server has read is that of the last request, and what follows it is the
\* payload of that request.
LEMMA ServerHeaderFacts ==
  ASSUME Types, Counts, CallValues, Requests, pc["server"] = "header", HasRead("server")
  PROVE  /\ ~Answered /\ Len(asked) > 0
         /\ Received("server")
              = <<Magic, api_id[LastCall.api], sizeof(ReqStruct(LastCall.api))>>
         /\ IsPrefix((<< >> \o chan["server"]) \o tx["client"], RequestPayload)
<1> USE EndFacts
<1>1. Len(rx["server"]) = 12 BY SizesAssumption DEF HasRead, Wanted, HeaderSize
<1>2. /\ rx["server"] \in Octets /\ chan["server"] \in Octets /\ tx["client"] \in Octets
      /\ ~Answered => Len(asked) > 0
  BY StreamFacts
<1>3. In("server") = (rx["server"] \o chan["server"]) \o tx["client"]
  BY DEF In, Taken, Reading
<1>4. IsPrefix((rx["server"] \o chan["server"]) \o tx["client"], Request)
  BY <1>3 DEF Requests, Gone
<1>5. ~Answered
  <2> SUFFICES ASSUME Answered PROVE FALSE OBVIOUS
  <2>1. Request = << >> BY DEF Request
  <2>2. rx["server"] = << >> BY <1>2, <1>4, <2>1, NothingThere
  <2>3. QED BY <1>1, <2>2, Empty
<1>6. Len(asked) > 0 BY <1>2, <1>5
<1>7. /\ RequestHeader \in Octets /\ Len(RequestHeader) = 12 /\ RequestPayload \in Octets
      /\ Decode(WireHeader, RequestHeader)
           = <<Magic, api_id[LastCall.api], sizeof(ReqStruct(LastCall.api))>>
  BY <1>6, LastFacts
<1>8. IsPrefix((rx["server"] \o chan["server"]) \o tx["client"],
               RequestHeader \o RequestPayload)
  BY <1>4, <1>5 DEF Request
<1>9. Len(rx["server"]) = Len(RequestHeader) BY <1>1, <1>7
<1>10. /\ rx["server"] = RequestHeader
       /\ IsPrefix((<< >> \o chan["server"]) \o tx["client"], RequestPayload)
  BY <1>2, <1>7, <1>8, <1>9, FirstPart
<1>11. QED BY <1>5, <1>6, <1>7, <1>10 DEF Received

\* The server looks at the header of a request: it refuses it, or goes on to read the
\* payload, of an API it does not know or of one whose struct it knows.
LEMMA ServerHeaderStep ==
  ASSUME IInv, ServerHeader
  PROVE  IInv'
<1> USE EndFacts
<1>1. Types /\ Links /\ Counts /\ Failures /\ CallValues /\ Requests /\ Answers /\ Progress
  BY DEF IInv
<1>2. pc["server"] = "header" /\ HasRead("server") BY DEF ServerHeader
<1> DEFINE api == LastCall.api
           id == Received("server")[2]
           size == Received("server")[3]
           error == HeaderError("server")
<1>3. /\ ~Answered /\ Len(asked) > 0
      /\ Received("server") = <<Magic, api_id[api], sizeof(ReqStruct(api))>>
      /\ IsPrefix((<< >> \o chan["server"]) \o tx["client"], RequestPayload)
  BY <1>1, <1>2, ServerHeaderFacts
<1>4. id = api_id[api] /\ size = sizeof(ReqStruct(api)) BY <1>3
<1>5. api \in DOMAIN desc /\ program \in DOMAIN Script BY <1>1, <1>3, LastFacts DEF Types
<1>6. id \in 1..13 /\ size \in Int
  <2>1. sizeof(ReqStruct(api)) \in U32 BY <1>5, ReqFacts
  <2>2. QED BY <1>4, <1>5, <2>1, IdFacts DEF U32
<1>7. /\ hdr' = [hdr EXCEPT !["server"] = [id |-> id, size |-> size]]
      /\ rx' = [rx EXCEPT !["server"] = << >>]
      /\ UNCHANGED <<program, fd, reset, chan, clientVars, asked, executed, results, sim>>
  BY DEF ServerHeader, StartRead
<1>8. /\ rx' \in [Ends -> Octets] /\ rx'["client"] = rx["client"] /\ rx'["server"] = << >>
      /\ hdr' \in [Ends -> [id : Int, size : Int]] /\ hdr'["client"] = hdr["client"]
      /\ hdr'["server"].id = id /\ hdr'["server"].size = size
  <2> HIDE DEF id, size
  <2>1. [id |-> id, size |-> size] \in [id : Int, size : Int] BY <1>6
  <2>2. QED BY <1>1, <1>7, <2>1, Empty DEF Types
<1>9. \/ \E code \in 1..4 : Refuse(code)
      \/ /\ \/ pc' = [pc EXCEPT !["server"] = "discard"]
            \/ /\ pc' = [pc EXCEPT !["server"] = "payload"]
               /\ api \in Handlers /\ ReqStruct(api) = desc[api].req
         /\ tx' = tx
  <2>1. HandlerOf(id) = IF api \in Handlers THEN {api} ELSE {}
    BY <1>4, <1>5, HandlerFacts
  <2>2. size = sizeof(desc[api].req) => ReqStruct(api) = desc[api].req
    BY <1>4, <1>5, ReqFacts
  <2>3. error # error_code.none => error \in 1..4
    BY DEF HeaderError, error_code
  <2>4. id # api_id.error BY <1>6 DEF api_id
  <2>5. error_code.payload_mismatch \in 1..4 BY DEF error_code
  <2>6. IF error # error_code.none THEN Refuse(error)
        ELSE IF id = api_id.error THEN Goto("server", "close") /\ UNCHANGED tx
        ELSE IF HandlerOf(id) = {} THEN Goto("server", "discard") /\ UNCHANGED tx
        ELSE IF \A a \in HandlerOf(id) : size = sizeof(desc[a].req)
             THEN Goto("server", "payload") /\ UNCHANGED tx
        ELSE Refuse(error_code.payload_mismatch)
    BY DEF ServerHeader
  <2> HIDE DEF id, size, error, api
  <2>7. CASE error # error_code.none BY <2>3, <2>6, <2>7
  <2>8. CASE error = error_code.none /\ HandlerOf(id) = {} BY <2>4, <2>6, <2>8 DEF Goto
  <2>9. CASE error = error_code.none /\ HandlerOf(id) # {}
    <3>1. HandlerOf(id) = {api} /\ api \in Handlers BY <2>1, <2>9
    <3>2. CASE size = sizeof(desc[api].req)
      BY <2>2, <2>4, <2>6, <2>9, <3>1, <3>2 DEF Goto
    <3>3. CASE size # sizeof(desc[api].req)
      BY <2>4, <2>5, <2>6, <2>9, <3>1, <3>3
    <3>4. QED BY <3>2, <3>3
  <2>10. QED BY <2>7, <2>8, <2>9
<1> HIDE DEF id, size, error
<1>10. CASE \E code \in 1..4 : Refuse(code)
  <2>1. PICK code \in 1..4 : Refuse(code) BY <1>10
  <2>2. QED BY <1>2, <1>3, <1>7, <1>8, <2>1, RefuseStep
<1>11. CASE /\ \/ pc' = [pc EXCEPT !["server"] = "discard"]
               \/ /\ pc' = [pc EXCEPT !["server"] = "payload"]
                  /\ api \in Handlers /\ ReqStruct(api) = desc[api].req
            /\ tx' = tx
  <2>1. UNCHANGED <<step, peer, sensor, exit>> BY <1>7 DEF clientVars
  <2>2. /\ pc'["client"] = pc["client"] /\ pc' \in [Ends -> ClientPlaces \cup ServerPlaces]
        /\ \/ pc'["server"] = "discard"
           \/ /\ pc'["server"] = "payload" /\ api \in Handlers
              /\ ReqStruct(api) = desc[api].req
    BY <1>1, <1>11 DEF Types, ServerPlaces
  <2>3. Types' BY <1>1, <1>7, <1>8, <1>11, <2>1, <2>2 DEF Types, ServerPlaces
  <2>4. Links' BY <1>1, <1>2, <1>7, <1>11, <2>2 DEF Links, Waiting
  <2>5. Counts' /\ Failures'
    BY <1>1, <1>2, <1>7, <2>1, <2>2
    DEF Counts, Failures, Waiting, Gone, Answered, LastCall, Current
  <2>6. CallValues' BY <1>1, <1>7 DEF CallValues, LastCall, LastValue, Answered, ReqStruct
  <2>7. Requests'
    <3>1. /\ RequestPayload' = RequestPayload /\ LastCall' = LastCall
          /\ ReqStruct(LastCall.api)' = ReqStruct(LastCall.api)
      BY <1>7 DEF RequestPayload, LastCall, ReqStruct
    <3>2. In("server")' = (<< >> \o chan["server"]) \o tx["client"]
      BY <1>7, <1>8, <1>11, <2>2 DEF In, Taken, Reading
    <3>3. Len(executed) < Len(asked)
      <4>1. Len(executed) \in Nat /\ Len(asked) \in Nat BY <1>1 DEF Types
      <4>2. QED BY <1>1, <1>3, <4>1 DEF Counts, Answered
    <3>4. QED BY <1>3, <1>4, <1>7, <1>8, <2>2, <3>1, <3>2, <3>3 DEF Requests, Gone
  <2>8. Answers'
    <3>1. In("client")' = In("client") BY <1>7, <1>8, <1>11, <2>2 DEF In, Taken
    <3>2. QED BY <1>1, <1>2, <1>7, <1>8, <1>11, <2>2, <3>1, AnswersKept DEF Gone
  <2>9. Progress' BY <1>1, <1>7, <2>1, <2>2 DEF Progress, NoFailure
  <2>10. QED BY <2>3, <2>4, <2>5, <2>6, <2>7, <2>8, <2>9 DEF IInv
<1>12. QED BY <1>9, <1>10, <1>11

\* A request for an API the server does not know has been read.
LEMMA DiscardedStep ==
  ASSUME IInv, ServerDiscarded
  PROVE  IInv'
<1>1. Types /\ Requests BY DEF IInv
<1>2. pc["server"] = "discard" /\ Refuse(error_code.unknown_api) BY DEF ServerDiscarded
<1>3. ~Answered
  <2>1. Len(executed) < Len(asked) /\ Len(executed) \in Nat /\ Len(asked) \in Nat
    BY <1>1, <1>2 DEF Requests, Types
  <2>2. QED BY <2>1 DEF Answered
<1>4. error_code.unknown_api \in 1..4 BY DEF error_code
<1>5. /\ rx' \in [Ends -> Octets] /\ rx'["client"] = rx["client"]
      /\ hdr' \in [Ends -> [id : Int, size : Int]] /\ hdr'["client"] = hdr["client"]
      /\ UNCHANGED <<program, fd, reset, chan, clientVars, asked, executed, results, sim>>
  BY <1>1 DEF ServerDiscarded, Types
<1>6. QED BY <1>2, <1>3, <1>4, <1>5, RefuseStep

\* The request the server has read is the last one that was made, and all there is on its
\* way; its function is called for the first time.
LEMMA InvokeFacts ==
  ASSUME IInv, ServerInvokes
  PROVE  /\ Len(asked) > 0 /\ Len(executed) + 1 = Len(asked)
         /\ LastCall.api \in Handlers /\ Fits(desc[LastCall.api].req, LastCall.req)
         /\ LastCall = [api |-> LastCall.api, req |-> LastCall.req]
         /\ executed' = Append(executed, Serve(sim, LastCall).value)
         /\ sim' = Serve(sim, LastCall).service
         /\ tx' = [tx EXCEPT !["server"] =
                     Frame(k_magic, api_id[LastCall.api], desc[LastCall.api].resp,
                           Serve(sim, LastCall).value)]
         /\ chan["server"] = << >> /\ tx["client"] = << >>
<1> USE EndFacts
<1>1. Types /\ Counts /\ CallValues /\ Requests BY DEF IInv
<1>2. pc["server"] = "payload" /\ HasRead("server") BY DEF ServerInvokes
<1> DEFINE api == LastCall.api
           req == LastCall.req
           id == hdr["server"].id
           r == rx["server"]
<1>3. /\ Len(executed) < Len(asked) /\ id = api_id[api]
      /\ hdr["server"].size = sizeof(ReqStruct(api))
      /\ IsPrefix(In("server"), RequestPayload)
      /\ api \in Handlers /\ ReqStruct(api) = desc[api].req
  BY <1>1, <1>2 DEF Requests
<1>4. Len(asked) > 0 /\ Len(executed) + 1 = Len(asked)
  <2>1. Len(executed) \in Nat /\ Len(asked) \in Nat BY <1>1 DEF Types
  <2>2. Len(asked) <= Len(executed) + 1 BY <1>1, <1>2 DEF Counts, Gone
  <2>3. QED BY <1>3, <2>1, <2>2
<1>5. /\ LastCall \in AllCalls /\ api \in DOMAIN desc
      /\ RequestPayload \in Octets /\ Len(RequestPayload) = sizeof(ReqStruct(api))
      /\ Decode(ReqStruct(api), RequestPayload) = req
  BY <1>1, <1>4, LastFacts
<1>6. LastCall = [api |-> api, req |-> req] BY <1>5 DEF AllCalls
<1>7. Fits(desc[api].req, req) BY <1>1, <1>3, <1>4 DEF CallValues
<1>8. /\ r \in Octets /\ chan["server"] \in Octets /\ tx["client"] \in Octets
  BY <1>1 DEF Types
<1>9. Len(r) = Len(RequestPayload) BY <1>2, <1>3, <1>5 DEF HasRead, Wanted
<1>10. In("server") = (r \o chan["server"]) \o tx["client"]
  BY <1>2 DEF In, Taken, Reading
<1>11. IsPrefix((r \o chan["server"]) \o tx["client"], RequestPayload) BY <1>3, <1>10
<1>12. r = RequestPayload /\ chan["server"] = << >> /\ tx["client"] = << >>
  BY <1>5, <1>8, <1>9, <1>11, AllOfIt
<1>13. Decode(desc[api].req, r) = req BY <1>3, <1>5, <1>12
<1>14. HandlerOf(id) = {api} BY <1>3, <1>5, HandlerFacts
<1>15. PICK a \in HandlerOf(id) :
         LET served == Serve(sim, [api |-> a, req |-> Decode(desc[a].req, r)])
         IN /\ executed' = Append(executed, served.value)
            /\ sim' = served.service
            /\ tx' = [tx EXCEPT !["server"] =
                        Frame(k_magic, api_id[a], desc[a].resp, served.value)]
  BY DEF ServerInvokes
<1>16. a = api BY <1>14
<1> HIDE DEF api, req, id, r
<1>17. [api |-> a, req |-> Decode(desc[a].req, r)] = LastCall BY <1>6, <1>13, <1>16
<1>18. /\ executed' = Append(executed, Serve(sim, LastCall).value)
       /\ sim' = Serve(sim, LastCall).service
       /\ tx' = [tx EXCEPT !["server"] =
                   Frame(k_magic, api_id[api], desc[api].resp, Serve(sim, LastCall).value)]
  BY <1>15, <1>16, <1>17, Zenon
<1>19. QED BY <1>3, <1>4, <1>6, <1>7, <1>12, <1>18 DEF api, req

\* The server calls the function: the response is all there is on its way to the client.
LEMMA InvokesStep ==
  ASSUME IInv, ServerInvokes
  PROVE  IInv'
<1> USE EndFacts
<1>1. Types /\ Links /\ Counts /\ Failures /\ CallValues /\ Requests /\ Answers /\ Progress
  BY DEF IInv
<1>2. /\ pc["server"] = "payload" /\ pc' = [pc EXCEPT !["server"] = "respond"]
      /\ UNCHANGED <<program, fd, reset, chan, rx, hdr, step, peer, sensor, exit, asked,
                     results>>
  BY DEF ServerInvokes, Goto, clientVars
<1> DEFINE api == LastCall.api
           value == Serve(sim, LastCall).value
           resp == desc[api].resp
           id == api_id[api]
           frame == Frame(k_magic, id, resp, value)
<1>3. /\ Len(asked) > 0 /\ Len(executed) + 1 = Len(asked)
      /\ api \in Handlers /\ Fits(desc[api].req, LastCall.req)
      /\ LastCall = [api |-> api, req |-> LastCall.req]
      /\ executed' = Append(executed, value) /\ sim' = Serve(sim, LastCall).service
      /\ tx' = [tx EXCEPT !["server"] = frame]
      /\ chan["server"] = << >> /\ tx["client"] = << >>
  BY InvokeFacts
<1>4. Computed(api, value) /\ sim' \in Sims
  <2> DEFINE req == LastCall.req
  <2>1. sim \in Sims BY <1>1 DEF Types
  <2>2. Fits(desc[api].req, req) /\ LastCall = [api |-> api, req |-> req] BY <1>3
  <2> HIDE DEF api, req
  <2>3. /\ Computed(api, Serve(sim, [api |-> api, req |-> req]).value)
        /\ Serve(sim, [api |-> api, req |-> req]).service \in Sims
    BY <1>3, <2>1, <2>2, ServeFacts
  <2>4. QED BY <1>3, <2>2, <2>3
<1>5. Fits(resp, value) BY <1>4 DEF Computed
<1>6. api \in DOMAIN desc BY <1>3, IdFacts
<1>7. resp \in Structs /\ sizeof(resp) <= 64 BY <1>6, CatalogFacts
<1>8. id \in U32 BY <1>6, IdFacts DEF U32
<1> HIDE DEF api, value, resp, id
<1>9. value \in Seq(Int) BY <1>5, <1>7, FitsFacts
<1>10. /\ frame \in Octets /\ frame = HeaderOf(k_magic, id, resp) \o Encode(resp, value)
  <2> DEFINE m == k_magic
  <2>1. m \in U32 BY DEF k_magic, U32
  <2>2. sizeof(resp) \in U32 BY <1>7, SizeFacts DEF U32
  <2> HIDE DEF m
  <2>3. /\ Frame(m, id, resp, value) \in Octets
        /\ Frame(m, id, resp, value) = HeaderOf(m, id, resp) \o Encode(resp, value)
    BY <1>5, <1>7, <1>8, <2>1, <2>2, FrameFacts
  <2>4. QED BY <2>3 DEF m
<1> HIDE DEF frame
<1>11. /\ pc'["server"] = "respond" /\ pc'["client"] = pc["client"]
       /\ pc' \in [Ends -> ClientPlaces \cup ServerPlaces]
       /\ tx'["server"] = frame /\ tx'["client"] = << >> /\ tx' \in [Ends -> Octets]
  BY <1>1, <1>2, <1>3, <1>10 DEF Types, ServerPlaces
<1>12. /\ executed \in Seq(Seq(Int)) /\ Len(executed) \in Nat /\ Len(asked) \in Nat
       /\ Len(results) \in Nat
  BY <1>1 DEF Types
<1>13. /\ executed' \in Seq(Seq(Int)) /\ Len(executed') = Len(asked)
       /\ executed'[Len(asked)] = value
  BY <1>3, <1>9, <1>12
<1>14. /\ ~Answered /\ Answered' /\ LastCall' = LastCall /\ LastValue' = value
       /\ ReqStruct(LastCall.api)' = ReqStruct(LastCall.api)
  <2>1. ~Answered BY <1>3, <1>12 DEF Answered
  <2>2. Answered' BY <1>2, <1>13 DEF Answered
  <2>3. QED BY <1>2, <1>13, <2>1, <2>2 DEF LastCall, LastValue, ReqStruct
<1>15. pc["server"] \notin Gone BY <1>2 DEF Gone
<1>16. Types' BY <1>1, <1>2, <1>4, <1>11, <1>13 DEF Types, ServerPlaces
<1>17. Links' BY <1>1, <1>2, <1>11 DEF Links, Waiting
<1>18. Counts'
  BY <1>1, <1>2, <1>3, <1>11, <1>12, <1>13, <1>14 DEF Counts, Current
<1>19. Failures'
  <2> SUFFICES ASSUME NEW i \in 1..Len(results), results[i] = Failed
               PROVE  ~(i < Len(asked) \/ pc["client"] # "killed") /\ Len(asked) <= i
    BY <1>2, <1>11, <1>13 DEF Failures
  <2>1. ~(i < Len(asked) \/ pc["client"] # "killed") BY <1>1, <1>15 DEF Failures
  <2>2. QED BY <1>12, <2>1
<1>20. CallValues'
  <2>1. Computed(LastCall'.api, LastValue') BY <1>4, <1>14 DEF api
  <2>2. Fits(ReqStruct(LastCall.api), LastCall.req) BY <1>1, <1>3 DEF CallValues
  <2>3. QED BY <1>14, <2>1, <2>2 DEF CallValues
<1>21. Requests'
  <2>1. Request' = << >> BY <1>14 DEF Request
  <2>2. In("server")' = (<< >> \o << >>) \o << >>
    BY <1>2, <1>3, <1>11 DEF In, Taken, Reading
  <2>3. IsPrefix(In("server")', Request') BY <2>1, <2>2, Empty, NothingBefore
  <2>4. QED BY <1>11, <2>3 DEF Requests
<1>22. Answers'
  <2>1. Replies = {<< >>} BY <1>14, <1>15 DEF Replies
  <2>2. frame \in Replies'
    <3>1. ReplyHeader' \o ReplyPayload' = frame
      BY <1>10, <1>14 DEF ReplyHeader, ReplyPayload, id, resp, api
    <3>2. QED BY <1>14, <3>1 DEF Replies
  <2>3. ASSUME \E x \in Replies : IsPrefix(In("client"), x)
        PROVE  \E x \in Replies' : IsPrefix(In("client")', x)
    <3>1. IsPrefix((Taken("client") \o chan["client"]) \o tx["server"], << >>)
      BY <2>1, <2>3 DEF In
    <3>2. Taken("client") \in Octets /\ chan["client"] \in Octets /\ tx["server"] \in Octets
      BY <1>1, StreamFacts
    <3>3. Taken("client") = << >> /\ chan["client"] = << >>
      BY <3>1, <3>2, NothingThere
    <3>4. Taken("client")' = Taken("client") BY <1>2, <1>11 DEF Taken
    <3>5. In("client")' = (<< >> \o << >>) \o frame BY <1>2, <1>11, <3>3, <3>4 DEF In
    <3>6. IsPrefix(In("client")', frame) BY <1>10, <3>5, NothingBefore
    <3>7. QED BY <2>2, <3>6
  <2>4. pc["client"] \in Waiting \cup {"killed"} BY <1>1, <1>14, <1>15 DEF Counts
  <2>5. pc["client"] \notin {"payload", "error", "start", "ready"}
    BY <1>1, <1>14, <1>15, <2>4 DEF Answers, Waiting
  <2>6. pc["client"] \in {"header", "send"} => \E x \in Replies' : IsPrefix(In("client")', x)
    BY <1>1, <1>3, <2>3 DEF Answers
  <2>7. QED BY <1>11, <2>5, <2>6 DEF Answers
<1>23. Progress' BY <1>1, <1>2, <1>11 DEF Progress, NoFailure
<1>24. QED BY <1>16, <1>17, <1>18, <1>19, <1>20, <1>21, <1>22, <1>23 DEF IInv

\* The header the client has read is that of the answer to its last call or of an error,
\* and what follows it is the payload of the same frame.
LEMMA ClientHeaderFacts ==
  ASSUME Types, Counts, CallValues, Answers, pc["client"] = "header", HasRead("client")
  PROVE  /\ Current = LastCall.api /\ Current \in DOMAIN desc
         /\ \/ /\ Answered
               /\ Received("client") = <<k_magic, api_id[Current], sizeof(desc[Current].resp)>>
               /\ IsPrefix((<< >> \o chan["client"]) \o tx["server"], ReplyPayload)
            \/ /\ pc["server"] \in Gone
               /\ Received("client") = <<k_magic, 0, 4>>
               /\ \E code \in 1..4 : IsPrefix((<< >> \o chan["client"]) \o tx["server"],
                                              Encode(ErrorResp, <<code>>))
<1> USE EndFacts
<1> DEFINE r == rx["client"]
           c == chan["client"]
           t == tx["server"]
<1>1. Len(r) = 12 BY SizesAssumption DEF HasRead, Wanted, HeaderSize
<1>2. r \in Octets /\ c \in Octets /\ t \in Octets BY DEF Types
<1>3. In("client") = (r \o c) \o t BY DEF In, Taken, Reading
<1>4. PICK x \in Replies : IsPrefix((r \o c) \o t, x) BY <1>3 DEF Answers
<1>5. Len(asked) > 0 /\ Current = LastCall.api
  <2>1. Len(results) \in Nat BY DEF Types
  <2>2. Len(asked) = Len(results) + 1 /\ Current = LastCall.api BY DEF Counts, Waiting
  <2>3. QED BY <2>1, <2>2
<1>6. Current \in DOMAIN desc BY <1>5, LastFacts
<1>7. Received("client") = Decode(WireHeader, r) BY DEF Received
<1> HIDE DEF r, c, t
<1>8. CASE Answered
  <2>1. /\ ReplyHeader \in Octets /\ Len(ReplyHeader) = 12 /\ ReplyPayload \in Octets
        /\ Decode(WireHeader, ReplyHeader)
             = <<k_magic, api_id[LastCall.api], sizeof(desc[LastCall.api].resp)>>
    BY <1>5, <1>8, LastFacts
  <2>2. x = ReplyHeader \o ReplyPayload BY <1>4, <1>8 DEF Replies
  <2>3. Len(r) = Len(ReplyHeader) BY <1>1, <2>1
  <2>4. IsPrefix((r \o c) \o t, ReplyHeader \o ReplyPayload) BY <1>4, <2>2
  <2>5. r = ReplyHeader /\ IsPrefix((<< >> \o c) \o t, ReplyPayload)
    BY <1>2, <2>1, <2>3, <2>4, FirstPart
  <2>6. QED BY <1>5, <1>6, <1>7, <1>8, <2>1, <2>5 DEF c, t
<1>9. CASE ~Answered /\ pc["server"] \in Gone
  <2>1. PICK code \in 1..4 : x = ErrorFrame(code) BY <1>4, <1>9 DEF Replies
  <2> DEFINE h == HeaderOf(k_magic, 0, ErrorResp)
             p == Encode(ErrorResp, <<code>>)
  <2>2. /\ h \in Octets /\ Len(h) = 12 /\ Decode(WireHeader, h) = <<k_magic, 0, 4>>
        /\ p \in Octets /\ ErrorFrame(code) = h \o p
    BY ErrorFacts
  <2> HIDE DEF h, p
  <2>3. Len(r) = Len(h) /\ IsPrefix((r \o c) \o t, h \o p) BY <1>1, <1>4, <2>1, <2>2
  <2>4. r = h /\ IsPrefix((<< >> \o c) \o t, p) BY <1>2, <2>2, <2>3, FirstPart
  <2>5. Received("client") = <<k_magic, 0, 4>> BY <1>7, <2>2, <2>4
  <2>6. \E y \in 1..4 : IsPrefix((<< >> \o c) \o t, Encode(ErrorResp, <<y>>)) BY <2>4 DEF p
  <2>7. QED BY <1>5, <1>6, <1>9, <2>5, <2>6 DEF c, t
<1>10. CASE ~Answered /\ pc["server"] \notin Gone
  <2>1. x = << >> BY <1>4, <1>10 DEF Replies
  <2>2. r = << >> BY <1>2, <1>4, <2>1, NothingThere
  <2>3. QED BY <1>1, <2>2, Empty
<1>11. QED BY <1>8, <1>9, <1>10

\* The client looks at the header of an answer, and goes on to read the payload of its
\* answer or of an error: no other branch is reached.
LEMMA ClientHeaderStep ==
  ASSUME IInv, ClientHeader
  PROVE  IInv' /\ results' = results
<1> USE EndFacts
<1>1. Types /\ Links /\ Counts /\ Failures /\ CallValues /\ Requests /\ Answers /\ Progress
  BY DEF IInv
<1>2. pc["client"] = "header" /\ HasRead("client") BY DEF ClientHeader
<1> DEFINE id == Received("client")[2]
           size == Received("client")[3]
           error == HeaderError("client")
           answer == /\ Answered
                     /\ Received("client")
                          = <<k_magic, api_id[Current], sizeof(desc[Current].resp)>>
                     /\ IsPrefix((<< >> \o chan["client"]) \o tx["server"], ReplyPayload)
           refusal == /\ pc["server"] \in Gone
                      /\ Received("client") = <<k_magic, 0, 4>>
                      /\ \E code \in 1..4 :
                           IsPrefix((<< >> \o chan["client"]) \o tx["server"],
                                    Encode(ErrorResp, <<code>>))
<1>3. /\ Current = LastCall.api /\ Current \in DOMAIN desc /\ (answer \/ refusal)
  BY <1>1, <1>2, ClientHeaderFacts
<1>4. desc[Current].resp \in Structs /\ sizeof(desc[Current].resp) <= 64
  BY <1>3, CatalogFacts
<1>5. sizeof(desc[Current].resp) \in Nat BY <1>4, SizeFacts
<1>6. api_id[Current] \in 1..13 BY <1>3, IdFacts
<1>7. /\ hdr' = [hdr EXCEPT !["client"] = [id |-> id, size |-> size]]
      /\ rx' = [rx EXCEPT !["client"] = << >>]
      /\ UNCHANGED <<program, fd, reset, chan, tx, asked, executed, sim>>
  BY DEF ClientHeader, StartRead
<1>8. IF error # error_code.none THEN Fails
      ELSE IF id = api_id.error
           THEN IF size = sizeof(ErrorResp)
                THEN Goto("client", "error") /\ UNCHANGED <<clientVars, results>> ELSE Fails
      ELSE IF id # api_id[Current]
           THEN Goto("client", "discard") /\ UNCHANGED <<clientVars, results>>
      ELSE IF size = sizeof(desc[Current].resp)
           THEN Goto("client", "payload") /\ UNCHANGED <<clientVars, results>>
      ELSE Fails
  BY DEF ClientHeader
<1>9. /\ UNCHANGED <<clientVars, results>>
      /\ \/ answer /\ Goto("client", "payload") /\ size = sizeof(desc[Current].resp)
         \/ refusal /\ Goto("client", "error") /\ size = sizeof(ErrorResp)
  <2>1. CASE answer
    <3>1. id = api_id[Current] /\ size = sizeof(desc[Current].resp) BY <2>1
    <3>2. error = error_code.none
      BY <1>4, <1>5, <2>1 DEF HeaderError, k_max_payload, error_code
    <3>3. id # api_id.error BY <1>6, <3>1 DEF api_id
    <3>4. QED BY <1>8, <2>1, <3>1, <3>2, <3>3
  <2>2. CASE refusal
    <3>1. id = api_id.error /\ size = sizeof(ErrorResp) BY <2>2, SizesAssumption DEF api_id
    <3>2. error = error_code.none BY <2>2 DEF HeaderError, k_max_payload, error_code
    <3>3. QED BY <1>8, <2>2, <3>1, <3>2
  <2>3. QED BY <1>3, <2>1, <2>2
<1>10. UNCHANGED <<step, peer, sensor, exit, results>> BY <1>9 DEF clientVars
<1>11. id \in Int /\ size \in Int
  <2>1. CASE answer BY <1>5, <1>6, <2>1
  <2>2. CASE refusal BY <2>2
  <2>3. QED BY <1>3, <2>1, <2>2
<1>12. /\ rx' \in [Ends -> Octets] /\ rx'["server"] = rx["server"] /\ rx'["client"] = << >>
       /\ hdr' \in [Ends -> [id : Int, size : Int]] /\ hdr'["server"] = hdr["server"]
       /\ hdr'["client"].size = size
  <2> HIDE DEF id, size
  <2>1. [id |-> id, size |-> size] \in [id : Int, size : Int] BY <1>11
  <2>2. QED BY <1>1, <1>7, <2>1, Empty DEF Types
<1> HIDE DEF id, size, error
<1>13. /\ pc'["server"] = pc["server"] /\ pc' \in [Ends -> ClientPlaces \cup ServerPlaces]
       /\ \/ answer /\ pc'["client"] = "payload" /\ size = sizeof(desc[Current].resp)
          \/ refusal /\ pc'["client"] = "error" /\ size = sizeof(ErrorResp)
  BY <1>1, <1>9 DEF Types, Goto, ClientPlaces, Waiting
<1>14. Types' BY <1>1, <1>7, <1>10, <1>12, <1>13 DEF Types, ClientPlaces, Waiting
<1>15. Links' BY <1>1, <1>2, <1>7, <1>13 DEF Links, Waiting
<1>16. Counts' /\ Failures'
  BY <1>1, <1>2, <1>7, <1>10, <1>13
  DEF Counts, Failures, Waiting, Gone, Answered, LastCall, Current
<1>17. CallValues' BY <1>1, <1>7 DEF CallValues, LastCall, LastValue, Answered, ReqStruct
<1>18. Requests'
  <2>1. In("server")' = In("server") BY <1>7, <1>12, <1>13 DEF In, Taken
  <2>2. QED BY <1>1, <1>7, <1>12, <1>13, <2>1, RequestsKept
<1>19. Answers'
  <2>1. /\ Answered' = Answered /\ LastCall' = LastCall /\ ReplyPayload' = ReplyPayload
    BY <1>7 DEF Answered, LastCall, LastValue, ReplyPayload
  <2>2. In("client")' = (<< >> \o chan["client"]) \o tx["server"]
    BY <1>7, <1>12, <1>13 DEF In, Taken, Reading
  <2>3. QED BY <1>3, <1>12, <1>13, <2>1, <2>2 DEF Answers
<1>20. Progress' BY <1>1, <1>2, <1>7, <1>10, <1>13 DEF Progress, NoFailure, Waiting
<1>21. QED BY <1>10, <1>14, <1>15, <1>16, <1>17, <1>18, <1>19, <1>20 DEF IInv

\* What the client decodes is what the function computed for this call, and nothing is left
\* behind it.
LEMMA PayloadFacts ==
  ASSUME IInv, ClientPayload
  PROVE  /\ Answered /\ Len(asked) = Len(results) + 1
         /\ Current = LastCall.api /\ step <= Len(Script[program])
         /\ Decode(desc[Current].resp, rx["client"]) = LastValue
         /\ Computed(Current, LastValue) /\ LastValue \in Seq(Int) /\ LastValue # Failed
         /\ chan["client"] = << >> /\ tx["server"] = << >>
<1> USE EndFacts
<1>1. Types /\ Counts /\ CallValues /\ Answers BY DEF IInv
<1>2. pc["client"] = "payload" /\ HasRead("client") BY DEF ClientPayload
<1>3. /\ Answered /\ hdr["client"].size = sizeof(desc[LastCall.api].resp)
      /\ IsPrefix(In("client"), ReplyPayload)
  BY <1>1, <1>2 DEF Answers
<1>4. /\ Len(asked) = Len(results) + 1 /\ step <= Len(Script[program])
      /\ Current = LastCall.api
  BY <1>1, <1>2 DEF Counts, Waiting
<1>5. Len(asked) > 0
  <2>1. Len(results) \in Nat BY <1>1 DEF Types
  <2>2. QED BY <1>4, <2>1
<1>6. /\ LastCall.api \in DOMAIN desc
      /\ ReplyPayload \in Octets /\ Len(ReplyPayload) = sizeof(desc[LastCall.api].resp)
      /\ Decode(desc[LastCall.api].resp, ReplyPayload) = LastValue
  BY <1>1, <1>3, <1>5, LastFacts
<1> DEFINE r == rx["client"]
<1>7. r \in Octets /\ chan["client"] \in Octets /\ tx["server"] \in Octets
  BY <1>1 DEF Types
<1>8. Len(r) = Len(ReplyPayload) BY <1>2, <1>3, <1>6 DEF HasRead, Wanted
<1>9. In("client") = (r \o chan["client"]) \o tx["server"]
  BY <1>2 DEF In, Taken, Reading
<1>10. IsPrefix((r \o chan["client"]) \o tx["server"], ReplyPayload) BY <1>3, <1>9
<1>11. r = ReplyPayload /\ chan["client"] = << >> /\ tx["server"] = << >>
  BY <1>6, <1>7, <1>8, <1>10, AllOfIt
<1>12. Computed(Current, LastValue) BY <1>1, <1>3, <1>4, <1>5 DEF CallValues
<1>13. LastValue \in Seq(Int) /\ LastValue # Failed
  <2> DEFINE v == LastValue
             s == desc[Current].resp
  <2>1. Fits(s, v) BY <1>12 DEF Computed
  <2>2. s \in Structs /\ Len(s) > 0 BY <1>4, <1>6, CatalogFacts
  <2> HIDE DEF v, s
  <2>3. v \in Seq(Int) /\ Len(v) = Len(s) BY <2>1, <2>2, FitsFacts
  <2>4. v # Failed BY <2>2, <2>3 DEF Failed
  <2>5. QED BY <2>3, <2>4 DEF v
<1>14. QED BY <1>3, <1>4, <1>6, <1>11, <1>12, <1>13

\* A call succeeds: nothing of its answer is left, and no call before it failed.
LEMMA ClientPayloadStep ==
  ASSUME IInv, ClientPayload
  PROVE  IInv' /\ results' = Append(results, LastValue)
<1> USE EndFacts
<1>1. Types /\ Links /\ Counts /\ Failures /\ CallValues /\ Requests /\ Answers /\ Progress
  BY DEF IInv
<1> DEFINE api == Current
           value == LastValue
<1>2. /\ Answered /\ Len(asked) = Len(results) + 1
      /\ api = LastCall.api /\ step <= Len(Script[program])
      /\ Decode(desc[api].resp, rx["client"]) = value
      /\ Computed(api, value) /\ value \in Seq(Int) /\ value # Failed
      /\ chan["client"] = << >> /\ tx["server"] = << >>
  BY PayloadFacts
<1>3. pc["client"] = "payload" BY DEF ClientPayload
<1>4. /\ Succeeds(value)
      /\ UNCHANGED <<program, fd, reset, chan, tx, rx, hdr, asked, executed, sim>>
  BY <1>2 DEF ClientPayload, engineVars
<1>5. /\ results' = Append(results, value)
      /\ peer' = IF api = "wait_annce" THEN value[1] ELSE peer
      /\ sensor' = IF api = "find_sensor" THEN value ELSE sensor
      /\ OnSuccess(api, value)
  BY <1>4 DEF Succeeds
<1>6. /\ program \in DOMAIN Script /\ step \in Nat /\ step >= 1
      /\ results \in Seq(Seq(Int)) /\ Len(results) \in Nat
      /\ Len(asked) \in Nat /\ Len(executed) \in Nat
  BY <1>1 DEF Types
<1>7. /\ program = "client" => Len(Script[program]) = 16
      /\ api = "wait_annce" => program = "client" /\ step = 5
      /\ api = "find_sensor" => program = "client" /\ step = 6
      /\ program = "client" /\ step = 5 => api = "wait_annce"
      /\ program = "client" /\ step = 6 => api = "find_sensor"
  BY <1>2, <1>6, ScriptFacts
<1> HIDE DEF api, value
<1>8. /\ results' \in Seq(Seq(Int)) /\ Len(results') = Len(results) + 1
      /\ \A i \in 1..Len(results) : results'[i] = results[i]
      /\ results'[Len(results) + 1] = value
  BY <1>2, <1>5, <1>6
<1>9. \/ /\ pc' = [pc EXCEPT !["client"] = "ready"] /\ exit' = exit /\ step' = step + 1
         /\ program = "client" /\ api = "find_sensor" => value[1] = 0
      \/ /\ pc' = [pc EXCEPT !["client"] = "leave"] /\ exit' = 1 /\ step' = step
         /\ api # "wait_annce"
  BY <1>5 DEF OnSuccess, Proceed, Leave, Goto
<1>10. /\ pc'["client"] \in {"ready", "leave"} /\ pc'["server"] = pc["server"]
       /\ pc' \in [Ends -> ClientPlaces \cup ServerPlaces]
  BY <1>1, <1>9 DEF Types, ClientPlaces
<1>11. /\ api = "wait_annce" => value = <<g_sensor_short>>
       /\ api = "find_sensor" => /\ value \in {<<0, g_sensor_short, g_sensor_ep>>, <<-1, 0, 0>>}
                                 /\ Fits(zb_addr_t, value)
  BY <1>2 DEF Computed, desc
<1>12. peer' \in U16 /\ Fits(zb_addr_t, sensor') /\ sensor' \in Seq(Int)
  <2>1. peer' \in U16
    <3>1. g_sensor_short \in U16 BY DEF g_sensor_short, U16
    <3>2. QED BY <1>1, <1>5, <1>11, <3>1 DEF Types
  <2>2. Fits(zb_addr_t, sensor') /\ sensor' \in Seq(Int)
    BY <1>1, <1>2, <1>5, <1>11 DEF Types
  <2>3. QED BY <2>1, <2>2
<1>13. NoFailure
  <2> SUFFICES ASSUME NEW i \in 1..Len(results), results[i] = Failed PROVE FALSE
    BY DEF NoFailure
  <2>1. Len(executed) <= i BY <1>1 DEF Failures
  <2>2. Len(executed) = Len(results) + 1 BY <1>2 DEF Answered
  <2>3. QED BY <1>6, <2>1, <2>2
<1>14. NoFailure'
  <2> SUFFICES ASSUME NEW i \in 1..Len(results') PROVE results'[i] # Failed
    BY DEF NoFailure
  <2>1. CASE i \in 1..Len(results) BY <1>8, <1>13, <2>1 DEF NoFailure
  <2>2. CASE i = Len(results) + 1 BY <1>2, <1>8, <2>2
  <2>3. QED BY <1>6, <1>8, <2>1, <2>2
<1>15. Types'
  <2>1. step' \in Nat /\ step' >= 1 BY <1>6, <1>9
  <2>2. QED BY <1>1, <1>4, <1>8, <1>10, <1>12, <2>1 DEF Types, ClientPlaces
<1>16. Links' BY <1>1, <1>3, <1>4, <1>10 DEF Links, Waiting
<1>17. Counts'
  BY <1>1, <1>2, <1>4, <1>8, <1>10 DEF Counts, Waiting, Answered
<1>18. Failures' BY <1>14 DEF Failures, NoFailure
<1>19. CallValues' BY <1>1, <1>4 DEF CallValues, LastCall, LastValue, Answered, ReqStruct
<1>20. Requests'
  <2>1. In("server")' = In("server") BY <1>4, <1>10 DEF In, Taken
  <2>2. QED BY <1>1, <1>4, <1>10, <2>1, RequestsKept
<1>21. Answers' BY <1>2, <1>4, <1>10 DEF Answers
<1>22. Progress'
  <2>1. exit' # 0
    <3>1. exit # 0 BY <1>1, <1>3 DEF Progress
    <3>2. QED BY <1>9, <3>1
  <2>2. ASSUME program = "client"
        PROVE  /\ step' <= 17
               /\ step' >= 6 => peer' = g_sensor_short
               /\ step' >= 7 => sensor' = <<0, g_sensor_short, g_sensor_ep>>
    <3>1. step <= 16 BY <1>2, <1>7, <2>2
    <3>2. step' <= 17 BY <1>6, <1>9, <3>1
    <3>3. step' >= 6 => peer' = g_sensor_short
      <4>1. CASE api = "wait_annce" BY <1>5, <1>11, <4>1
      <4>2. CASE api # "wait_annce"
        <5>1. step # 5 /\ peer' = peer BY <1>5, <1>7, <2>2, <4>2
        <5>2. step' >= 6 => step >= 6 BY <1>6, <1>9, <5>1
        <5>3. step >= 6 => peer = g_sensor_short BY <1>1, <2>2 DEF Progress
        <5>4. QED BY <5>1, <5>2, <5>3
      <4>3. QED BY <4>1, <4>2
    <3>4. step' >= 7 => sensor' = <<0, g_sensor_short, g_sensor_ep>>
      <4>1. CASE api = "find_sensor"
        <5>1. step = 6 /\ sensor' = value BY <1>5, <1>7, <4>1
        <5>2. step' >= 7 => value[1] = 0 BY <1>9, <2>2, <4>1, <5>1
        <5>3. value[1] = 0 => value = <<0, g_sensor_short, g_sensor_ep>> BY <1>11, <4>1
        <5>4. QED BY <5>1, <5>2, <5>3
      <4>2. CASE api # "find_sensor"
        <5>1. step # 6 /\ sensor' = sensor BY <1>5, <1>7, <2>2, <4>2
        <5>2. step' >= 7 => step >= 7 BY <1>6, <1>9, <5>1
        <5>3. step >= 7 => sensor = <<0, g_sensor_short, g_sensor_ep>>
          BY <1>1, <2>2 DEF Progress
        <5>4. QED BY <5>1, <5>2, <5>3
      <4>3. QED BY <4>1, <4>2
    <3>5. QED BY <3>2, <3>3, <3>4
  <2>3. ASSUME program = "client", pc'["client"] = "ready"
        PROVE  step' = Len(results') + 1
    <3>1. step = Len(results) + 1 BY <1>1, <1>3, <1>13, <2>3 DEF Progress, Waiting
    <3>2. step' = step + 1 BY <1>1, <1>9, <2>3 DEF Types
    <3>3. QED BY <1>6, <1>8, <3>1, <3>2
  <2>4. pc'["client"] \in Waiting \cup {"start", "ready"} => pc'["client"] = "ready"
    BY <1>10 DEF Waiting
  <2>5. program' = program BY <1>4
  <2>6. QED BY <1>14, <2>1, <2>2, <2>3, <2>4, <2>5, Zenon DEF Progress
<1>23. QED
  BY <1>5, <1>15, <1>16, <1>17, <1>18, <1>19, <1>20, <1>21, <1>22 DEF IInv, value

\* Octets that are written move from one end's buffer to the other end, in order; no
\* stream changes.
LEMMA WriteFacts ==
  ASSUME Types, NEW e \in Ends, write_all(e), fd[Other(e)] # "closed"
  PROVE  /\ tx' \in [Ends -> Octets] /\ chan' \in [Ends -> Octets]
         /\ tx'[Other(e)] = tx[Other(e)] /\ chan'[e] = chan[e] /\ reset' = reset
         /\ In("client")' = In("client") /\ In("server")' = In("server")
<1> DEFINE o == Other(e)
<1>1. o \in Ends /\ o # e /\ Other(o) = e BY DEF Ends, Other
<1>2. PICK n \in 1..Len(tx[e]) :
        /\ tx' = [tx EXCEPT ![e] = SubSeq(tx[e], n + 1, Len(tx[e]))]
        /\ chan' = [chan EXCEPT ![o] = chan[o] \o SubSeq(tx[e], 1, n)]
        /\ reset' = reset
  BY <1>1 DEF write_all, Types
<1>3. UNCHANGED <<pc, rx>> BY DEF write_all
<1> HIDE DEF o
<1>4. /\ chan[o] \in Octets /\ tx[e] \in Octets /\ Taken(o) \in Octets
      /\ tx \in [Ends -> Octets] /\ chan \in [Ends -> Octets]
  BY <1>1, Empty DEF Types, Taken
<1> DEFINE p == SubSeq(tx[e], 1, n)
           q == SubSeq(tx[e], n + 1, Len(tx[e]))
<1>5. p \in Octets /\ q \in Octets BY <1>4, Cut
<1>6. chan[o] \o p \in Octets BY <1>4, <1>5, Joined
<1>7. /\ tx' \in [Ends -> Octets] /\ chan' \in [Ends -> Octets]
      /\ tx'[o] = tx[o] /\ chan'[e] = chan[e] /\ tx'[e] = q /\ chan'[o] = chan[o] \o p
  BY <1>1, <1>2, <1>4, <1>5, <1>6
<1>8. (Taken(o) \o (chan[o] \o p)) \o q = (Taken(o) \o chan[o]) \o tx[e]
  <2> DEFINE r == Taken(o)
             c == chan[o]
             t == tx[e]
  <2>1. r \in Octets /\ c \in Octets /\ t \in Octets /\ n \in 1..Len(t) BY <1>4
  <2> HIDE DEF r, c, t
  <2>2. \A i \in 1..Len(t) :
          (r \o (c \o SubSeq(t, 1, i))) \o SubSeq(t, i + 1, Len(t)) = (r \o c) \o t
    BY <2>1, Written
  <2>3. QED BY <2>1, <2>2, Zenon DEF r, c, t
<1>9. Taken(o)' = Taken(o) /\ Taken(e)' = Taken(e) BY <1>3 DEF Taken
<1> HIDE DEF p, q
<1>10. In(o)' = In(o) /\ In(e)' = In(e)
  <2>1. In(o)' = (Taken(o)' \o chan'[o]) \o tx'[e] /\ In(o) = (Taken(o) \o chan[o]) \o tx[e]
    BY <1>1 DEF In
  <2>2. In(e)' = (Taken(e)' \o chan'[e]) \o tx'[o] /\ In(e) = (Taken(e) \o chan[e]) \o tx[o]
    BY DEF In, o
  <2>3. QED BY <1>7, <1>8, <1>9, <2>1, <2>2
<1>11. {o, e} = {"client", "server"} BY EndFacts DEF o
<1>12. QED BY <1>2, <1>7, <1>10, <1>11 DEF o

\* Octets that are read move from the connection to the reader's buffer, in order.
LEMMA ReadFacts ==
  ASSUME Types, NEW e \in Ends, read_all(e)
  PROVE  /\ rx' \in [Ends -> Octets] /\ chan' \in [Ends -> Octets]
         /\ chan'[Other(e)] = chan[Other(e)]
         /\ In("client")' = In("client") /\ In("server")' = In("server")
<1> DEFINE o == Other(e)
<1>1. o \in Ends /\ o # e /\ Other(o) = e BY DEF Ends, Other
<1>2. PICK n \in 1..Len(chan[e]) :
        /\ rx' = [rx EXCEPT ![e] = rx[e] \o SubSeq(chan[e], 1, n)]
        /\ chan' = [chan EXCEPT ![e] = SubSeq(chan[e], n + 1, Len(chan[e]))]
  BY DEF read_all, Types
<1>3. UNCHANGED <<pc, tx>> /\ pc[e] \in Reading BY DEF read_all
<1> HIDE DEF o
<1>4. /\ chan[e] \in Octets /\ tx[o] \in Octets /\ rx[e] \in Octets
      /\ rx \in [Ends -> Octets] /\ chan \in [Ends -> Octets]
  BY <1>1 DEF Types
<1> DEFINE p == SubSeq(chan[e], 1, n)
           q == SubSeq(chan[e], n + 1, Len(chan[e]))
<1>5. p \in Octets /\ q \in Octets BY <1>4, Cut
<1>6. rx[e] \o p \in Octets BY <1>4, <1>5, Joined
<1>7. /\ rx' \in [Ends -> Octets] /\ chan' \in [Ends -> Octets]
      /\ rx'[o] = rx[o] /\ chan'[o] = chan[o] /\ chan'[e] = q /\ rx'[e] = rx[e] \o p
  BY <1>1, <1>2, <1>4, <1>5, <1>6
<1>8. ((rx[e] \o p) \o q) \o tx[o] = (rx[e] \o chan[e]) \o tx[o]
  <2> DEFINE r == rx[e]
             c == chan[e]
             t == tx[o]
  <2>1. r \in Octets /\ c \in Octets /\ t \in Octets /\ n \in 1..Len(c) BY <1>4
  <2> HIDE DEF r, c, t
  <2>2. \A i \in 1..Len(c) :
          ((r \o SubSeq(c, 1, i)) \o SubSeq(c, i + 1, Len(c))) \o t = (r \o c) \o t
    BY <2>1, ReadOn
  <2>3. QED BY <2>1, <2>2, Zenon DEF r, c, t
<1> HIDE DEF p, q
<1>9. /\ Taken(o)' = Taken(o) /\ Taken(e)' = rx[e] \o p /\ Taken(e) = rx[e]
  BY <1>3, <1>7 DEF Taken
<1>10. In(o)' = In(o) /\ In(e)' = In(e)
  <2>1. In(o)' = (Taken(o)' \o chan'[o]) \o tx'[e] /\ In(o) = (Taken(o) \o chan[o]) \o tx[e]
    BY <1>1 DEF In
  <2>2. In(e)' = (Taken(e)' \o chan'[e]) \o tx'[o] /\ In(e) = (Taken(e) \o chan[e]) \o tx[o]
    BY DEF In, o
  <2>3. QED BY <1>3, <1>7, <1>8, <1>9, <2>1, <2>2
<1>11. {o, e} = {"client", "server"} BY EndFacts DEF o
<1>12. QED BY <1>7, <1>10, <1>11 DEF o

\* Octets that move do not touch the calls.
LEMMA CallsKept ==
  ASSUME Counts, Failures, CallValues, Progress,
         UNCHANGED <<program, pc, step, peer, sensor, exit, asked, executed, results>>
  PROVE  Counts' /\ Failures' /\ CallValues' /\ Progress'
<1>1. Counts' BY DEF Counts, Answered, LastCall, Current
<1>2. Failures' BY DEF Failures
<1>3. CallValues' BY DEF CallValues, LastCall, LastValue, Answered, ReqStruct
<1>4. Progress' BY DEF Progress, NoFailure
<1>5. QED BY <1>1, <1>2, <1>3, <1>4

\* The client reads.
LEMMA ClientReadsStep ==
  ASSUME IInv, read_all("client")
  PROVE  IInv'
<1> USE EndFacts
<1>1. Types /\ Links /\ Counts /\ Failures /\ CallValues /\ Requests /\ Answers /\ Progress
  BY DEF IInv
<1>2. UNCHANGED <<program, pc, fd, reset, tx, hdr, step, peer, sensor, exit, asked, executed,
                  results, sim>>
  BY DEF read_all, clientVars
<1>3. pc["client"] \in Reading BY DEF read_all
<1>4. /\ rx' \in [Ends -> Octets] /\ chan' \in [Ends -> Octets]
      /\ chan'["server"] = chan["server"]
      /\ In("client")' = In("client") /\ In("server")' = In("server")
  BY <1>1, ReadFacts
<1>5. Types' /\ Links' BY <1>1, <1>2, <1>4 DEF Types, Links
<1>6. Requests' BY <1>1, <1>2, <1>4, RequestsKept
<1>7. pc["client"] \notin {"start", "ready"} BY <1>3 DEF Reading
<1>8. Answers' BY <1>1, <1>2, <1>4, <1>7, AnswersKept
<1>9. Counts' /\ Failures' /\ CallValues' /\ Progress' BY <1>1, <1>2, CallsKept
<1>10. QED BY <1>5, <1>6, <1>8, <1>9 DEF IInv

\* The server reads.
LEMMA ServerReadsStep ==
  ASSUME IInv, read_all("server")
  PROVE  IInv'
<1> USE EndFacts
<1>1. Types /\ Links /\ Counts /\ Failures /\ CallValues /\ Requests /\ Answers /\ Progress
  BY DEF IInv
<1>2. UNCHANGED <<program, pc, fd, reset, tx, hdr, step, peer, sensor, exit, asked, executed,
                  results, sim>>
  BY DEF read_all, clientVars
<1>3. pc["server"] \in Reading BY DEF read_all
<1>4. /\ rx' \in [Ends -> Octets] /\ chan' \in [Ends -> Octets]
      /\ chan'["client"] = chan["client"]
      /\ In("client")' = In("client") /\ In("server")' = In("server")
  BY <1>1, ReadFacts
<1>5. Types' /\ Links' BY <1>1, <1>2, <1>4 DEF Types, Links
<1>6. Requests' BY <1>1, <1>2, <1>4, RequestsKept
<1>7. Answers' BY <1>1, <1>2, <1>4, AnswersKept
<1>8. Counts' /\ Failures' /\ CallValues' /\ Progress' BY <1>1, <1>2, CallsKept
<1>9. QED BY <1>5, <1>6, <1>7, <1>8 DEF IInv

\* The client writes; what it writes after the server has closed is lost.
LEMMA ClientWritesStep ==
  ASSUME IInv, write_all("client")
  PROVE  IInv'
<1> USE EndFacts
<1>1. Types /\ Links /\ Counts /\ Failures /\ CallValues /\ Requests /\ Answers /\ Progress
  BY DEF IInv
<1>2. UNCHANGED <<program, pc, fd, rx, hdr, step, peer, sensor, exit, asked, executed,
                  results, sim>>
  BY DEF write_all, clientVars
<1>3. tx["client"] # << >> /\ ~reset["client"] BY DEF write_all
<1>4. pc["client"] = "send" BY <1>1, <1>3 DEF Links
<1>5. Counts' /\ Failures' /\ CallValues' /\ Progress' BY <1>1, <1>2, CallsKept
<1>6. CASE fd["server"] = "closed"
  <2>1. PICK n \in 1..Len(tx["client"]) :
          /\ tx' = [tx EXCEPT !["client"] = SubSeq(tx["client"], n + 1, Len(tx["client"]))]
          /\ reset' \in {reset, [reset EXCEPT !["client"] = TRUE]}
          /\ chan' = chan
    BY <1>1, <1>6 DEF write_all, Types
  <2>2. tx["client"] \in Octets /\ tx \in [Ends -> Octets] BY <1>1 DEF Types
  <2>3. SubSeq(tx["client"], n + 1, Len(tx["client"])) \in Octets BY <2>2, Cut
  <2>4. tx' \in [Ends -> Octets] /\ tx'["server"] = tx["server"] BY <2>1, <2>2, <2>3
  <2>5. reset' \in [Ends -> BOOLEAN] /\ reset'["server"] = reset["server"]
    BY <1>1, <2>1 DEF Types
  <2>6. Types' BY <1>1, <1>2, <2>1, <2>4, <2>5 DEF Types
  <2>7. Links' BY <1>1, <1>2, <1>4, <1>6, <2>4 DEF Links
  <2>8. Requests'
    <3>1. pc'["server"] \in Gone BY <1>1, <1>2, <1>6 DEF Links, Gone
    <3>2. QED BY <3>1, RequestsDropped
  <2>9. Answers'
    <3>1. In("client")' = In("client") BY <1>2, <2>1, <2>4 DEF In, Taken
    <3>2. Replies' = Replies
      BY <1>2 DEF Replies, ReplyHeader, ReplyPayload, LastCall, LastValue, Answered
    <3>3. \E x \in Replies : IsPrefix(In("client"), x) BY <1>1, <1>3, <1>4 DEF Answers
    <3>4. QED BY <1>2, <1>4, <3>1, <3>2, <3>3 DEF Answers
  <2>10. QED BY <1>5, <2>6, <2>7, <2>8, <2>9 DEF IInv
<1>7. CASE fd["server"] # "closed"
  <2>1. /\ tx' \in [Ends -> Octets] /\ chan' \in [Ends -> Octets]
        /\ tx'["server"] = tx["server"] /\ chan'["client"] = chan["client"] /\ reset' = reset
        /\ In("client")' = In("client") /\ In("server")' = In("server")
    BY <1>1, <1>7, WriteFacts
  <2>2. Types' /\ Links' BY <1>1, <1>2, <1>4, <2>1 DEF Types, Links
  <2>3. Requests' BY <1>1, <1>2, <2>1, RequestsKept
  <2>4. Answers' BY <1>1, <1>2, <1>3, <2>1, AnswersKept
  <2>5. QED BY <1>5, <2>2, <2>3, <2>4 DEF IInv
<1>8. QED BY <1>6, <1>7

\* The server writes; what it writes after the client has closed is lost.
LEMMA ServerWritesStep ==
  ASSUME IInv, write_all("server")
  PROVE  IInv'
<1> USE EndFacts
<1>1. Types /\ Links /\ Counts /\ Failures /\ CallValues /\ Requests /\ Answers /\ Progress
  BY DEF IInv
<1>2. UNCHANGED <<program, pc, fd, rx, hdr, step, peer, sensor, exit, asked, executed,
                  results, sim>>
  BY DEF write_all, clientVars
<1>3. tx["server"] # << >> /\ fd["server"] = "open" BY DEF write_all
<1>4. pc["server"] \in {"respond", "refuse"} BY <1>1, <1>3 DEF Links
<1>5. Counts' /\ Failures' /\ CallValues' /\ Progress' BY <1>1, <1>2, CallsKept
<1>6. CASE fd["client"] = "closed"
  <2>1. PICK n \in 1..Len(tx["server"]) :
          /\ tx' = [tx EXCEPT !["server"] = SubSeq(tx["server"], n + 1, Len(tx["server"]))]
          /\ reset' \in {reset, [reset EXCEPT !["server"] = TRUE]}
          /\ chan' = chan
    BY <1>1, <1>6 DEF write_all, Types
  <2>2. tx["server"] \in Octets /\ tx \in [Ends -> Octets] BY <1>1 DEF Types
  <2>3. SubSeq(tx["server"], n + 1, Len(tx["server"])) \in Octets BY <2>2, Cut
  <2>4. tx' \in [Ends -> Octets] /\ tx'["client"] = tx["client"] BY <2>1, <2>2, <2>3
  <2>5. reset' \in [Ends -> BOOLEAN] /\ reset'["client"] = reset["client"]
    BY <1>1, <2>1 DEF Types
  <2>6. Types' BY <1>1, <1>2, <2>1, <2>4, <2>5 DEF Types
  <2>7. Links' BY <1>1, <1>2, <1>4, <2>4, <2>5 DEF Links
  <2>8. Requests'
    <3>1. In("server")' = In("server") BY <1>2, <2>1, <2>4 DEF In, Taken
    <3>2. QED BY <1>1, <1>2, <3>1, RequestsKept
  <2>9. Answers'
    <3>1. pc["client"] \in {"leave", "done", "killed"}
      BY <1>1, <1>6 DEF Types, Links, ClientPlaces
    <3>2. QED BY <1>2, <3>1, AnswersDropped
  <2>10. QED BY <1>5, <2>6, <2>7, <2>8, <2>9 DEF IInv
<1>7. CASE fd["client"] # "closed"
  <2>1. /\ tx' \in [Ends -> Octets] /\ chan' \in [Ends -> Octets]
        /\ tx'["client"] = tx["client"] /\ chan'["server"] = chan["server"] /\ reset' = reset
        /\ In("client")' = In("client") /\ In("server")' = In("server")
    BY <1>1, <1>7, WriteFacts
  <2>2. Types' /\ Links' BY <1>1, <1>2, <1>4, <2>1 DEF Types, Links
  <2>3. Requests' BY <1>1, <1>2, <2>1, RequestsKept
  <2>4. pc["client"] \notin {"start", "ready"}
    <3>1. ~reset["client"] BY <1>1, <1>3 DEF Links
    <3>2. QED BY <1>1, <1>3, <3>1 DEF Answers
  <2>5. Answers' BY <1>1, <1>2, <2>1, <2>4, AnswersKept
  <2>6. QED BY <1>5, <2>2, <2>3, <2>5 DEF IInv
<1>8. QED BY <1>6, <1>7

\* The server dies.
LEMMA ServerDiesStep ==
  ASSUME IInv, Dies("server"), fd["server"] = "open"
  PROVE  IInv'
<1> USE EndFacts
<1>1. Types /\ Links /\ Counts /\ Failures /\ CallValues /\ Requests /\ Answers /\ Progress
  BY DEF IInv
<1>2. /\ pc' = [pc EXCEPT !["server"] = "killed"] /\ tx' = [tx EXCEPT !["server"] = << >>]
      /\ results' = results /\ CloseFd("server")
      /\ UNCHANGED <<program, rx, hdr, step, peer, sensor, exit, asked, executed, sim>>
  BY DEF Dies, clientVars
<1>3. /\ fd' \in [Ends -> {"none", "open", "closed"}] /\ reset' \in [Ends -> BOOLEAN]
      /\ chan' \in [Ends -> Octets]
      /\ fd'["server"] = "closed" /\ fd'["client"] = fd["client"]
      /\ reset'["server"] = reset["server"] /\ (reset["client"] => reset'["client"])
      /\ chan'["client"] = chan["client"] \/ chan'["client"] = << >>
  BY <1>1, <1>2, CloseFacts
<1>4. /\ pc'["server"] = "killed" /\ pc'["client"] = pc["client"]
      /\ tx'["server"] = << >> /\ tx'["client"] = tx["client"]
  BY <1>1, <1>2 DEF Types
<1>5. Types' BY <1>1, <1>2, <1>3, Empty DEF Types, ServerPlaces, Gone
<1>6. Links'
  BY <1>1, <1>3, <1>4 DEF Links, Waiting
<1>7. Counts' /\ Failures'
  BY <1>1, <1>2, <1>4 DEF Counts, Failures, Waiting, Gone, Answered, LastCall, Current
<1>8. CallValues' BY <1>1, <1>2 DEF CallValues, LastCall, LastValue, Answered, ReqStruct
<1>9. Requests' BY <1>4, RequestsDropped DEF Gone
<1>10. Answers' BY <1>1, <1>2, <1>3, <1>4, ServerLeaves DEF Gone
<1>11. Progress' BY <1>1, <1>2, <1>4 DEF Progress, NoFailure
<1>12. QED BY <1>5, <1>6, <1>7, <1>8, <1>9, <1>10, <1>11 DEF IInv

\* The client dies, and the call it waits for fails.
LEMMA ClientDiesStep ==
  ASSUME IInv, Dies("client"), fd["client"] = "open"
  PROVE  IInv'
<1> USE EndFacts
<1>1. Types /\ Links /\ Counts /\ Failures /\ CallValues /\ Requests /\ Answers /\ Progress
  BY DEF IInv
<1>2. /\ pc' = [pc EXCEPT !["client"] = "killed"] /\ tx' = [tx EXCEPT !["client"] = << >>]
      /\ CloseFd("client")
      /\ UNCHANGED <<program, rx, hdr, step, peer, sensor, exit, asked, executed, sim>>
  BY DEF Dies, clientVars
<1>3. /\ fd' \in [Ends -> {"none", "open", "closed"}] /\ reset' \in [Ends -> BOOLEAN]
      /\ chan' \in [Ends -> Octets]
      /\ fd'["client"] = "closed" /\ fd'["server"] = fd["server"]
      /\ reset'["client"] = reset["client"]
      /\ chan'["server"] = chan["server"] \/ chan'["server"] = << >>
  BY <1>1, <1>2, CloseFacts
<1>4. /\ pc'["client"] = "killed" /\ pc'["server"] = pc["server"]
      /\ tx'["client"] = << >> /\ tx'["server"] = tx["server"]
  BY <1>1, <1>2 DEF Types
<1>5. pc["client"] \in Waiting \cup {"ready", "leave"} BY <1>1 DEF Links
<1>6. /\ results \in Seq(Seq(Int)) /\ Len(results) \in Nat /\ Failed \in Seq(Int)
      /\ Len(asked) \in Nat /\ Len(executed) \in Nat
  BY <1>1 DEF Types, Failed
<1>7. /\ results' \in Seq(Seq(Int)) /\ Len(results') = Len(asked)
      /\ Len(results) <= Len(results')
      /\ \A i \in 1..Len(results) : results'[i] = results[i]
  <2>1. CASE pc["client"] \in Waiting
    <3>1. Len(asked) = Len(results) + 1 BY <1>1, <2>1 DEF Counts
    <3>2. results' = Append(results, Failed) BY <1>6, <3>1 DEF Dies
    <3>3. QED BY <1>6, <3>1, <3>2
  <2>2. CASE pc["client"] \notin Waiting
    <3>1. Len(asked) = Len(results) BY <1>1, <2>2 DEF Counts
    <3>2. results' = results BY <1>6, <3>1 DEF Dies
    <3>3. QED BY <1>6, <3>1, <3>2
  <2>3. QED BY <2>1, <2>2
<1>8. Types' BY <1>1, <1>2, <1>3, <1>7, Empty DEF Types, ClientPlaces
<1>9. Links' BY <1>1, <1>3, <1>4, <1>5 DEF Links, Waiting
<1>10. Counts' BY <1>1, <1>2, <1>4, <1>5, <1>7 DEF Counts, Waiting
<1>11. Failures'
  <2> SUFFICES ASSUME NEW i \in 1..Len(results'), results'[i] = Failed
               PROVE  Len(executed) <= i /\ (i < Len(asked) => pc["server"] \in Gone)
    BY <1>2, <1>4 DEF Failures
  <2>1. CASE i \in 1..Len(results)
    BY <1>1, <1>5, <1>7, <2>1 DEF Failures, Waiting
  <2>2. CASE i \notin 1..Len(results)
    <3>1. i = Len(asked)
      <4>1. Len(asked) = Len(results) \/ Len(asked) = Len(results) + 1 BY <1>1 DEF Counts
      <4>2. QED BY <1>6, <1>7, <2>2, <4>1
    <3>2. QED BY <1>1, <1>6, <3>1 DEF Counts
  <2>3. QED BY <2>1, <2>2
<1>12. CallValues' BY <1>1, <1>2 DEF CallValues, LastCall, LastValue, Answered, ReqStruct
<1>13. Requests' BY <1>1, <1>2, <1>3, <1>4, ClientLeaves
<1>14. Answers' BY <1>4, AnswersDropped
<1>15. Progress'
  <2>1. CASE pc["client"] \in Waiting
    <3>1. exit # 0 BY <1>1, <2>1 DEF Progress, Waiting
    <3>2. program = "client" => step <= 16
      <4>1. step <= Len(Script[program]) BY <1>1, <2>1 DEF Counts
      <4>2. program = "client" => Len(Script[program]) = 16 BY DEF Script
      <4>3. QED BY <4>1, <4>2
    <3>3. QED BY <1>1, <1>2, <1>4, <3>1, <3>2 DEF Progress, Waiting
  <2>2. CASE pc["client"] \notin Waiting
    <3>1. Len(asked) = Len(results) BY <1>1, <2>2 DEF Counts
    <3>2. results' = results BY <1>6, <3>1 DEF Dies
    <3>3. QED BY <1>1, <1>2, <1>4, <3>2 DEF Progress, NoFailure, Waiting
  <2>3. QED BY <2>1, <2>2
<1>16. QED BY <1>8, <1>9, <1>10, <1>11, <1>12, <1>13, <1>14, <1>15 DEF IInv

-----------------------------------------------------------------------------
(***************************************************************************)
(* What the invariant shows.                                               *)
(***************************************************************************)
\* Nothing has been sent before the programs start.
LEMMA InitHolds == Init => IInv
<1> SUFFICES ASSUME Init PROVE IInv
  OBVIOUS
<1> USE EndFacts DEF Init
<1>1. Types
  <2>1. 0 \in U16 /\ 0 \in U8 /\ 0 \in I32 BY DEF U8, U16, I32
  <2>2. Fits(zb_addr_t, <<0, 0, 0>>) BY <2>1 DEF Fits, Values, zb_addr_t
  <2>3. FreshSim \in Sims BY DEF FreshSim, Sims
  <2>4. pc \in [Ends -> ClientPlaces \cup ServerPlaces] /\ pc["client"] \in ClientPlaces
        /\ pc["server"] \in ServerPlaces
    BY DEF ClientPlaces, ServerPlaces
  <2>5. hdr \in [Ends -> [id : Int, size : Int]] OBVIOUS
  <2>6. chan \in [Ends -> Octets] /\ tx \in [Ends -> Octets] /\ rx \in [Ends -> Octets]
    BY Empty
  <2>7. QED BY <2>1, <2>2, <2>3, <2>4, <2>5, <2>6 DEF Types
<1>2. Links BY DEF Links, Waiting
<1>3. Counts BY DEF Counts, Waiting, Answered
<1>4. Failures BY DEF Failures
<1>5. CallValues BY DEF CallValues
<1>6. Requests
  <2>1. Request = << >> BY DEF Request, Answered
  <2>2. In("server") = (<< >> \o << >>) \o << >> BY DEF In, Taken, Reading
  <2>3. IsPrefix(In("server"), Request) BY <2>1, <2>2, Empty, NothingBefore
  <2>4. QED BY <2>3 DEF Requests
<1>7. Answers BY DEF Answers
<1>8. Progress
  <2>1. NoFailure BY DEF NoFailure
  <2>2. QED BY <2>1 DEF Progress
<1>9. QED BY <1>1, <1>2, <1>3, <1>4, <1>5, <1>6, <1>7, <1>8 DEF IInv

\* Every step of either program, of the connection, and every death keeps the invariant.
LEMMA StepHolds == IInv /\ [Next]_vars => IInv'
<1> SUFFICES ASSUME IInv, [Next]_vars PROVE IInv'
  OBVIOUS
<1>1. CASE ClientStep
  BY <1>1, ConnectStep, ConnectFailsStep, CallStep, SentStep, ClientHeaderStep,
     ClientPayloadStep, DroppedStep, ClientReadFailsStep, ClientWriteFailsStep,
     ClientEndsStep, ClientClosesStep
  DEF ClientStep
<1>2. CASE ServerStep
  BY <1>2, ListenStep, ListenFailsStep, AcceptStep, AcceptFailsStep, ServerHeaderStep,
     InvokesStep, DiscardedStep, RespondedStep, RefusedStep, ServerReadFailsStep,
     ServerWriteFailsStep, ServerClosesStep
  DEF ServerStep
<1>3. ASSUME NEW e \in Ends, EngineStep(e) \/ Killed(e) PROVE IInv'
  <2>1. CASE write_all(e) BY <2>1, EndFacts, ClientWritesStep, ServerWritesStep
  <2>2. CASE read_all(e) BY <2>2, EndFacts, ClientReadsStep, ServerReadsStep
  <2>3. CASE Sigpipe(e) \/ Killed(e)
    BY <2>3, EndFacts, ClientDiesStep, ServerDiesStep DEF Sigpipe, Killed
  <2>4. QED BY <1>3, <2>1, <2>2, <2>3 DEF EngineStep
<1>4. CASE UNCHANGED vars
  <2>1. UNCHANGED <<program, pc, fd, reset, chan, tx, rx, hdr, step, peer, sensor, exit, asked,
                    executed, results, sim>>
    BY <1>4 DEF vars, engineVars, clientVars
  <2>2. Types /\ Links /\ Counts /\ Failures /\ CallValues /\ Requests /\ Answers /\ Progress
    BY DEF IInv
  <2>3. In("client")' = In("client") /\ In("server")' = In("server")
    BY <2>1 DEF In, Taken
  <2>4. Types' /\ Links' BY <2>1, <2>2 DEF Types, Links
  <2>5. Counts' /\ Failures' /\ CallValues' /\ Progress' BY <2>1, <2>2, CallsKept
  <2>6. Requests' BY <2>1, <2>2, <2>3, RequestsKept
  <2>7. Answers' BY <2>1, <2>2, <2>3, AnswersKept
  <2>8. QED BY <2>4, <2>5, <2>6, <2>7 DEF IInv
<1>5. CASE Ended BY <1>4, <1>5 DEF Ended
<1>6. QED BY <1>1, <1>2, <1>3, <1>4, <1>5 DEF Next

\* In every state of a session both streams hold the beginning of the one frame that is due
\* on them, and calls, executions and results keep step.
THEOREM SessionInvariant == Spec => []IInv
BY InitHolds, StepHolds, PTL DEF Spec

\* Between two calls on a connection that was not reset nothing of an earlier answer is
\* left, and no answer is ever met by another call: of the branches of call<> only the one
\* for its own answer and the one for an error are reached.
THEOREM AnswersStayInStep == Spec => []InStep
<1>1. IInv => InStep
  <2> SUFFICES ASSUME IInv PROVE InStep
    OBVIOUS
  <2>1. Types /\ Counts /\ CallValues /\ Answers BY DEF IInv
  <2>2. pc["client"] = "ready" =>
          reset["client"] \/ (chan["client"] = << >> /\ tx["server"] = << >>)
    BY <2>1 DEF Answers
  <2>3. pc["client"] # "discard" BY <2>1 DEF Types, ClientPlaces, Waiting
  <2>4. ASSUME pc["client"] = "header", HasRead("client")
        PROVE  Received("client") \in
                 {<<k_magic, api_id.error, sizeof(ErrorResp)>>,
                  <<k_magic, api_id[Current], sizeof(desc[Current].resp)>>}
    <3>1. api_id.error = 0 /\ sizeof(ErrorResp) = 4 BY SizesAssumption DEF api_id
    <3>2. \/ Received("client") = <<k_magic, api_id[Current], sizeof(desc[Current].resp)>>
          \/ Received("client") = <<k_magic, 0, 4>>
      BY <2>1, <2>4, ClientHeaderFacts
    <3>3. QED BY <3>1, <3>2, Zenon
  <2>5. QED BY <2>2, <2>3, <2>4 DEF InStep
<1>2. QED BY <1>1, SessionInvariant, PTL

\* client.cpp ends with 0 only if every one of its sixteen calls was answered, those whose
\* failure it ignores included.
THEOREM ZeroMeansAnswered == Spec => []ExitZeroMeansAllAnswered
<1>1. IInv => ExitZeroMeansAllAnswered
  <2> SUFFICES ASSUME IInv, program = "client", exit = 0
               PROVE  /\ Len(results) = Len(Script[program])
                      /\ \A i \in DOMAIN results : results[i] # Failed
    BY DEF ExitZeroMeansAllAnswered
  <2>1. Len(results) = 16 /\ NoFailure BY DEF IInv, Progress
  <2>2. Len(Script[program]) = 16 BY DEF Script
  <2>3. DOMAIN results = 1..Len(results) BY DEF IInv, Types
  <2>4. QED BY <2>1, <2>2, <2>3 DEF NoFailure
<1>2. QED BY <1>1, SessionInvariant, PTL

\* When the call the client waits for fails, it fails in RpcCall too.
LEMMA FailsRefines ==
  ASSUME IInv, pc["client"] \in Waiting, results' = Append(results, Failed),
         UNCHANGED <<asked, executed, sim>>
  PROVE  Remote!Fail
<1>1. Len(asked) = Len(results) + 1 /\ Len(results) \in Nat BY DEF IInv, Counts, Types
<1>2. Len(results) < Len(asked) BY <1>1
<1>3. QED BY <1>2 DEF Remote!Fail

\* Every step of the session is a step of the remote call of RpcCall, or changes nothing
\* that RpcCall sees.
LEMMA StepRefines == IInv /\ [Next]_vars => [Remote!Next]_(Remote!vars)
<1> SUFFICES ASSUME IInv, [Next]_vars
             PROVE  Remote!Next \/ UNCHANGED <<asked, executed, results, sim>>
  BY DEF Remote!vars
<1>1. CASE Call
  <2>1. Types /\ Counts /\ Progress BY DEF IInv
  <2> DEFINE call == [api |-> Current, req |-> Argument(Current)]
  <2>2. /\ pc["client"] = "ready" /\ step <= Len(Script[program])
        /\ asked' = Append(asked, call) /\ UNCHANGED <<executed, results, sim>>
    BY <1>1 DEF Call, Current
  <2>3. call \in AllCalls BY <2>1, <2>2, CallFacts
  <2>4. Len(results) = Len(asked) BY <2>1, <2>2 DEF Counts, Waiting
  <2>5. Remote!Invoke(call) BY <2>2, <2>4 DEF Remote!Invoke
  <2>6. QED BY <2>3, <2>5 DEF Remote!Next
<1>2. CASE ServerInvokes
  <2>1. /\ Len(asked) > 0 /\ Len(executed) + 1 = Len(asked)
        /\ executed' = Append(executed, Serve(sim, LastCall).value)
        /\ sim' = Serve(sim, LastCall).service
    BY <1>2, InvokeFacts
  <2>2. UNCHANGED <<asked, results>> BY <1>2 DEF ServerInvokes
  <2>3. Types /\ Counts /\ Failures /\ pc["server"] \notin Gone
    BY <1>2 DEF IInv, ServerInvokes, Gone
  <2>4. Len(asked) \in Nat /\ Len(results) \in Nat /\ Len(executed) \in Nat
    BY <2>3 DEF Types
  <2>5. \A i \in 1..Len(results) : results[i] = Failed => ~(i < Len(asked))
    BY <2>3 DEF Failures
  <2>6. ~(\E i \in 1..(Len(asked) - 1) : i <= Len(results) /\ results[i] = Failed)
    BY <2>4, <2>5
  <2>7. ~Remote!FailedBefore(Len(executed) + 1) BY <2>1, <2>6 DEF Remote!FailedBefore
  <2>8. LastCall = asked[Len(executed) + 1] /\ Len(executed) + 1 <= Len(asked)
    BY <2>1, <2>4 DEF LastCall
  <2>9. Remote!Execute BY <2>1, <2>2, <2>7, <2>8 DEF Remote!Execute
  <2>10. QED BY <2>9 DEF Remote!Next
<1>3. CASE ClientPayload
  <2>1. /\ Answered /\ Len(asked) = Len(results) + 1 BY <1>3, PayloadFacts
  <2>2. results' = Append(results, LastValue) BY <1>3, ClientPayloadStep
  <2>3. UNCHANGED <<asked, executed, sim>> BY <1>3 DEF ClientPayload
  <2>4. Len(results) \in Nat BY DEF IInv, Types
  <2>5. Len(results) = Len(asked) - 1 /\ Len(executed) = Len(asked)
    BY <2>1, <2>4 DEF Answered
  <2>6. Remote!Return BY <2>2, <2>3, <2>5 DEF Remote!Return, LastValue
  <2>7. QED BY <2>6 DEF Remote!Next
<1>4. CASE ClientDropped \/ ClientReadFails \/ ClientWriteFails
  <2>1. pc["client"] \in Waiting
    BY <1>4 DEF IInv, Types, ClientPlaces, Waiting, ClientDropped, ClientReadFails, ReadFails,
                Reading, ClientWriteFails
  <2>2. results' = Append(results, Failed) /\ UNCHANGED <<asked, executed, sim>>
    BY <1>4 DEF ClientDropped, ClientReadFails, ClientWriteFails, Fails
  <2>3. QED BY <2>1, <2>2, FailsRefines DEF Remote!Next
<1>5. ASSUME NEW e \in Ends, Sigpipe(e) \/ Killed(e)
      PROVE  Remote!Next \/ UNCHANGED <<asked, executed, results, sim>>
  <2>1. Dies(e) /\ fd[e] = "open" BY <1>5 DEF Sigpipe, Killed
  <2>2. UNCHANGED <<asked, executed, sim>> BY <2>1 DEF Dies
  <2>3. CASE results' = results BY <2>2, <2>3
  <2>4. CASE results' # results
    <3>1. e = "client" /\ Len(results) < Len(asked) /\ results' = Append(results, Failed)
      BY <2>1, <2>4 DEF Dies
    <3>2. Remote!Fail BY <2>2, <3>1 DEF Remote!Fail
    <3>3. QED BY <3>2 DEF Remote!Next
  <2>5. QED BY <2>3, <2>4
<1>6. CASE ClientHeader
  <2>1. results' = results BY <1>6, ClientHeaderStep
  <2>2. QED BY <1>6, <2>1 DEF ClientHeader
<1>7. ASSUME \/ rpc_connect \/ ConnectFails \/ Sent \/ ClientEnds \/ ClientCloses
             \/ rpc_listen \/ ListenFails \/ rpc_accept \/ AcceptFails \/ ServerHeader
             \/ ServerDiscarded \/ Responded \/ Refused \/ ServerReadFails
             \/ ServerWriteFails \/ ServerCloses
             \/ (\E e \in Ends : write_all(e) \/ read_all(e))
             \/ Ended \/ UNCHANGED vars
      PROVE  UNCHANGED <<asked, executed, results, sim>>
  BY <1>7
  DEF rpc_connect, ConnectFails, Sent, ClientEnds, ClientCloses, rpc_listen, ListenFails,
      rpc_accept, AcceptFails, ServerHeader, ServerDiscarded, Responded, Refused,
      ServerReadFails, ServerWriteFails, ServerCloses, write_all, read_all, Ended, vars
<1>8. QED
  BY <1>1, <1>2, <1>3, <1>4, <1>5, <1>6, <1>7
  DEF Next, ClientStep, ServerStep, EngineStep

\* The engine implements the remote call of RpcCall, as far as safety goes: a call returns
\* exactly what its one execution computed for the argument it was made with, or it fails
\* and no call after it is executed, whatever is read and written at a time, refused, or
\* killed at any octet.
THEOREM ImplementsSafely == Spec => Remote!Init /\ [][Remote!Next]_(Remote!vars)
<1>1. Init => Remote!Init BY DEF Init, Remote!Init
<1>2. QED BY <1>1, SessionInvariant, StepRefines, PTL DEF Spec
=============================================================================
