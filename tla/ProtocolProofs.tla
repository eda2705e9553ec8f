--------------------------- MODULE ProtocolProofs ---------------------------
(***************************************************************************)
(* Machine-checked proofs about Protocol: what the decoders make of what   *)
(* the encoders wrote, whole or cut off at any byte, and what one          *)
(* connection makes of it, for any width of a byte and of the integers,    *)
(* any limits and any requests.                                            *)
(***************************************************************************)
EXTENDS Protocol, SequenceTheorems, Arithmetic

Bytes == Seq(Byte)

-----------------------------------------------------------------------------
(* Integers and their bytes                                                *)

LEMMA SpanType == \A w \in Nat : Span(w) \in Nat /\ Span(w) > 0
<1> TAKE w \in Nat
<1>1. ByteBits * w \in Nat
  BY ProtocolAssumption
<1> QED BY <1>1, PowerType DEF Span

LEMMA SpanSum == \A a, b \in Nat : Span(a + b) = Span(a) * Span(b)
<1> TAKE a, b \in Nat
<1>1. ByteBits * (a + b) = ByteBits * a + ByteBits * b
      /\ ByteBits * a \in Nat /\ ByteBits * b \in Nat
  BY ProtocolAssumption
<1> QED BY <1>1, PowerSum DEF Span

LEMMA SpanZero == Span(0) = 1
<1>1. ByteBits * 0 = 0
  BY ProtocolAssumption
<1>2. 2^0 = 1
  OBVIOUS
<1> QED BY <1>1, <1>2 DEF Span

\* A byte has at least four values.
LEMMA ByteFacts ==
  /\ Span(1) \in Nat /\ Span(1) > 3
  /\ Byte \subseteq Nat
  /\ {0, 1, 2} \subseteq Byte
<1>1. ByteBits - 2 \in Nat /\ ByteBits * 1 = (ByteBits - 2) + 2
  BY ProtocolAssumption
<1>2. Span(1) = 2^(ByteBits - 2) * 2^2
  BY <1>1, PowerSum DEF Span
<1>3. 2^2 = 4
  OBVIOUS
<1>4. 2^(ByteBits - 2) \in Nat /\ 2^(ByteBits - 2) > 0
  BY <1>1, PowerType
<1>5. Span(1) \in Nat /\ Span(1) > 3
  BY <1>2, <1>3, <1>4
<1> QED BY <1>5 DEF Byte

LEMMA WidthType == {W16, W32, W64} \subseteq Nat /\ W16 > 0 /\ W32 > 0 /\ W64 > 0
<1> QED BY ProtocolAssumption

LEMMA DigitsType ==
  ASSUME NEW n \in Int, NEW w \in Nat
  PROVE  Digits(n, w) \in Bytes /\ Len(Digits(n, w)) = w
<1>1. ASSUME NEW i \in 1 .. w PROVE (n \div Span(w - i)) % Span(1) \in Byte
  <2>1. Span(w - i) \in Nat /\ Span(w - i) > 0
    BY SpanType
  <2>2. n \div Span(w - i) \in Int
    BY <2>1, Division
  <2> QED BY <2>2, ByteFacts, Division DEF Byte
<1>2. Digits(n, w) \in [1 .. w -> Byte]
  BY <1>1 DEF Digits
<1> QED BY <1>2 DEF Bytes

\* The fold that Value is: the value of each prefix.
LEMMA ValuePrefixes ==
  ASSUME NEW s \in Bytes
  PROVE  \E v \in [0 .. Len(s) -> Nat] :
           /\ Value(s) = v[Len(s)]
           /\ v[0] = 0
           /\ \A i \in 1 .. Len(s) : v[i] = v[i - 1] * Span(1) + s[i]
<1> DEFINE Rec(v) == v = [i \in 0 .. Len(s) |-> IF i = 0 THEN 0 ELSE v[i - 1] * Span(1) + s[i]]
           F == [p \in Nat \X Nat |-> IF p[2] \in 1 .. Len(s) THEN p[1] * Span(1) + s[p[2]] ELSE 0]
<1>0. Len(s) \in Nat /\ \A i \in 1 .. Len(s) : s[i] \in Nat
  <2>1. Len(s) \in Nat /\ s \in [1 .. Len(s) -> Byte]
    BY LenProperties DEF Bytes
  <2> QED BY <2>1, ByteFacts
<1>1. F \in [Nat \X Nat -> Nat]
  BY <1>0, ByteFacts
<1>2. PICK v : IsRecursive(v, Len(s), Nat, 0, F)
  <2> HIDE DEF F
  <2> QED BY <1>0, <1>1, RecursiveFunction
<1>9. /\ v \in [0 .. Len(s) -> Nat] /\ v[0] = 0
      /\ \A i \in 1 .. Len(s) : v[i] = F[<<v[i - 1], i>>]
  BY <1>2 DEF IsRecursive
<1>3. ASSUME NEW i \in 1 .. Len(s)
      PROVE  v[i] = v[i - 1] * Span(1) + s[i]
  <2>1. i \in Nat /\ i - 1 \in 0 .. Len(s)
    BY <1>0
  <2>3. <<v[i - 1], i>> \in Nat \X Nat
    BY <1>9, <2>1
  <2> QED BY <1>9, <2>3
<1>4. Rec(v)
  <2>1. \A i \in 0 .. Len(s) : v[i] = IF i = 0 THEN 0 ELSE v[i - 1] * Span(1) + s[i]
    BY <1>0, <1>9, <1>3
  <2> QED BY <1>9, <2>1
<1>5. PICK u : u = CHOOSE x : Rec(x)
  OBVIOUS
<1>6. Rec(u) /\ Value(s) = u[Len(s)]
  <2>1. Rec(u)
    <3> HIDE DEF Rec
    <3> QED BY <1>4, <1>5
  <2> QED BY <1>5, <2>1 DEF Value
<1>7. u[0] = 0 /\ \A i \in 1 .. Len(s) : u[i] = u[i - 1] * Span(1) + s[i]
  BY <1>0, <1>6
<1>8. ASSUME NEW i \in 1 .. Len(s), u[i - 1] \in Nat
      PROVE  u[i] = F[<<u[i - 1], i>>]
  <2>1. <<u[i - 1], i>> \in Nat \X Nat
    BY <1>0, <1>8
  <2> QED BY <1>7, <2>1
<1>10. \A i \in 0 .. Len(s) : u[i] = v[i] /\ v[i] \in Nat
  <2> HIDE DEF F
  <2>1. Follows(u, Len(s), Nat, 0, F)
    BY <1>7, <1>8 DEF Follows
  <2> QED BY <1>0, <1>2, <2>1, OnlyRecursion
<1>11. Len(s) \in 0 .. Len(s)
  BY <1>0
<1>12. Value(s) = v[Len(s)]
  BY <1>6, <1>10, <1>11
<1> QED BY <1>3, <1>9, <1>12

LEMMA ValueType == \A s \in Bytes : Value(s) \in Nat
<1> TAKE s \in Bytes
<1>1. Len(s) \in 0 .. Len(s)
  BY DEF Bytes
<1> QED BY <1>1, ValuePrefixes

\* Reading a number gives the number that was written, if it fits.
LEMMA ValueOfDigits ==
  ASSUME NEW w \in Nat, NEW n \in 0 .. Span(w) - 1
  PROVE  Value(Digits(n, w)) = n
<1> DEFINE s == Digits(n, w)
<1>1. s \in Bytes /\ Len(s) = w
  BY DigitsType
<1>2. PICK v \in [0 .. w -> Nat] :
        /\ Value(s) = v[w]
        /\ v[0] = 0
        /\ \A i \in 1 .. w : v[i] = v[i - 1] * Span(1) + s[i]
  BY <1>1, ValuePrefixes
<1>3. \A i \in 1 .. w : s[i] = (n \div Span(w - i)) % Span(1)
  BY DEF Digits
<1> HIDE DEF s
<1> DEFINE T == {i \in Nat : i <= w => v[i] = n \div Span(w - i)}
<1>4. 0 \in T
  <2>1. n \div Span(w) = 0
    <3>1. PICK d \in Nat : d = Span(w) /\ d > 0
      BY SpanType
    <3>2. n \in 0 .. d - 1 /\ n = 0 * d + n
      BY <3>1
    <3> QED BY <3>1, <3>2, Quotient
  <2> QED BY <1>2, <2>1
<1>5. ASSUME NEW i \in Nat, i \in T PROVE i + 1 \in T
  <2>1. SUFFICES ASSUME i + 1 <= w PROVE v[i + 1] = n \div Span(w - (i + 1))
    OBVIOUS
  <2>2. i + 1 \in 1 .. w /\ w - (i + 1) \in Nat /\ w - i = (w - (i + 1)) + 1
    BY <2>1
  <2>3. PICK d \in Nat : d = Span(w - (i + 1)) /\ d > 0
    BY <2>2, SpanType
  <2>9. PICK e \in Nat : e = Span(1) /\ e > 0
    BY ByteFacts
  <2>4. Span(w - i) = d * e
    BY <2>2, <2>3, <2>9, SpanSum
  <2>5. PICK q \in Int : q = n \div d
    BY <2>3, Division
  <2>6. v[i] = q \div e
    <3>1. v[i] = n \div (d * e)
      BY <1>5, <2>1, <2>4
    <3>2. n \in Int /\ d > 0 /\ e > 0
      BY <2>3, <2>9
    <3>3. (n \div d) \div e = n \div (d * e)
      BY <3>2, DivideTwice
    <3> QED BY <2>5, <3>1, <3>3
  <2>7. v[i + 1] = v[i] * e + (q % e)
    BY <1>2, <1>3, <2>2, <2>3, <2>9, <2>5
  <2>8. q = (q \div e) * e + (q % e)
    BY <2>5, <2>9, Division
  <2> QED BY <2>3, <2>5, <2>6, <2>7, <2>8
<1>6. w \in T
  <2> HIDE DEF T
  <2> QED BY <1>4, <1>5, Induction
<1>7. v[w] = n \div Span(0)
  BY <1>6
<1>8. n \div 1 = n
  OBVIOUS
<1> QED BY <1>2, <1>7, <1>8, SpanZero DEF s

\* The bytes of a number and of its residue are the same.
LEMMA DigitsWrap ==
  ASSUME NEW w \in Nat, NEW n \in Int
  PROVE  Digits(n + Span(w), w) = Digits(n, w)
<1>1. ASSUME NEW i \in 1 .. w
      PROVE  ((n + Span(w)) \div Span(w - i)) % Span(1) = (n \div Span(w - i)) % Span(1)
  <2>1. w - i \in Nat /\ i - 1 \in Nat /\ w = (w - i) + ((i - 1) + 1)
    OBVIOUS
  <2>2. PICK d, k, e \in Nat : /\ d = Span(w - i) /\ d > 0
                               /\ k = Span(i - 1) /\ e = Span(1) /\ e > 0
    BY <2>1, SpanType
  <2>3. Span(w) = d * (k * e)
    <3>1. Span((i - 1) + 1) = k * e
      BY <2>1, <2>2, SpanSum
    <3>2. (i - 1) + 1 \in Nat
      OBVIOUS
    <3> QED BY <2>1, <2>2, <3>1, <3>2, SpanSum
  <2>4. PICK q \in Int, r \in 0 .. d - 1 : q = n \div d /\ n = q * d + r
    BY <2>2, Division
  <2>5. PICK x \in Int, y \in Int : x = n + Span(w) /\ y = q + k * e
    BY SpanType
  <2>6. x \div d = y
    <3>1. PICK z \in Nat : z = k * e
      OBVIOUS
    <3>2. x = q * d + r + d * z /\ y = q + z
      BY <2>3, <2>4, <2>5, <3>1
    <3>3. x = y * d + r
      BY <3>2
    <3> QED BY <2>2, <3>3, Quotient
  <2>7. PICK p \in Int, m \in 0 .. e - 1 : p = q \div e /\ m = q % e /\ q = p * e + m
    <3>1. q \div e \in Int /\ q % e \in 0 .. e - 1 /\ q = (q \div e) * e + (q % e)
      BY <2>2, Division
    <3> QED BY <3>1
  <2>8. y % e = m
    <3>1. y = (p + k) * e + m
      BY <2>5, <2>7
    <3>2. p + k \in Int
      OBVIOUS
    <3> QED BY <2>2, <3>1, <3>2, Quotient
  <2> QED BY <2>2, <2>4, <2>5, <2>6, <2>7, <2>8
<1> QED BY <1>1 DEF Digits

\* Two's complement gives back the int64 that was written.
LEMMA SignedOfDigits ==
  ASSUME NEW t \in -(Span(W64) \div 2) .. Span(W64) \div 2 - 1
  PROVE  Signed(Digits(t, W64)) = t
<1>1. PICK h \in Nat : Span(W64) = 2 * h
  <2>1. W64 - 1 \in Nat /\ W64 = 1 + (W64 - 1) /\ ByteBits - 1 \in Nat /\ ByteBits * 1 = (ByteBits - 1) + 1
    BY ProtocolAssumption
  <2>2. PICK b \in Nat : Span(1) = 2 * b
    BY <2>1, PowerNext, PowerType DEF Span
  <2>3. PICK c \in Nat : Span(W64) = (2 * b) * c
    <3>1. Span(1 + (W64 - 1)) = Span(1) * Span(W64 - 1)
      BY <2>1, SpanSum
    <3> QED BY <2>1, <2>2, <3>1, SpanType
  <2>4. (2 * b) * c = 2 * (b * c) /\ b * c \in Nat
    OBVIOUS
  <2> QED BY <2>3, <2>4
<1>2. W64 \in Nat /\ t \in -h .. h - 1
  <2>1. Span(W64) \div 2 = h
    BY <1>1
  <2> QED BY <2>1, WidthType
<1>3. CASE t >= 0
  <2>1. Value(Digits(t, W64)) = t
    BY <1>1, <1>2, <1>3, ValueOfDigits
  <2> QED BY <1>1, <1>2, <2>1 DEF Signed
<1>4. CASE t < 0
  <2>1. t + 2 * h \in 0 .. Span(W64) - 1
    BY <1>1, <1>2, <1>4
  <2>2. Value(Digits(t + 2 * h, W64)) = t + 2 * h
    BY <1>2, <2>1, ValueOfDigits
  <2>3. Value(Digits(t, W64)) = t + 2 * h
    BY <1>1, <1>2, <2>2, DigitsWrap
  <2> QED BY <1>1, <1>2, <2>3 DEF Signed
<1> QED BY <1>2, <1>3, <1>4

-----------------------------------------------------------------------------
(* Reading what has arrived                                                *)

LEMMA Split ==
  ASSUME NEW a \in Bytes, NEW b \in Bytes
  PROVE  /\ a \o b \in Bytes /\ Len(a \o b) = Len(a) + Len(b)
         /\ SubSeq(a \o b, 1, Len(a)) = a
         /\ SubSeq(a \o b, Len(a) + 1, Len(a \o b)) = b
<1> USE DEF Bytes
<1>1. /\ a \o b \in Bytes /\ Len(a \o b) = Len(a) + Len(b)
      /\ \A i \in 1 .. Len(a) + Len(b) : (a \o b)[i] = IF i <= Len(a) THEN a[i] ELSE b[i - Len(a)]
  BY ConcatProperties
<1>2. PICK m, n \in Nat : m = Len(a) /\ n = Len(b) /\ Len(a \o b) = m + n
  BY <1>1, LenProperties
<1>3. PICK c \in Seq(Byte) : c = a \o b
  BY <1>1
<1>4. SubSeq(c, 1, m) = a
  <2>1. \A i \in 1 .. m : c[i] \in Byte
    BY <1>1, <1>2, <1>3, ElementOfSeq
  <2>2. /\ SubSeq(c, 1, m) \in Seq(Byte)
        /\ Len(SubSeq(c, 1, m)) = IF 1 <= m THEN m - 1 + 1 ELSE 0
        /\ \A i \in 1 .. m - 1 + 1 : SubSeq(c, 1, m)[i] = c[1 + i - 1]
    BY <2>1, SubSeqProperties
  <2>3. Len(SubSeq(c, 1, m)) = m /\ \A i \in 1 .. m : SubSeq(c, 1, m)[i] = c[i]
    BY <2>2
  <2>4. \A i \in 1 .. m : c[i] = a[i]
    BY <1>1, <1>2, <1>3
  <2> QED BY <1>2, <2>2, <2>3, <2>4, SeqEqual
<1>5. SubSeq(c, m + 1, m + n) = b
  <2>1. \A i \in m + 1 .. m + n : c[i] \in Byte
    <3>1. \A i \in m + 1 .. m + n : i \in 1 .. Len(c)
      BY <1>2, <1>3
    <3> QED BY <3>1, ElementOfSeq
  <2>2. m + 1 \in Int /\ m + n \in Int
    OBVIOUS
  <2>3. /\ SubSeq(c, m + 1, m + n) \in Seq(Byte)
        /\ Len(SubSeq(c, m + 1, m + n)) = IF m + 1 <= m + n THEN (m + n) - (m + 1) + 1 ELSE 0
        /\ \A i \in 1 .. (m + n) - (m + 1) + 1 : SubSeq(c, m + 1, m + n)[i] = c[(m + 1) + i - 1]
    BY <2>1, <2>2, SubSeqProperties
  <2>4. Len(SubSeq(c, m + 1, m + n)) = n /\ \A i \in 1 .. n : SubSeq(c, m + 1, m + n)[i] = c[m + i]
    BY <2>3
  <2>5. \A i \in 1 .. n : c[m + i] = b[i]
    <3> TAKE i \in 1 .. n
    <3>1. m + i \in 1 .. m + n /\ ~(m + i <= m) /\ (m + i) - m = i
      OBVIOUS
    <3> QED BY <1>1, <1>2, <1>3, <3>1
  <2>6. PICK d \in Seq(Byte) : d = SubSeq(c, m + 1, m + n)
    BY <2>3
  <2>7. Len(d) = n /\ \A i \in 1 .. n : d[i] = b[i]
    BY <2>4, <2>5, <2>6
  <2>8. d = b
    BY <1>2, <2>7, SeqEqual
  <2> QED BY <2>6, <2>8
<1> QED BY <1>1, <1>2, <1>3, <1>4, <1>5

\* Any sequence of bytes is its first n bytes and the rest.
LEMMA Cut ==
  ASSUME NEW s \in Bytes, NEW n \in 0 .. Len(s)
  PROVE  /\ SubSeq(s, 1, n) \in Bytes /\ Len(SubSeq(s, 1, n)) = n
         /\ SubSeq(s, n + 1, Len(s)) \in Bytes
         /\ s = SubSeq(s, 1, n) \o SubSeq(s, n + 1, Len(s))
<1> USE DEF Bytes
<1>1. Len(s) \in Nat /\ \A i \in 1 .. Len(s) : s[i] \in Byte
  BY LenProperties
<1>2. /\ SubSeq(s, 1, n) \in Bytes
      /\ Len(SubSeq(s, 1, n)) = IF 1 <= n THEN n - 1 + 1 ELSE 0
  BY <1>1, SubSeqProperties
<1>3. SubSeq(s, n + 1, Len(s)) \in Bytes
  BY <1>1, SubSeqProperties
<1>4. SubSeq(s, 1, n) \o SubSeq(s, n + 1, Len(s)) = SubSeq(s, 1, Len(s))
  <2>1. 1 \in 1 .. Len(s) + 1 /\ n \in 1 - 1 .. Len(s) /\ Len(s) \in n .. Len(s)
    BY <1>1
  <2> QED BY <2>1, ConcatAdjacentSubSeq
<1>5. SubSeq(s, 1, Len(s)) = s
  BY SubSeqFull
<1>6. Len(SubSeq(s, 1, n)) = n
  <2>1. n \in Nat
    BY <1>1
  <2>2. CASE n = 0
    BY <1>2, <2>2
  <2>3. CASE n # 0
    <3>1. 1 <= n /\ n - 1 + 1 = n
      BY <2>1, <2>3
    <3>2. Len(SubSeq(s, 1, n)) = n - 1 + 1
      BY <1>2, <3>1
    <3> QED BY <3>1, <3>2
  <2> QED BY <2>2, <2>3
<1> QED BY <1>2, <1>3, <1>4, <1>5, <1>6

LEMMA OkParts == \A v, u : Ok(v, u).err = "nil" /\ Ok(v, u).val = v /\ Ok(v, u).rest = u
<1> QED BY DEF Ok

LEMMA FailParts == \A e : Fail(e).err = e
<1> QED BY DEF Fail

\* More bytes behind what a reader takes do not change what it takes.
Goes(r, more, t) ==
  r.err = "nil" => /\ r.rest \in Bytes
                   /\ r = Ok(r.val, r.rest)
                   /\ more = Ok(r.val, r.rest \o t)

LEMMA ReadFullWhole ==
  ASSUME NEW a \in Bytes, NEW b \in Bytes
  PROVE  ReadFull(a \o b, Len(a)) = Ok(a, b)
<1>1. Len(a \o b) >= Len(a)
  <2>1. Len(a) \in Nat /\ Len(b) \in Nat
    BY DEF Bytes
  <2> QED BY <2>1, Split
<1> QED BY <1>1, Split DEF ReadFull

LEMMA ReadFullGoes ==
  ASSUME NEW s \in Bytes, NEW t \in Bytes, NEW n \in Nat
  PROVE  /\ Goes(ReadFull(s, n), ReadFull(s \o t, n), t)
         /\ ReadFull(s, n).err = "nil" => ReadFull(s, n).val \in Bytes
<1> SUFFICES ASSUME ReadFull(s, n).err = "nil"
             PROVE  /\ Goes(ReadFull(s, n), ReadFull(s \o t, n), t)
                    /\ ReadFull(s, n).val \in Bytes
  BY DEF Goes
<1>1. Len(s) >= n
  BY FailParts DEF ReadFull
<1>2. PICK a, b \in Bytes : s = a \o b /\ Len(a) = n /\ a = SubSeq(s, 1, n) /\ b = SubSeq(s, n + 1, Len(s))
  <2>1. n \in 0 .. Len(s)
    BY <1>1, LenProperties DEF Bytes
  <2> QED BY <2>1, Cut
<1>3. ReadFull(s, n) = Ok(a, b)
  BY <1>2, ReadFullWhole
<1>4. s \o t = a \o (b \o t) /\ b \o t \in Bytes
  <2>1. (a \o b) \o t = a \o (b \o t)
    BY ConcatAssociative DEF Bytes
  <2>2. b \o t \in Bytes
    BY ConcatProperties DEF Bytes
  <2> QED BY <1>2, <2>1, <2>2
<1>5. ReadFull(s \o t, n) = Ok(a, b \o t)
  BY <1>2, <1>4, ReadFullWhole
<1> QED BY <1>3, <1>5, OkParts DEF Goes

LEMMA Taken ==
  ASSUME NEW r, NEW more, NEW t, Goes(r, more, t), r.err = "nil"
  PROVE  \E v : \E u \in Bytes : r = Ok(v, u) /\ r.val = v /\ more = Ok(v, u \o t)
<1> QED BY DEF Goes

LEMMA Joined == \A a, b \in Bytes : a \o b \in Bytes
<1> QED BY ConcatProperties DEF Bytes

LEMMA Associated == \A a, b, c \in Bytes : (a \o b) \o c = a \o (b \o c)
<1> QED BY ConcatAssociative DEF Bytes

LEMMA String16Goes ==
  ASSUME NEW s \in Bytes, NEW t \in Bytes
  PROVE  /\ Goes(readString16(s), readString16(s \o t), t)
         /\ readString16(s).err = "nil" => readString16(s).val \in Bytes
<1> SUFFICES ASSUME readString16(s).err = "nil"
             PROVE  /\ Goes(readString16(s), readString16(s \o t), t)
                    /\ readString16(s).val \in Bytes
  BY DEF Goes
<1>1. ReadFull(s, W16).err = "nil"
  BY DEF readString16, Then
<1>2. PICK n \in Bytes, u \in Bytes : ReadFull(s, W16) = Ok(n, u) /\ ReadFull(s \o t, W16) = Ok(n, u \o t)
  BY <1>1, WidthType, ReadFullGoes, Taken
<1>3. readString16(s) = ReadFull(u, Value(n)) /\ readString16(s \o t) = ReadFull(u \o t, Value(n))
  BY <1>2, OkParts DEF readString16, Then
<1>4. Value(n) \in Nat
  BY ValueType
<1> QED BY <1>3, <1>4, ReadFullGoes

LEMMA Bytes32Goes ==
  ASSUME NEW s \in Bytes, NEW t \in Bytes, NEW max \in Nat
  PROVE  /\ Goes(readBytes32(s, max), readBytes32(s \o t, max), t)
         /\ readBytes32(s, max).err = "nil" => readBytes32(s, max).val \in Bytes
<1> SUFFICES ASSUME readBytes32(s, max).err = "nil"
             PROVE  /\ Goes(readBytes32(s, max), readBytes32(s \o t, max), t)
                    /\ readBytes32(s, max).val \in Bytes
  BY DEF Goes
<1>1. ReadFull(s, W32).err = "nil"
  BY DEF readBytes32, Then
<1>2. PICK n \in Bytes, u \in Bytes : ReadFull(s, W32) = Ok(n, u) /\ ReadFull(s \o t, W32) = Ok(n, u \o t)
  BY <1>1, WidthType, ReadFullGoes, Taken
<1>3. ~(Value(n) > max)
  BY <1>2, OkParts, FailParts DEF readBytes32, Then
<1>4. /\ readBytes32(s, max) = NotEOF(ReadFull(u, Value(n)))
      /\ readBytes32(s \o t, max) = NotEOF(ReadFull(u \o t, Value(n)))
  BY <1>2, <1>3, OkParts DEF readBytes32, Then
<1>5. Value(n) \in Nat
  BY ValueType
<1>6. ReadFull(u, Value(n)).err = "nil"
  BY <1>4, FailParts DEF NotEOF
<1>7. PICK v \in Bytes, x \in Bytes : /\ ReadFull(u, Value(n)) = Ok(v, x)
                                      /\ ReadFull(u \o t, Value(n)) = Ok(v, x \o t)
  BY <1>5, <1>6, ReadFullGoes, Taken
<1>8. readBytes32(s, max) = Ok(v, x) /\ readBytes32(s \o t, max) = Ok(v, x \o t)
  BY <1>4, <1>7, OkParts DEF NotEOF
<1> QED BY <1>8, OkParts DEF Goes

LEMMA ExampleBytes32Goes ==
  ASSUME NEW s \in Bytes, NEW t \in Bytes
  PROVE  /\ Goes(exampleReadBytes32(s), exampleReadBytes32(s \o t), t)
         /\ exampleReadBytes32(s).err = "nil" => exampleReadBytes32(s).val \in Bytes
<1> SUFFICES ASSUME exampleReadBytes32(s).err = "nil"
             PROVE  /\ Goes(exampleReadBytes32(s), exampleReadBytes32(s \o t), t)
                    /\ exampleReadBytes32(s).val \in Bytes
  BY DEF Goes
<1>1. ReadFull(s, W32).err = "nil"
  BY DEF exampleReadBytes32, Then
<1>2. PICK n \in Bytes, u \in Bytes : ReadFull(s, W32) = Ok(n, u) /\ ReadFull(s \o t, W32) = Ok(n, u \o t)
  BY <1>1, WidthType, ReadFullGoes, Taken
<1>3. /\ exampleReadBytes32(s) = ReadFull(u, Value(n))
      /\ exampleReadBytes32(s \o t) = ReadFull(u \o t, Value(n))
  BY <1>2, OkParts DEF exampleReadBytes32, Then
<1>4. Value(n) \in Nat
  BY ValueType
<1> QED BY <1>3, <1>4, ReadFullGoes

\* What was written as a string or a byte slice is read back.
LEMMA String16Whole ==
  ASSUME NEW v \in Bytes, Len(v) < Span(W16), NEW t \in Bytes
  PROVE  /\ writeString16(v) \in Bytes
         /\ readString16(writeString16(v) \o t) = Ok(v, t)
<1>1. Len(v) \in Nat /\ W16 \in Nat
  BY WidthType, LenProperties DEF Bytes
<1>2. PICK n \in Bytes : n = Digits(Len(v), W16) /\ Len(n) = W16
  BY <1>1, DigitsType
<1>3. Value(n) = Len(v)
  <2>1. Len(v) \in 0 .. Span(W16) - 1
    BY <1>1, SpanType
  <2> QED BY <1>1, <1>2, <2>1, ValueOfDigits
<1>4. writeString16(v) = n \o v /\ v \o t \in Bytes /\ (n \o v) \o t = n \o (v \o t)
  BY <1>2, Joined, Associated DEF writeString16
<1>5. ReadFull(n \o (v \o t), W16) = Ok(n, v \o t) /\ ReadFull(v \o t, Value(n)) = Ok(v, t)
  BY <1>2, <1>3, <1>4, ReadFullWhole
<1>6. readString16(n \o (v \o t)) = ReadFull(v \o t, Value(n))
  BY <1>5, OkParts DEF readString16, Then
<1> QED BY <1>4, <1>5, <1>6, Joined

\* A byte slice: longer than the limit, or read back.
LEMMA Bytes32Whole ==
  ASSUME NEW v \in Bytes, Len(v) < Span(W32), NEW t \in Bytes, NEW max \in Nat
  PROVE  /\ writeBytes32(v) \in Bytes /\ writeBytes32(v) # <<>>
         /\ readBytes32(writeBytes32(v) \o t, max) =
              IF Len(v) > max THEN Fail("frameTooLarge") ELSE Ok(v, t)
         /\ exampleReadBytes32(writeBytes32(v) \o t) = Ok(v, t)
<1>1. Len(v) \in Nat /\ W32 \in Nat /\ W32 > 0
  BY WidthType, LenProperties DEF Bytes
<1>2. PICK n \in Bytes : n = Digits(Len(v), W32) /\ Len(n) = W32
  BY <1>1, DigitsType
<1>3. Value(n) = Len(v)
  <2>1. Len(v) \in 0 .. Span(W32) - 1
    BY <1>1, SpanType
  <2> QED BY <1>1, <1>2, <2>1, ValueOfDigits
<1>4. writeBytes32(v) = n \o v /\ v \o t \in Bytes /\ (n \o v) \o t = n \o (v \o t)
  BY <1>2, Joined, Associated DEF writeBytes32
<1>5. ReadFull(n \o (v \o t), W32) = Ok(n, v \o t) /\ ReadFull(v \o t, Value(n)) = Ok(v, t)
  BY <1>2, <1>3, <1>4, ReadFullWhole
<1>6. /\ readBytes32(n \o (v \o t), max) =
           IF Value(n) > max THEN Fail("frameTooLarge") ELSE NotEOF(ReadFull(v \o t, Value(n)))
      /\ exampleReadBytes32(n \o (v \o t)) = ReadFull(v \o t, Value(n))
  BY <1>5, OkParts DEF readBytes32, exampleReadBytes32, Then
<1>7. NotEOF(Ok(v, t)) = Ok(v, t)
  BY OkParts DEF NotEOF
<1>8. n \o v # <<>>
  <2>1. Len(n \o v) = Len(n) + Len(v)
    BY Split
  <2>2. Len(n \o v) > 0
    BY <1>1, <1>2, <2>1
  <2>3. Len(<<>>) = 0
    OBVIOUS
  <2> QED BY <2>2, <2>3
<1> QED BY <1>3, <1>4, <1>5, <1>6, <1>7, <1>8, Joined

-----------------------------------------------------------------------------
(* Lists of strings                                                        *)

\* What readStrings may give.
StringsRead == [err : {"nil", "EOF", "unexpectedEOF"}, val : Seq(Bytes), rest : Bytes]

LEMMA ReadFullFails ==
  ASSUME NEW s, NEW n, ReadFull(s, n).err # "nil"
  PROVE  \E e \in {"EOF", "unexpectedEOF"} : ReadFull(s, n) = Fail(e)
<1>1. ~(Len(s) >= n)
  BY OkParts DEF ReadFull
<1> QED BY <1>1 DEF ReadFull

LEMMA String16Fails ==
  ASSUME NEW s \in Bytes, readString16(s).err # "nil"
  PROVE  \E e \in {"EOF", "unexpectedEOF"} : readString16(s) = Fail(e)
<1>1. CASE ReadFull(s, W16).err # "nil"
  <2>1. readString16(s) = ReadFull(s, W16)
    BY <1>1 DEF readString16, Then
  <2> QED BY <1>1, <2>1, ReadFullFails
<1>2. CASE ReadFull(s, W16).err = "nil"
  <2>1. <<>> \in Bytes
    BY DEF Bytes
  <2>2. PICK n \in Bytes, u \in Bytes : ReadFull(s, W16) = Ok(n, u)
    BY <1>2, <2>1, WidthType, ReadFullGoes, Taken
  <2>3. readString16(s) = ReadFull(u, Value(n))
    BY <2>2, OkParts DEF readString16, Then
  <2> QED BY <2>3, ReadFullFails
<1> QED BY <1>1, <1>2

LEMMA AppendType == \A r \in StringsRead : AppendString16(r) \in StringsRead
<1> TAKE r \in StringsRead
<1> <<>> \in Bytes /\ <<>> \in Seq(Bytes)
  BY DEF Bytes
<1>1. CASE r.err # "nil"
  <2>1. AppendString16(r) = r
    BY <1>1 DEF AppendString16, Then
  <2> QED BY <2>1
<1>2. CASE r.err = "nil"
  <2>1. r.rest \in Bytes /\ r.val \in Seq(Bytes)
    BY DEF StringsRead
  <2>2. PICK q : q = readString16(r.rest)
    OBVIOUS
  <2>3. AppendString16(r) = IF q.err = "nil" THEN Ok(Append(r.val, q.val), q.rest) ELSE q
    BY <1>2, <2>2 DEF AppendString16, Then
  <2>4. CASE q.err = "nil"
    <3>1. q.val \in Bytes /\ q.rest \in Bytes
      BY <2>1, <2>2, <2>4, String16Goes DEF Goes
    <3>2. Append(r.val, q.val) \in Seq(Bytes)
      BY <2>1, <3>1
    <3> QED BY <2>3, <2>4, <3>1, <3>2 DEF Ok, StringsRead
  <2>5. CASE q.err # "nil"
    <3>1. PICK e \in {"EOF", "unexpectedEOF"} : q = Fail(e)
      BY <2>1, <2>2, <2>5, String16Fails
    <3> QED BY <2>3, <2>5, <3>1 DEF Fail, StringsRead
  <2> QED BY <2>4, <2>5
<1> QED BY <1>1, <1>2

\* readStrings reads one string after the other.
LEMMA StringsSteps ==
  ASSUME NEW s \in Bytes
  PROVE  /\ readStrings(s, 0) = Ok(<<>>, s)
         /\ \A n \in Nat : /\ readStrings(s, n) \in StringsRead
                           /\ readStrings(s, n + 1) = AppendString16(readStrings(s, n))
<1> DEFINE base == Ok(<<>>, s)
           F == [p \in StringsRead \X Nat |-> AppendString16(p[1])]
           Rec(v, n) == v = [i \in 0 .. n |-> IF i = 0 THEN base ELSE AppendString16(v[i - 1])]
           f(n) == CHOOSE v : Rec(v, n)
<1>1. base \in StringsRead
  <2>1. <<>> \in Seq(Bytes)
    OBVIOUS
  <2> QED BY <2>1 DEF Ok, StringsRead
<1>2. F \in [StringsRead \X Nat -> StringsRead]
  <2>1. \A p \in StringsRead \X Nat : AppendString16(p[1]) \in StringsRead
    BY AppendType
  <2> QED BY <2>1
<1>3. ASSUME NEW n \in Nat, NEW v, IsRecursive(v, n, StringsRead, base, F)
      PROVE  Rec(v, n)
  <2> HIDE DEF base
  <2>1. /\ v \in [0 .. n -> StringsRead] /\ v[0] = base
        /\ \A i \in 1 .. n : v[i] = F[<<v[i - 1], i>>]
    BY <1>3 DEF IsRecursive
  <2>2. \A i \in 1 .. n : v[i] = AppendString16(v[i - 1])
    <3> TAKE i \in 1 .. n
    <3>1. v[i - 1] \in StringsRead /\ i \in Nat
      BY <2>1
    <3> QED BY <2>1, <3>1
  <2>3. \A i \in 0 .. n : v[i] = IF i = 0 THEN base ELSE AppendString16(v[i - 1])
    BY <2>1, <2>2
  <2> QED BY <2>1, <2>3
<1>4. ASSUME NEW n \in Nat, NEW v, Rec(v, n), NEW m \in 0 .. n
      PROVE  Follows(v, m, StringsRead, base, F)
  <2> HIDE DEF base
  <2>1. v[0] = base
    BY <1>4
  <2>2. ASSUME NEW i \in 1 .. m, v[i - 1] \in StringsRead PROVE v[i] = F[<<v[i - 1], i>>]
    <3>1. i \in 0 .. n /\ i # 0 /\ i \in Nat
      OBVIOUS
    <3>2. v[i] = AppendString16(v[i - 1])
      BY <1>4, <3>1
    <3> QED BY <2>2, <3>1, <3>2
  <2> QED BY <2>1, <2>2 DEF Follows
<1>5. ASSUME NEW n \in Nat
      PROVE  \E v : IsRecursive(v, n, StringsRead, base, F)
  <2> HIDE DEF base, F
  <2> QED BY <1>1, <1>2, RecursiveFunction
<1>6. ASSUME NEW n \in Nat PROVE Rec(f(n), n)
  <2>1. PICK v : Rec(v, n)
    <3> HIDE DEF F, Rec, base
    <3> QED BY <1>3, <1>5
  <2> HIDE DEF Rec
  <2> QED BY <2>1
<1>7. \A n \in Nat : readStrings(s, n) = f(n)[n]
  BY DEF readStrings
<1> HIDE DEF f
<1>8. ASSUME NEW n \in Nat
      PROVE  \A i \in 0 .. n : f(n + 1)[i] = f(n)[i] /\ f(n)[i] \in StringsRead
  <2>1. PICK v : IsRecursive(v, n, StringsRead, base, F)
    BY <1>5
  <2>2. PICK g, h : g = f(n) /\ h = f(n + 1) /\ Rec(g, n) /\ Rec(h, n + 1)
    BY <1>6
  <2> HIDE DEF F, Rec, base
  <2>3. Follows(g, n, StringsRead, base, F) /\ Follows(h, n, StringsRead, base, F)
    <3>1. n \in 0 .. n /\ n \in 0 .. n + 1 /\ n + 1 \in Nat
      OBVIOUS
    <3> QED BY <1>4, <2>2, <3>1
  <2>4. \A i \in 0 .. n : g[i] = v[i] /\ v[i] \in StringsRead
    BY <2>1, <2>3, OnlyRecursion
  <2>5. \A i \in 0 .. n : h[i] = v[i]
    BY <2>1, <2>3, OnlyRecursion
  <2> QED BY <2>2, <2>4, <2>5
<1>9. ASSUME NEW n \in Nat
      PROVE  readStrings(s, n + 1) = AppendString16(readStrings(s, n))
  <2>1. PICK h : h = f(n + 1) /\ Rec(h, n + 1)
    BY <1>6
  <2>2. h[n + 1] = AppendString16(h[n])
    <3>1. n + 1 \in 0 .. n + 1 /\ n + 1 # 0 /\ (n + 1) - 1 = n
      OBVIOUS
    <3> HIDE DEF base
    <3>2. h[n + 1] = AppendString16(h[(n + 1) - 1])
      BY <2>1, <3>1
    <3> QED BY <3>1, <3>2
  <2>3. h[n] = f(n)[n]
    BY <1>8, <2>1
  <2> QED BY <1>7, <2>1, <2>2, <2>3
<1>10. \A n \in Nat : readStrings(s, n) \in StringsRead
  BY <1>7, <1>8
<1>11. readStrings(s, 0) = base
  <2>1. PICK h : h = f(0) /\ Rec(h, 0)
    BY <1>6
  <2>2. h[0] = base
    <3> HIDE DEF base
    <3> QED BY <2>1
  <2> QED BY <1>7, <2>1, <2>2
<1> QED BY <1>9, <1>10, <1>11

LEMMA StringsGoes ==
  ASSUME NEW s \in Bytes, NEW t \in Bytes, NEW n \in Nat
  PROVE  /\ Goes(readStrings(s, n), readStrings(s \o t, n), t)
         /\ readStrings(s, n).err = "nil" => readStrings(s, n).val \in Seq(Bytes)
<1>1. s \o t \in Bytes
  BY Joined
<1> DEFINE T == {k \in Nat : Goes(readStrings(s, k), readStrings(s \o t, k), t)}
<1>2. 0 \in T
  BY <1>1, StringsSteps, OkParts DEF Goes
<1>3. ASSUME NEW k \in Nat, k \in T PROVE k + 1 \in T
  <2>1. SUFFICES ASSUME readStrings(s, k + 1).err = "nil"
                 PROVE  Goes(readStrings(s, k + 1), readStrings(s \o t, k + 1), t)
    BY DEF Goes
  <2>2. PICK q, p : /\ q = readStrings(s, k) /\ q \in StringsRead
                    /\ p = readStrings(s \o t, k)
                    /\ readStrings(s, k + 1) = AppendString16(q)
                    /\ readStrings(s \o t, k + 1) = AppendString16(p)
    BY <1>1, StringsSteps
  <2>3. q.err = "nil" /\ Goes(q, p, t)
    BY <1>3, <2>1, <2>2 DEF AppendString16, Then
  <2>4. PICK cs, u : u \in Bytes /\ q = Ok(cs, u) /\ p = Ok(cs, u \o t)
    BY <2>3, Taken
  <2>5. PICK x, y : x = readString16(u) /\ y = readString16(u \o t)
    OBVIOUS
  <2>6. /\ AppendString16(q) = IF x.err = "nil" THEN Ok(Append(cs, x.val), x.rest) ELSE x
        /\ AppendString16(p) = IF y.err = "nil" THEN Ok(Append(cs, y.val), y.rest) ELSE y
    BY <2>4, <2>5, OkParts DEF AppendString16, Then
  <2>7. x.err = "nil"
    BY <2>1, <2>2, <2>6
  <2>8. PICK c, z : z \in Bytes /\ x = Ok(c, z) /\ y = Ok(c, z \o t)
    BY <2>4, <2>5, <2>7, String16Goes, Taken
  <2>9. AppendString16(q) = Ok(Append(cs, c), z) /\ AppendString16(p) = Ok(Append(cs, c), z \o t)
    BY <2>6, <2>8, OkParts
  <2> QED BY <2>2, <2>8, <2>9, OkParts DEF Goes
<1>4. n \in T
  <2> HIDE DEF T
  <2> QED BY <1>2, <1>3, Induction
<1>5. readStrings(s, n).val \in Seq(Bytes)
  BY StringsSteps DEF StringsRead
<1> QED BY <1>4, <1>5

\* Sequences joined one after the other.
LEMMA FlattenPrefixes ==
  ASSUME NEW e \in Seq(Bytes)
  PROVE  \E v \in [0 .. Len(e) -> Bytes] :
           /\ FlattenSeq(e) = v[Len(e)]
           /\ v[0] = <<>>
           /\ \A i \in 1 .. Len(e) : v[i] = v[i - 1] \o e[i]
<1> DEFINE Rec(v) == v = [i \in 1 .. Len(e) |-> IF i = 1 THEN e[i] ELSE v[i - 1] \o e[i]]
           F == [p \in Bytes \X Nat |-> IF p[2] \in 1 .. Len(e) THEN p[1] \o e[p[2]] ELSE <<>>]
<1>1. Len(e) \in Nat /\ (\A i \in 1 .. Len(e) : e[i] \in Bytes) /\ <<>> \in Bytes
  BY LenProperties DEF Bytes
<1>2. F \in [Bytes \X Nat -> Bytes]
  BY <1>1, Joined
<1>3. PICK v : IsRecursive(v, Len(e), Bytes, <<>>, F)
  <2> HIDE DEF F
  <2> QED BY <1>1, <1>2, RecursiveFunction
<1>4. /\ v \in [0 .. Len(e) -> Bytes] /\ v[0] = <<>>
      /\ \A i \in 1 .. Len(e) : v[i] = F[<<v[i - 1], i>>]
  BY <1>3 DEF IsRecursive
<1>5. ASSUME NEW i \in 1 .. Len(e) PROVE v[i] = v[i - 1] \o e[i]
  <2>1. <<v[i - 1], i>> \in Bytes \X Nat
    BY <1>1, <1>4
  <2> QED BY <1>4, <2>1
<1>6. CASE Len(e) = 0
  <2>1. FlattenSeq(e) = e /\ e = <<>>
    BY <1>6, EmptySeq DEF FlattenSeq
  <2> QED BY <1>4, <1>5, <1>6, <2>1
<1>7. CASE Len(e) # 0
  <2> DEFINE w == [i \in 1 .. Len(e) |-> v[i]]
  <2>1. Rec(w)
    <3>1. \A i \in 1 .. Len(e) : v[i] = IF i = 1 THEN e[i] ELSE v[i - 1] \o e[i]
      <4> TAKE i \in 1 .. Len(e)
      <4>1. CASE i = 1
        <5>3. 1 \in 1 .. Len(e) /\ 1 - 1 = 0
          BY <4>1
        <5>4. v[1] = v[0] \o e[1] /\ e[1] \in Bytes
          BY <1>1, <1>5, <5>3
        <5>1. v[1] = v[0] \o e[1] /\ e[1] \in Seq(Byte)
          BY <5>4 DEF Bytes
        <5>2. <<>> \o e[1] = e[1]
          BY <5>1, ConcatEmptySeq
        <5> QED BY <1>4, <4>1, <5>1, <5>2
      <4>2. CASE i # 1
        BY <1>5, <4>2
      <4> QED BY <4>1, <4>2
    <3>2. \A i \in 1 .. Len(e) : i # 1 => i - 1 \in 1 .. Len(e)
      BY <1>1
    <3> QED BY <3>1, <3>2
  <2>2. PICK u : u = CHOOSE x : Rec(x)
    OBVIOUS
  <2>3. Rec(u)
    <3> HIDE DEF Rec, w
    <3> QED BY <2>1, <2>2
  <2>4. FlattenSeq(e) = u[Len(e)]
    BY <1>7, <2>2 DEF FlattenSeq
  <2> DEFINE T == {i \in Nat : i + 1 <= Len(e) => u[i + 1] = v[i + 1]}
  <2>5. 0 \in T
    <3>1. 1 \in 1 .. Len(e)
      BY <1>1, <1>7
    <3>2. u[1] = e[1]
      BY <2>3, <3>1
    <3>5. v[1] = v[0] \o e[1] /\ e[1] \in Bytes
      <4>1. 1 - 1 = 0
        OBVIOUS
      <4> QED BY <1>1, <1>5, <3>1, <4>1
    <3>3. v[1] = v[0] \o e[1] /\ e[1] \in Seq(Byte)
      BY <3>5 DEF Bytes
    <3>4. <<>> \o e[1] = e[1]
      BY <3>3, ConcatEmptySeq
    <3> QED BY <1>4, <3>2, <3>3, <3>4
  <2>6. ASSUME NEW i \in Nat, i \in T PROVE i + 1 \in T
    <3>1. SUFFICES ASSUME (i + 1) + 1 <= Len(e) PROVE u[(i + 1) + 1] = v[(i + 1) + 1]
      OBVIOUS
    <3>2. /\ (i + 1) + 1 \in 1 .. Len(e) /\ (i + 1) + 1 # 1
          /\ ((i + 1) + 1) - 1 = i + 1 /\ i + 1 <= Len(e)
      BY <1>1, <3>1
    <3>3. u[(i + 1) + 1] = u[((i + 1) + 1) - 1] \o e[(i + 1) + 1]
      BY <2>3, <3>2
    <3>4. v[(i + 1) + 1] = v[((i + 1) + 1) - 1] \o e[(i + 1) + 1]
      BY <1>5, <3>2
    <3>5. u[i + 1] = v[i + 1]
      BY <2>6, <3>2
    <3> QED BY <3>2, <3>3, <3>4, <3>5
  <2>7. Len(e) - 1 \in T
    <3> HIDE DEF T
    <3>1. Len(e) - 1 \in Nat
      BY <1>1, <1>7
    <3> QED BY <2>5, <2>6, <3>1, Induction
  <2>8. u[Len(e)] = v[Len(e)]
    <3>1. Len(e) - 1 \in Nat /\ (Len(e) - 1) + 1 = Len(e)
      BY <1>1, <1>7
    <3> QED BY <2>7, <3>1
  <2> QED BY <1>4, <1>5, <2>4, <2>8
<1> QED BY <1>6, <1>7

LEMMA String16Type == \A v \in Bytes : writeString16(v) \in Bytes
<1> TAKE v \in Bytes
<1>1. Len(v) \in Int /\ W16 \in Nat
  BY WidthType, LenProperties DEF Bytes
<1> QED BY <1>1, DigitsType, Joined DEF writeString16

\* WriteStrings writes one string after the other.
LEMMA WriteSteps ==
  ASSUME NEW cs \in Seq(Bytes)
  PROVE  /\ WriteStrings(<<>>) = <<>>
         /\ WriteStrings(cs) \in Bytes
         /\ \A c \in Bytes : WriteStrings(Append(cs, c)) = WriteStrings(cs) \o writeString16(c)
<1> DEFINE E(x) == [i \in DOMAIN x |-> writeString16(x[i])]
<1>1. ASSUME NEW x \in Seq(Bytes)
      PROVE  /\ E(x) \in Seq(Bytes) /\ Len(E(x)) = Len(x)
             /\ \A i \in 1 .. Len(x) : E(x)[i] = writeString16(x[i])
  <2>1. Len(x) \in Nat /\ DOMAIN x = 1 .. Len(x) /\ \A i \in 1 .. Len(x) : x[i] \in Bytes
    BY LenProperties
  <2>2. E(x) \in [1 .. Len(x) -> Bytes]
    BY <2>1, String16Type
  <2> QED BY <2>1, <2>2
<1>2. WriteStrings(<<>>) = <<>>
  <2>1. <<>> \in Seq(Bytes) /\ Len(<<>>) = 0
    OBVIOUS
  <2>2. Len(E(<<>>)) = 0 /\ E(<<>>) \in Seq(Bytes)
    BY <1>1, <2>1
  <2>3. E(<<>>) = <<>>
    <3> HIDE DEF E
    <3> QED BY <2>2, EmptySeq
  <2> QED BY <2>2, <2>3 DEF WriteStrings, FlattenSeq
<1>3. WriteStrings(cs) \in Bytes
  <2>1. PICK v \in [0 .. Len(E(cs)) -> Bytes] : FlattenSeq(E(cs)) = v[Len(E(cs))]
    BY <1>1, FlattenPrefixes
  <2>2. Len(E(cs)) \in 0 .. Len(E(cs))
    BY <1>1, LenProperties
  <2>3. FlattenSeq(E(cs)) \in Bytes
    BY <2>1, <2>2
  <2> QED BY <2>3 DEF WriteStrings
<1>4. ASSUME NEW c \in Bytes
      PROVE  WriteStrings(Append(cs, c)) = WriteStrings(cs) \o writeString16(c)
  <2>1. PICK d, n : d = Append(cs, c) /\ n = Len(cs)
    OBVIOUS
  <2>2. /\ d \in Seq(Bytes) /\ Len(d) = n + 1 /\ n \in Nat /\ d[n + 1] = c
        /\ \A i \in 1 .. n : d[i] = cs[i]
    BY <2>1, LenProperties, AppendProperties
  <2>3. PICK v \in [0 .. n -> Bytes] :
           /\ FlattenSeq(E(cs)) = v[n]
           /\ v[0] = <<>>
           /\ \A i \in 1 .. n : v[i] = v[i - 1] \o writeString16(cs[i])
    <3> HIDE DEF E
    <3>1. PICK x \in Seq(Bytes) : x = E(cs) /\ Len(x) = n /\ \A i \in 1 .. n : x[i] = writeString16(cs[i])
      BY <1>1, <2>1, <2>2
    <3>2. PICK v \in [0 .. Len(x) -> Bytes] :
           /\ FlattenSeq(x) = v[Len(x)]
           /\ v[0] = <<>>
           /\ \A i \in 1 .. Len(x) : v[i] = v[i - 1] \o x[i]
      BY FlattenPrefixes
    <3> QED BY <3>1, <3>2
  <2>4. PICK w \in [0 .. n + 1 -> Bytes] :
           /\ FlattenSeq(E(d)) = w[n + 1]
           /\ w[0] = <<>>
           /\ \A i \in 1 .. n + 1 : w[i] = w[i - 1] \o writeString16(d[i])
    <3> HIDE DEF E
    <3>1. PICK x \in Seq(Bytes) : x = E(d) /\ Len(x) = n + 1 /\ \A i \in 1 .. n + 1 : x[i] = writeString16(d[i])
      BY <1>1, <2>1, <2>2
    <3>2. PICK w \in [0 .. Len(x) -> Bytes] :
           /\ FlattenSeq(x) = w[Len(x)]
           /\ w[0] = <<>>
           /\ \A i \in 1 .. Len(x) : w[i] = w[i - 1] \o x[i]
      BY FlattenPrefixes
    <3> QED BY <3>1, <3>2
  <2> DEFINE T == {i \in Nat : i <= n => v[i] = w[i]}
  <2>5. 0 \in T
    BY <2>3, <2>4
  <2>6. ASSUME NEW i \in Nat, i \in T PROVE i + 1 \in T
    <3>1. SUFFICES ASSUME i + 1 <= n PROVE v[i + 1] = w[i + 1]
      OBVIOUS
    <3>2. i + 1 \in 1 .. n /\ i + 1 \in 1 .. n + 1 /\ (i + 1) - 1 = i /\ i <= n
      BY <2>2, <3>1
    <3>3. v[i + 1] = v[i] \o writeString16(cs[i + 1]) /\ w[i + 1] = w[i] \o writeString16(d[i + 1])
      BY <2>3, <2>4, <3>2
    <3> QED BY <2>2, <2>6, <3>2, <3>3
  <2>7. n \in T
    <3> HIDE DEF T
    <3> QED BY <2>2, <2>5, <2>6, Induction
  <2>8. w[n + 1] = w[n] \o writeString16(c)
    <3>1. n + 1 \in 1 .. n + 1 /\ (n + 1) - 1 = n
      BY <2>2
    <3> QED BY <2>2, <2>4, <3>1
  <2>9. v[n] = w[n]
    BY <2>2, <2>7
  <2>10. FlattenSeq(E(d)) = FlattenSeq(E(cs)) \o writeString16(c)
    <3> HIDE DEF E
    <3> QED BY <2>3, <2>4, <2>8, <2>9
  <2> QED BY <2>1, <2>10 DEF WriteStrings
<1> QED BY <1>2, <1>3, <1>4

LEMMA FirstElements ==
  ASSUME NEW S, NEW s \in Seq(S), NEW k \in Nat
  PROVE  /\ SubSeq(s, 1, 0) = <<>>
         /\ k <= Len(s) => SubSeq(s, 1, k) \in Seq(S) /\ Len(SubSeq(s, 1, k)) = k
         /\ k <= Len(s) => \A i \in 1 .. k : SubSeq(s, 1, k)[i] = s[i]
         /\ k + 1 <= Len(s) => SubSeq(s, 1, k + 1) = Append(SubSeq(s, 1, k), s[k + 1])
<1>1. Len(s) \in Nat /\ \A i \in 1 .. Len(s) : s[i] \in S
  BY LenProperties
<1>2. ASSUME NEW m \in Nat, m <= Len(s)
      PROVE  /\ SubSeq(s, 1, m) \in Seq(S) /\ Len(SubSeq(s, 1, m)) = m
             /\ \A i \in 1 .. m : SubSeq(s, 1, m)[i] = s[i]
  <2>1. \A i \in 1 .. m : s[i] \in S
    BY <1>1, <1>2
  <2>2. /\ SubSeq(s, 1, m) \in Seq(S)
        /\ Len(SubSeq(s, 1, m)) = IF 1 <= m THEN m - 1 + 1 ELSE 0
        /\ \A i \in 1 .. m - 1 + 1 : SubSeq(s, 1, m)[i] = s[1 + i - 1]
    BY <2>1, SubSeqProperties
  <2> QED BY <2>2
<1>3. SubSeq(s, 1, 0) = <<>>
  <2>1. SubSeq(s, 1, 0) \in Seq(S) /\ Len(SubSeq(s, 1, 0)) = 0
    BY <1>1, <1>2
  <2> QED BY <2>1, EmptySeq
<1>4. ASSUME k + 1 <= Len(s) PROVE SubSeq(s, 1, k + 1) = Append(SubSeq(s, 1, k), s[k + 1])
  <2>1. k <= Len(s) /\ k + 1 \in Nat /\ k + 1 \in 1 .. Len(s)
    BY <1>1, <1>4
  <2>2. PICK a, b \in Seq(S) : a = SubSeq(s, 1, k) /\ b = SubSeq(s, 1, k + 1)
    BY <1>2, <1>4, <2>1
  <2>3. Len(a) = k /\ Len(b) = k + 1 /\ (\A i \in 1 .. k : a[i] = s[i]) /\ \A i \in 1 .. k + 1 : b[i] = s[i]
    BY <1>2, <1>4, <2>1, <2>2
  <2>4. s[k + 1] \in S
    BY <1>1, <2>1
  <2>5. PICK c \in Seq(S) : c = Append(a, s[k + 1])
    BY <2>2, <2>4, AppendProperties
  <2>6. Len(c) = k + 1 /\ (\A i \in 1 .. k : c[i] = a[i]) /\ c[k + 1] = s[k + 1]
    BY <2>3, <2>4, <2>5, AppendProperties
  <2>7. \A i \in 1 .. k + 1 : b[i] = c[i]
    BY <2>3, <2>6
  <2>8. b = c
    BY <2>3, <2>6, <2>7, SeqEqual
  <2> QED BY <2>2, <2>5, <2>8
<1> QED BY <1>2, <1>3, <1>4

LEMMA StringsWhole ==
  ASSUME NEW cs \in Seq(Bytes), \A i \in DOMAIN cs : Len(cs[i]) < Span(W16), NEW t \in Bytes
  PROVE  readStrings(WriteStrings(cs) \o t, Len(cs)) = Ok(cs, t)
<1> DEFINE P(k) == SubSeq(cs, 1, k)
           T == {k \in Nat : k <= Len(cs) =>
                   \A u \in Bytes : readStrings(WriteStrings(P(k)) \o u, k) = Ok(P(k), u)}
<1>1. Len(cs) \in Nat /\ \A i \in 1 .. Len(cs) : cs[i] \in Bytes /\ Len(cs[i]) < Span(W16)
  BY LenProperties
<1>2. 0 \in T
  <2>1. P(0) = <<>> /\ WriteStrings(<<>>) = <<>>
    BY FirstElements, WriteSteps
  <2>2. ASSUME NEW u \in Bytes PROVE readStrings(<<>> \o u, 0) = Ok(<<>>, u)
    <3>1. <<>> \o u = u
      BY ConcatEmptySeq DEF Bytes
    <3> QED BY <3>1, StringsSteps
  <2> HIDE DEF P
  <2> QED BY <2>1, <2>2
<1>3. ASSUME NEW k \in Nat, k \in T PROVE k + 1 \in T
  <2> SUFFICES ASSUME k + 1 <= Len(cs), NEW u \in Bytes
               PROVE  readStrings(WriteStrings(P(k + 1)) \o u, k + 1) = Ok(P(k + 1), u)
    OBVIOUS
  <2>1. k + 1 \in 1 .. Len(cs) /\ k <= Len(cs)
    BY <1>1
  <2>2. PICK c \in Bytes : c = cs[k + 1] /\ Len(c) < Span(W16)
    BY <1>1, <2>1
  <2>3. PICK p \in Seq(Bytes) : p = P(k) /\ P(k + 1) = Append(p, c)
    BY <2>1, <2>2, FirstElements
  <2>4. PICK w, x \in Bytes : w = WriteStrings(p) /\ x = writeString16(c)
    BY WriteSteps, String16Type
  <2>5. WriteStrings(P(k + 1)) = w \o x
    BY <2>3, <2>4, WriteSteps
  <2>6. x \o u \in Bytes /\ w \o (x \o u) \in Bytes /\ (w \o x) \o u = w \o (x \o u)
    <3>1. x \o u \in Bytes
      BY <2>4, Joined
    <3>2. w \o (x \o u) \in Bytes
      BY <2>4, <3>1, Joined
    <3>3. (w \o x) \o u = w \o (x \o u)
      BY <2>4, Associated
    <3> QED BY <3>1, <3>2, <3>3
  <2>7. readStrings(w \o (x \o u), k) = Ok(p, x \o u)
    BY <1>3, <2>1, <2>3, <2>4, <2>6
  <2>8. readString16(x \o u) = Ok(c, u)
    BY <2>2, <2>4, String16Whole
  <2>9. AppendString16(Ok(p, x \o u)) = Ok(Append(p, c), u)
    BY <2>8, OkParts DEF AppendString16, Then
  <2>10. readStrings(w \o (x \o u), k + 1) = Ok(Append(p, c), u)
    BY <2>6, <2>7, <2>9, StringsSteps
  <2> QED BY <2>3, <2>5, <2>6, <2>10
<1>4. Len(cs) \in T
  <2> HIDE DEF T
  <2> QED BY <1>1, <1>2, <1>3, Induction
<1>5. P(Len(cs)) = cs
  BY SubSeqFull
<1> HIDE DEF P
<1> QED BY <1>1, <1>4, <1>5

\* The first strings of a list are written first.
LEMMA WrittenFirst ==
  ASSUME NEW cs \in Seq(Bytes), NEW m \in 0 .. Len(cs)
  PROVE  \E x \in Bytes : WriteStrings(cs) = WriteStrings(SubSeq(cs, 1, m)) \o x
<1> DEFINE P(k) == SubSeq(cs, 1, k)
           T == {j \in Nat : m + j <= Len(cs) =>
                   \E x \in Bytes : WriteStrings(P(m + j)) = WriteStrings(P(m)) \o x}
<1>1. Len(cs) \in Nat /\ m \in Nat /\ \A i \in 1 .. Len(cs) : cs[i] \in Bytes
  BY LenProperties
<1>2. P(m) \in Seq(Bytes) /\ WriteStrings(P(m)) \in Bytes
  <2>1. P(m) \in Seq(Bytes)
    BY <1>1, FirstElements
  <2> HIDE DEF P
  <2> QED BY <2>1, WriteSteps
<1>3. 0 \in T
  <2>1. WriteStrings(P(m)) = WriteStrings(P(m)) \o <<>> /\ <<>> \in Bytes
    BY <1>2, ConcatEmptySeq DEF Bytes
  <2>2. m + 0 = m
    BY <1>1
  <2> HIDE DEF P
  <2> QED BY <2>1, <2>2
<1>4. ASSUME NEW j \in Nat, j \in T PROVE j + 1 \in T
  <2> SUFFICES ASSUME m + (j + 1) <= Len(cs)
               PROVE  \E x \in Bytes : WriteStrings(P(m + (j + 1))) = WriteStrings(P(m)) \o x
    OBVIOUS
  <2>1. PICK k \in Nat : k = m + j /\ k + 1 = m + (j + 1) /\ k + 1 \in 1 .. Len(cs) /\ k <= Len(cs)
    BY <1>1
  <2>2. PICK x \in Bytes : WriteStrings(P(k)) = WriteStrings(P(m)) \o x
    BY <1>4, <2>1
  <2>3. PICK c \in Bytes : c = cs[k + 1]
    BY <1>1, <2>1
  <2>4. P(k) \in Seq(Bytes) /\ P(k + 1) = Append(P(k), c)
    BY <2>1, <2>3, FirstElements
  <2>5. PICK y \in Bytes : y = writeString16(c)
    BY String16Type
  <2> HIDE DEF P
  <2>6. WriteStrings(P(k + 1)) = WriteStrings(P(k)) \o y
    BY <2>4, <2>5, WriteSteps
  <2>7. WriteStrings(P(k + 1)) = WriteStrings(P(m)) \o (x \o y) /\ x \o y \in Bytes
    <3>1. (WriteStrings(P(m)) \o x) \o y = WriteStrings(P(m)) \o (x \o y) /\ x \o y \in Bytes
      BY <1>2, Joined, Associated
    <3> QED BY <2>2, <2>6, <3>1
  <2> QED BY <2>1, <2>7
<1>5. Len(cs) - m \in T
  <2>1. Len(cs) - m \in Nat
    BY <1>1
  <2> HIDE DEF T
  <2> QED BY <1>3, <1>4, <2>1, Induction
<1>6. m + (Len(cs) - m) = Len(cs)
  BY <1>1
<1>7. P(Len(cs)) = cs
  BY SubSeqFull
<1>8. m + (Len(cs) - m) <= Len(cs)
  BY <1>1, <1>6
<1>9. \E x \in Bytes : WriteStrings(P(m + (Len(cs) - m))) = WriteStrings(P(m)) \o x
  <2> HIDE DEF P
  <2> QED BY <1>5, <1>8
<1> HIDE DEF P
<1>10. \E x \in Bytes : WriteStrings(cs) = WriteStrings(P(m)) \o x
  BY <1>6, <1>7, <1>9
<1> QED BY <1>10 DEF P

-----------------------------------------------------------------------------
(* Requests                                                                *)

\* The lengths of request r fit their fields.
Fits(r) ==
  /\ Len(r.channels) < Span(W16)
  /\ \A i \in DOMAIN r.channels : Len(r.channels[i]) < Span(W16)
  /\ Len(r.payload) < Span(W32)

LEMMA RequestParts ==
  ASSUME NEW r \in Request
  PROVE  /\ r.op \in {"push", "pop"} /\ r.channels \in Seq(Bytes) /\ r.payload \in Bytes
         /\ r.timeout \in -(Span(W64) \div 2) .. Span(W64) \div 2 - 1 /\ r.timeout \in Int
         /\ Len(r.channels) \in Nat /\ Len(r.payload) \in Nat
         /\ r = [op |-> r.op, timeout |-> r.timeout, channels |-> r.channels, payload |-> r.payload]
<1>1. Span(W64) \div 2 \in Int
  BY WidthType, SpanType
<1>2. /\ r.op \in {"push", "pop"} /\ r.channels \in Seq(Bytes) /\ r.payload \in Bytes
      /\ r.timeout \in -(Span(W64) \div 2) .. Span(W64) \div 2 - 1
      /\ r = [op |-> r.op, timeout |-> r.timeout, channels |-> r.channels, payload |-> r.payload]
  BY DEF Request, Bytes
<1>3. r.timeout \in Int
  BY <1>1, <1>2
<1>4. Len(r.channels) \in Nat /\ Len(r.payload) \in Nat
  BY <1>2, LenProperties DEF Bytes
<1> QED BY <1>2, <1>3, <1>4

LEMMA OneByte ==
  ASSUME NEW b \in Byte
  PROVE  <<b>> \in Bytes /\ Len(<<b>>) = 1 /\ <<b>>[1] = b
<1> QED BY DEF Bytes

Assoc(a, b, c) == (a \o b) \o c = a \o (b \o c)

LEMMA AssocBytes == \A a, b, c \in Bytes : Assoc(a, b, c)
<1> QED BY Associated DEF Assoc

\* Five parts and what comes behind them.
Regrouped(a, b, c, d, e, t) ==
  /\ (a \o b) \o c \in Bytes
  /\ (((a \o b) \o c) \o d) \o e \in Bytes
  /\ (((a \o b) \o c) \o d) \o e = ((a \o b) \o c) \o (d \o e)
  /\ ((((a \o b) \o c) \o d) \o e) \o t = a \o (b \o (c \o (d \o (e \o t))))

LEMMA FiveParts == \A a, b, c, d, e, t \in Bytes : Regrouped(a, b, c, d, e, t)
<1> TAKE a, b, c, d, e, t \in Bytes
<1>1. PICK x \in Bytes : x = a \o b
  BY Joined
<1>2. PICK y \in Bytes : y = x \o c
  BY Joined
<1>3. PICK z \in Bytes : z = y \o d
  BY Joined
<1>4. PICK u \in Bytes : u = e \o t
  BY Joined
<1>5. PICK v \in Bytes : v = d \o u
  BY Joined
<1>6. PICK w \in Bytes : w = c \o v
  BY Joined
<1>7. z \o e \in Bytes
  BY Joined
<1>8. Assoc(y, d, e) /\ Assoc(z, e, t)
  BY AssocBytes
<1>9. Assoc(y, d, u) /\ Assoc(x, c, v)
  BY AssocBytes
<1>10. Assoc(a, b, w)
  BY AssocBytes
<1>11. (z \o e) \o t = a \o (b \o (c \o (d \o (e \o t))))
  BY <1>1, <1>2, <1>3, <1>4, <1>5, <1>6, <1>8, <1>9, <1>10 DEF Assoc
<1> QED BY <1>1, <1>2, <1>3, <1>7, <1>8, <1>11 DEF Assoc, Regrouped

\* The parts of an encoded request, one behind the other.
LaidOut(r, t, op, timeout, count, channels, payload) ==
  /\ op \in Bytes /\ Len(op) = 1 /\ op[1] = OpByte(r.op)
  /\ timeout \in Bytes /\ Len(timeout) = W64
  /\ count \in Bytes /\ Len(count) = W16
  /\ channels \in Bytes
  /\ payload \in Bytes
  /\ RequestHead(r) \in Bytes
  /\ RequestBytes(r) \in Bytes
  /\ RequestBytes(r) = RequestHead(r) \o (channels \o payload)
  /\ RequestBytes(r) \o t = op \o (timeout \o (count \o (channels \o (payload \o t))))

LEMMA RequestLayout ==
  \A r \in Request, t \in Bytes :
    LaidOut(r, t, <<OpByte(r.op)>>, Digits(r.timeout, W64), Digits(Len(r.channels), W16),
            WriteStrings(r.channels), writeBytes32(r.payload))
<1> TAKE r \in Request, t \in Bytes
<1>0. PICK op, timeout, count, channels, payload :
        /\ op = <<OpByte(r.op)>>
        /\ timeout = Digits(r.timeout, W64)
        /\ count = Digits(Len(r.channels), W16)
        /\ channels = WriteStrings(r.channels)
        /\ payload = writeBytes32(r.payload)
  OBVIOUS
<1>1. OpByte(r.op) \in Byte
  BY ByteFacts DEF OpByte, opPush, opPop
<1>2. op \in Bytes /\ Len(op) = 1 /\ op[1] = OpByte(r.op)
  BY <1>0, <1>1, OneByte
<1>3. timeout \in Bytes /\ Len(timeout) = W64
  BY <1>0, RequestParts, WidthType, DigitsType
<1>4. count \in Bytes /\ Len(count) = W16
  BY <1>0, RequestParts, WidthType, DigitsType
<1>5. channels \in Bytes
  BY <1>0, RequestParts, WriteSteps
<1>6. payload \in Bytes
  <2>1. Digits(Len(r.payload), W32) \in Bytes
    BY RequestParts, WidthType, DigitsType
  <2> QED BY <1>0, <2>1, RequestParts, Joined DEF writeBytes32
<1>7. RequestHead(r) = (op \o timeout) \o count
  BY <1>0 DEF RequestHead
<1>8. RequestBytes(r) = (((op \o timeout) \o count) \o channels) \o payload
  BY <1>0, <1>7 DEF RequestBytes
<1>9. Regrouped(op, timeout, count, channels, payload, t)
  BY <1>2, <1>3, <1>4, <1>5, <1>6, FiveParts
<1>10. /\ RequestHead(r) \in Bytes
       /\ RequestBytes(r) \in Bytes
       /\ RequestBytes(r) = RequestHead(r) \o (channels \o payload)
       /\ RequestBytes(r) \o t = op \o (timeout \o (count \o (channels \o (payload \o t))))
  BY <1>7, <1>8, <1>9 DEF Regrouped
<1> QED BY <1>0, <1>2, <1>3, <1>4, <1>5, <1>6, <1>10 DEF LaidOut

\* The handler refuses a request that fits its fields for one of its limits,
\* or reads it as it was made, with nothing of what comes behind it.
LEMMA RequestWhole ==
  ASSUME NEW r \in Request, Fits(r), NEW t \in Bytes
  PROVE  readRequest(RequestBytes(r) \o t) =
           IF Len(r.channels) > MaxChannels THEN Fail("tooManyChannels")
           ELSE IF Len(r.payload) > MaxBytes THEN Fail("frameTooLarge")
           ELSE Ok(r, t)
<1>0. PICK op, timeout, count, channels, payload :
        /\ op = <<OpByte(r.op)>>
        /\ timeout = Digits(r.timeout, W64)
        /\ count = Digits(Len(r.channels), W16)
        /\ channels = WriteStrings(r.channels)
        /\ payload = writeBytes32(r.payload)
  OBVIOUS
<1>1. /\ op \in Bytes /\ Len(op) = 1 /\ op[1] = OpByte(r.op)
      /\ timeout \in Bytes /\ Len(timeout) = W64
      /\ count \in Bytes /\ Len(count) = W16
      /\ channels \in Bytes
      /\ payload \in Bytes
      /\ RequestBytes(r) \o t = op \o (timeout \o (count \o (channels \o (payload \o t))))
  <2>1. LaidOut(r, t, op, timeout, count, channels, payload)
    BY <1>0, RequestLayout
  <2> QED BY <2>1 DEF LaidOut
<1>2. PICK s4 \in Bytes : s4 = payload \o t
  BY <1>1, Joined
<1>3. PICK s3 \in Bytes : s3 = channels \o s4
  BY <1>1, Joined
<1>4. PICK s2 \in Bytes : s2 = count \o s3
  BY <1>1, Joined
<1>5. PICK s1 \in Bytes : s1 = timeout \o s2
  BY <1>1, Joined
<1>6. PICK s \in Bytes : s = op \o s1 /\ s = RequestBytes(r) \o t
  <2>1. op \o s1 \in Bytes
    BY <1>1, Joined
  <2> QED BY <1>1, <1>2, <1>3, <1>4, <1>5, <2>1
<1>7. /\ ReadFull(s, 1) = Ok(op, s1)
      /\ ReadFull(s1, W64) = Ok(timeout, s2)
      /\ ReadFull(s2, W16) = Ok(count, s3)
  <2>1. ReadFull(s, 1) = Ok(op, s1)
    BY <1>1, <1>6, ReadFullWhole
  <2>2. ReadFull(s1, W64) = Ok(timeout, s2)
    BY <1>1, <1>5, ReadFullWhole
  <2>3. ReadFull(s2, W16) = Ok(count, s3)
    BY <1>1, <1>4, ReadFullWhole
  <2> QED BY <2>1, <2>2, <2>3
<1>8. Value(count) = Len(r.channels)
  <2>1. Len(r.channels) \in 0 .. Span(W16) - 1
    BY RequestParts, WidthType, SpanType DEF Fits
  <2> QED BY <1>0, <2>1, WidthType, ValueOfDigits
<1>9. CASE Len(r.channels) > MaxChannels
  <2>1. readRequest(s) = Fail("tooManyChannels")
    BY <1>7, <1>8, <1>9, OkParts DEF readRequest, Then
  <2> QED BY <1>6, <1>9, <2>1
<1>10. CASE ~(Len(r.channels) > MaxChannels)
  <2>1. readStrings(s3, Value(count)) = Ok(r.channels, s4)
    BY <1>0, <1>2, <1>3, <1>8, RequestParts, StringsWhole DEF Fits
  <2>2. MaxBytes \in Nat
    BY ProtocolAssumption
  <2>3. readBytes32(s4, MaxBytes) =
          IF Len(r.payload) > MaxBytes THEN Fail("frameTooLarge") ELSE Ok(r.payload, t)
    BY <1>0, <1>2, <2>2, RequestParts, Bytes32Whole DEF Fits
  <2>4. CASE Len(r.payload) > MaxBytes
    <3>1. readBytes32(s4, MaxBytes) = Fail("frameTooLarge")
      BY <2>3, <2>4
    <3>2. readRequest(s) = Fail("frameTooLarge")
      BY <1>7, <1>8, <1>10, <2>1, <3>1, OkParts, FailParts DEF readRequest, Then
    <3> QED BY <1>6, <1>10, <2>4, <3>2
  <2>5. CASE ~(Len(r.payload) > MaxBytes)
    <3>1. readBytes32(s4, MaxBytes) = Ok(r.payload, t)
      BY <2>3, <2>5
    <3>2. op[1] \in {opPush, opPop} /\ r.op = IF op[1] = opPush THEN "push" ELSE "pop"
      BY <1>1, RequestParts DEF OpByte, opPush, opPop
    <3>3. readRequest(s) = Ok([op |-> IF op[1] = opPush THEN "push" ELSE "pop",
                               timeout |-> Signed(timeout),
                               channels |-> r.channels,
                               payload |-> r.payload], t)
      BY <1>7, <1>8, <1>10, <2>1, <3>1, <3>2, OkParts DEF readRequest, Then
    <3>4. Signed(timeout) = r.timeout
      BY <1>0, RequestParts, SignedOfDigits
    <3>5. r = [op |-> IF op[1] = opPush THEN "push" ELSE "pop",
               timeout |-> Signed(timeout),
               channels |-> r.channels,
               payload |-> r.payload]
      BY <3>2, <3>4, RequestParts
    <3> QED BY <1>6, <1>10, <2>5, <3>3, <3>5
  <2> QED BY <2>4, <2>5
<1> QED BY <1>9, <1>10

\* readRequest, field by field.
AfterPayload(op, timeout, channels, payload, s) ==
  IF op[1] \notin {opPush, opPop} THEN Fail("unknownOp")
  ELSE Ok([op |-> IF op[1] = opPush THEN "push" ELSE "pop",
           timeout |-> Signed(timeout),
           channels |-> channels,
           payload |-> payload], s)

AfterChannels(op, timeout, channels, s) ==
  IF readBytes32(s, MaxBytes).err = "nil"
  THEN AfterPayload(op, timeout, channels, readBytes32(s, MaxBytes).val, readBytes32(s, MaxBytes).rest)
  ELSE readBytes32(s, MaxBytes)

AfterCount(op, timeout, count, s) ==
  IF Value(count) > MaxChannels THEN Fail("tooManyChannels")
  ELSE IF readStrings(s, Value(count)).err = "nil"
  THEN AfterChannels(op, timeout, readStrings(s, Value(count)).val, readStrings(s, Value(count)).rest)
  ELSE readStrings(s, Value(count))

AfterTimeout(op, timeout, s) ==
  IF ReadFull(s, W16).err = "nil"
  THEN AfterCount(op, timeout, ReadFull(s, W16).val, ReadFull(s, W16).rest)
  ELSE ReadFull(s, W16)

AfterOp(op, s) ==
  IF ReadFull(s, W64).err = "nil"
  THEN AfterTimeout(op, ReadFull(s, W64).val, ReadFull(s, W64).rest)
  ELSE ReadFull(s, W64)

LEMMA RequestFields ==
  \A s : readRequest(s) = IF ReadFull(s, 1).err = "nil"
                          THEN AfterOp(ReadFull(s, 1).val, ReadFull(s, 1).rest)
                          ELSE ReadFull(s, 1)
<1> QED BY DEF readRequest, Then, AfterOp, AfterTimeout, AfterCount, AfterChannels, AfterPayload

\* What readRequest may give.
RequestRead == [op : {"push", "pop"}, timeout : Int, channels : Seq(Bytes), payload : Bytes]

LEMMA SignedType == \A s \in Bytes : Signed(s) \in Int
<1> TAKE s \in Bytes
<1>1. Value(s) \in Int /\ Span(W64) \in Int
  BY ValueType, WidthType, SpanType
<1> QED BY <1>1 DEF Signed

LEMMA RequestGoes ==
  ASSUME NEW s \in Bytes, NEW t \in Bytes
  PROVE  /\ Goes(readRequest(s), readRequest(s \o t), t)
         /\ readRequest(s).err = "nil" => readRequest(s).val \in RequestRead
<1> SUFFICES ASSUME readRequest(s).err = "nil"
             PROVE  /\ Goes(readRequest(s), readRequest(s \o t), t)
                    /\ readRequest(s).val \in RequestRead
  BY DEF Goes
<1>0. 1 \in Nat /\ W64 \in Nat /\ W16 \in Nat /\ MaxBytes \in Nat
  BY WidthType, ProtocolAssumption
<1>1. ReadFull(s, 1).err = "nil"
  BY RequestFields
<1>2. PICK op \in Bytes, s1 \in Bytes : ReadFull(s, 1) = Ok(op, s1) /\ ReadFull(s \o t, 1) = Ok(op, s1 \o t)
  BY <1>0, <1>1, ReadFullGoes, Taken
<1>3. /\ readRequest(s) = AfterOp(op, s1)
      /\ readRequest(s \o t) = AfterOp(op, s1 \o t)
  BY <1>2, RequestFields, OkParts
<1>4. ReadFull(s1, W64).err = "nil"
  BY <1>3 DEF AfterOp
<1>5. PICK timeout \in Bytes, s2 \in Bytes : /\ ReadFull(s1, W64) = Ok(timeout, s2)
                                             /\ ReadFull(s1 \o t, W64) = Ok(timeout, s2 \o t)
  BY <1>0, <1>4, ReadFullGoes, Taken
<1>6. /\ readRequest(s) = AfterTimeout(op, timeout, s2)
      /\ readRequest(s \o t) = AfterTimeout(op, timeout, s2 \o t)
  BY <1>3, <1>5, OkParts DEF AfterOp
<1>7. ReadFull(s2, W16).err = "nil"
  BY <1>6 DEF AfterTimeout
<1>8. PICK count \in Bytes, s3 \in Bytes : /\ ReadFull(s2, W16) = Ok(count, s3)
                                           /\ ReadFull(s2 \o t, W16) = Ok(count, s3 \o t)
  BY <1>0, <1>7, ReadFullGoes, Taken
<1>9. /\ readRequest(s) = AfterCount(op, timeout, count, s3)
      /\ readRequest(s \o t) = AfterCount(op, timeout, count, s3 \o t)
  BY <1>6, <1>8, OkParts DEF AfterTimeout
<1>10. ~(Value(count) > MaxChannels) /\ readStrings(s3, Value(count)).err = "nil"
  BY <1>9, FailParts DEF AfterCount
<1>11. PICK channels \in Seq(Bytes) :
         \E u \in Bytes : /\ readStrings(s3, Value(count)) = Ok(channels, u)
                         /\ readStrings(s3 \o t, Value(count)) = Ok(channels, u \o t)
  <2>1. Value(count) \in Nat
    BY ValueType
  <2>2. readStrings(s3, Value(count)).val \in Seq(Bytes)
    BY <1>10, <2>1, StringsGoes
  <2> QED BY <1>10, <2>1, <2>2, StringsGoes, Taken
<1>12. PICK s4 \in Bytes : /\ readStrings(s3, Value(count)) = Ok(channels, s4)
                           /\ readStrings(s3 \o t, Value(count)) = Ok(channels, s4 \o t)
  BY <1>11
<1>13. /\ readRequest(s) = AfterChannels(op, timeout, channels, s4)
       /\ readRequest(s \o t) = AfterChannels(op, timeout, channels, s4 \o t)
  BY <1>9, <1>10, <1>12, OkParts DEF AfterCount
<1>14. readBytes32(s4, MaxBytes).err = "nil"
  BY <1>13 DEF AfterChannels
<1>15. PICK payload \in Bytes, s5 \in Bytes : /\ readBytes32(s4, MaxBytes) = Ok(payload, s5)
                                              /\ readBytes32(s4 \o t, MaxBytes) = Ok(payload, s5 \o t)
  BY <1>0, <1>14, Bytes32Goes, Taken
<1>16. /\ readRequest(s) = AfterPayload(op, timeout, channels, payload, s5)
       /\ readRequest(s \o t) = AfterPayload(op, timeout, channels, payload, s5 \o t)
  BY <1>13, <1>15, OkParts DEF AfterChannels
<1>17. op[1] \in {opPush, opPop}
  BY <1>16, FailParts DEF AfterPayload
<1> DEFINE q == [op |-> IF op[1] = opPush THEN "push" ELSE "pop",
                 timeout |-> Signed(timeout),
                 channels |-> channels,
                 payload |-> payload]
<1>18. /\ readRequest(s) = Ok(q, s5)
       /\ readRequest(s \o t) = Ok(q, s5 \o t)
  BY <1>16, <1>17 DEF AfterPayload
<1>19. q \in RequestRead
  BY <1>5, <1>11, <1>15, SignedType DEF RequestRead
<1> HIDE DEF q
<1> QED BY <1>18, <1>19, OkParts DEF Goes

-----------------------------------------------------------------------------
(* Responses                                                               *)

Answer == [ok : BOOLEAN, channel : Bytes, payload : Bytes, error : Bytes]

StatusByte(r) == IF r.ok THEN statusOK ELSE statusError

\* Four parts and what comes behind them.
RegroupedFour(a, b, c, d, t) ==
  /\ ((a \o b) \o c) \o d \in Bytes
  /\ (((a \o b) \o c) \o d) \o t = a \o (b \o (c \o (d \o t)))

LEMMA FourParts == \A a, b, c, d, t \in Bytes : RegroupedFour(a, b, c, d, t)
<1> TAKE a, b, c, d, t \in Bytes
<1>1. PICK x \in Bytes : x = a \o b
  BY Joined
<1>2. PICK y \in Bytes : y = x \o c
  BY Joined
<1>3. PICK u \in Bytes : u = d \o t
  BY Joined
<1>4. PICK v \in Bytes : v = c \o u
  BY Joined
<1>5. y \o d \in Bytes
  BY Joined
<1>6. Assoc(y, d, t) /\ Assoc(x, c, u)
  BY AssocBytes
<1>7. Assoc(a, b, v)
  BY AssocBytes
<1>8. (y \o d) \o t = a \o (b \o (c \o (d \o t)))
  BY <1>1, <1>2, <1>3, <1>4, <1>6, <1>7 DEF Assoc
<1> QED BY <1>1, <1>2, <1>5, <1>8 DEF RegroupedFour

LEMMA AnswerParts ==
  ASSUME NEW r \in Answer, writeResponse(r).err = "nil"
  PROVE  /\ r.ok \in BOOLEAN /\ r.channel \in Bytes /\ r.payload \in Bytes /\ r.error \in Bytes
         /\ r = [ok |-> r.ok, channel |-> r.channel, payload |-> r.payload, error |-> r.error]
         /\ Len(r.channel) < Span(W16)
         /\ Len(r.payload) < Span(W32) /\ ~(Len(r.payload) > MaxBytes)
         /\ Len(r.error) < Span(W32) /\ ~(Len(r.error) > MaxErrorSize)
         /\ writeResponse(r).bytes =
              ((<<StatusByte(r)>> \o writeString16(r.channel)) \o writeBytes32(r.payload))
                \o writeBytes32(r.error)
<1>1. /\ r.ok \in BOOLEAN /\ r.channel \in Bytes /\ r.payload \in Bytes /\ r.error \in Bytes
      /\ r = [ok |-> r.ok, channel |-> r.channel, payload |-> r.payload, error |-> r.error]
  BY DEF Answer
<1>2. ~ (\/ Len(r.payload) > MaxBytes
         \/ Len(r.channel) >= Span(W16)
         \/ Len(r.error) > MaxErrorSize)
  BY DEF writeResponse
<1>3. writeResponse(r).bytes =
              ((<<StatusByte(r)>> \o writeString16(r.channel)) \o writeBytes32(r.payload))
                \o writeBytes32(r.error)
  BY <1>2 DEF writeResponse, StatusByte
<1>4. Len(r.channel) \in Nat /\ Len(r.payload) \in Nat /\ Len(r.error) \in Nat
  BY <1>1, LenProperties DEF Bytes
<1>5. /\ Span(W16) \in Nat /\ Span(W32) \in Nat /\ MaxBytes \in Nat /\ MaxErrorSize \in Nat
      /\ MaxBytes < Span(W32) /\ MaxErrorSize < Span(W32)
  BY WidthType, SpanType, ProtocolAssumption
<1>6. Len(r.channel) < Span(W16) /\ Len(r.payload) < Span(W32) /\ Len(r.error) < Span(W32)
  BY <1>2, <1>4, <1>5
<1> QED BY <1>1, <1>2, <1>3, <1>6

\* readResponse and exampleReadResponse, field by field.
AfterText(status, channel, payload, text, s) ==
  IF status[1] \notin {statusOK, statusError} THEN Fail("unknownStatus")
  ELSE Ok([ok |-> status[1] = statusOK, channel |-> channel,
           payload |-> payload, error |-> text], s)

AfterBody(status, channel, payload, s) ==
  IF readBytes32(s, MaxErrorSize).err = "nil"
  THEN AfterText(status, channel, payload, readBytes32(s, MaxErrorSize).val, readBytes32(s, MaxErrorSize).rest)
  ELSE readBytes32(s, MaxErrorSize)

AfterName(status, channel, s) ==
  IF readBytes32(s, MaxBytes).err = "nil"
  THEN AfterBody(status, channel, readBytes32(s, MaxBytes).val, readBytes32(s, MaxBytes).rest)
  ELSE readBytes32(s, MaxBytes)

AfterStatus(status, s) ==
  IF readString16(s).err = "nil"
  THEN AfterName(status, readString16(s).val, readString16(s).rest)
  ELSE readString16(s)

LEMMA ResponseFields ==
  \A s : readResponse(s) = IF ReadFull(s, 1).err = "nil"
                           THEN AfterStatus(ReadFull(s, 1).val, ReadFull(s, 1).rest)
                           ELSE ReadFull(s, 1)
<1> QED BY DEF readResponse, Then, AfterStatus, AfterName, AfterBody, AfterText

exampleAfterText(status, channel, payload, text, s) ==
  Ok([ok |-> status[1] = statusOK, channel |-> channel,
      payload |-> payload, error |-> text], s)

exampleAfterBody(status, channel, payload, s) ==
  IF exampleReadBytes32(s).err = "nil"
  THEN exampleAfterText(status, channel, payload, exampleReadBytes32(s).val, exampleReadBytes32(s).rest)
  ELSE exampleReadBytes32(s)

exampleAfterName(status, channel, s) ==
  IF exampleReadBytes32(s).err = "nil"
  THEN exampleAfterBody(status, channel, exampleReadBytes32(s).val, exampleReadBytes32(s).rest)
  ELSE exampleReadBytes32(s)

exampleAfterStatus(status, s) ==
  IF readString16(s).err = "nil"
  THEN exampleAfterName(status, readString16(s).val, readString16(s).rest)
  ELSE readString16(s)

LEMMA ExampleResponseFields ==
  \A s : exampleReadResponse(s) = IF ReadFull(s, 1).err = "nil"
                                  THEN exampleAfterStatus(ReadFull(s, 1).val, ReadFull(s, 1).rest)
                                  ELSE ReadFull(s, 1)
<1> QED BY DEF exampleReadResponse, Then, exampleAfterStatus, exampleAfterName, exampleAfterBody,
               exampleAfterText

\* Either client reads what the handler could encode as it was meant, with
\* nothing of what comes behind it.
LEMMA ResponseWhole ==
  ASSUME NEW r \in Answer, writeResponse(r).err = "nil", NEW t \in Bytes
  PROVE  /\ writeResponse(r).bytes \in Bytes
         /\ readResponse(writeResponse(r).bytes \o t) = Ok(r, t)
         /\ exampleReadResponse(writeResponse(r).bytes \o t) = Ok(r, t)
<1>1. PICK status, channel, payload, text :
        /\ status = <<StatusByte(r)>>
        /\ channel = writeString16(r.channel)
        /\ payload = writeBytes32(r.payload)
        /\ text = writeBytes32(r.error)
  OBVIOUS
<1>2. status \in Bytes /\ Len(status) = 1 /\ status[1] = StatusByte(r)
  <2>1. StatusByte(r) \in Byte
    BY ByteFacts DEF StatusByte, statusOK, statusError
  <2> QED BY <1>1, <2>1, OneByte
<1>0. MaxBytes \in Nat /\ MaxErrorSize \in Nat
  BY ProtocolAssumption
<1>3. channel \in Bytes
  BY <1>1, AnswerParts, String16Type
<1>4. text \in Bytes
  BY <1>0, <1>1, AnswerParts, Bytes32Whole
<1>5. payload \in Bytes
  BY <1>0, <1>1, AnswerParts, Bytes32Whole
<1>6. PICK s4 \in Bytes : s4 = text \o t
  BY <1>4, Joined
<1>7. PICK s3 \in Bytes : s3 = payload \o s4
  BY <1>5, Joined
<1>8. PICK s2 \in Bytes : s2 = channel \o s3
  BY <1>3, Joined
<1>9. PICK s : s = writeResponse(r).bytes \o t /\ s = status \o s2 /\ writeResponse(r).bytes \in Bytes
  <2>1. RegroupedFour(status, channel, payload, text, t)
    BY <1>2, <1>3, <1>4, <1>5, FourParts
  <2>2. writeResponse(r).bytes = ((status \o channel) \o payload) \o text
    BY <1>1, AnswerParts
  <2> QED BY <1>6, <1>7, <1>8, <2>1, <2>2 DEF RegroupedFour
<1>10. ReadFull(s, 1) = Ok(status, s2)
  BY <1>2, <1>9, ReadFullWhole
<1>11. readString16(s2) = Ok(r.channel, s3)
  BY <1>1, <1>8, AnswerParts, String16Whole
<1>12. /\ readBytes32(s3, MaxBytes) = Ok(r.payload, s4)
       /\ exampleReadBytes32(s3) = Ok(r.payload, s4)
  BY <1>0, <1>1, <1>7, AnswerParts, Bytes32Whole
<1>13. /\ readBytes32(s4, MaxErrorSize) = Ok(r.error, t)
       /\ exampleReadBytes32(s4) = Ok(r.error, t)
  BY <1>0, <1>1, <1>6, AnswerParts, Bytes32Whole
<1>14. r = [ok |-> status[1] = statusOK, channel |-> r.channel, payload |-> r.payload, error |-> r.error]
  <2>1. r.ok = (status[1] = statusOK)
    <3>1. CASE r.ok = TRUE
      BY <1>2, <3>1 DEF StatusByte
    <3>2. CASE r.ok = FALSE
      <4>1. status[1] = 2
        BY <1>2, <3>2 DEF StatusByte, statusError
      <4>2. (status[1] = statusOK) = FALSE
        BY <4>1 DEF statusOK
      <4> QED BY <3>2, <4>2
    <3> QED BY <3>1, <3>2, AnswerParts
  <2> QED BY <2>1, AnswerParts
<1>15. readResponse(s) = Ok(r, t)
  <2>1. readResponse(s) = AfterStatus(status, s2)
    BY <1>10, ResponseFields, OkParts
  <2>2. AfterStatus(status, s2) = AfterName(status, r.channel, s3)
    BY <1>11, OkParts DEF AfterStatus
  <2>3. AfterName(status, r.channel, s3) = AfterBody(status, r.channel, r.payload, s4)
    BY <1>12, OkParts DEF AfterName
  <2>4. AfterBody(status, r.channel, r.payload, s4) = AfterText(status, r.channel, r.payload, r.error, t)
    BY <1>13, OkParts DEF AfterBody
  <2>5. status[1] \in {statusOK, statusError}
    BY <1>2 DEF StatusByte
  <2>6. AfterText(status, r.channel, r.payload, r.error, t) = Ok(r, t)
    BY <1>14, <2>5 DEF AfterText
  <2> QED BY <2>1, <2>2, <2>3, <2>4, <2>6
<1>16. exampleReadResponse(s) = Ok(r, t)
  <2>1. exampleReadResponse(s) = exampleAfterStatus(status, s2)
    BY <1>10, ExampleResponseFields, OkParts
  <2>2. exampleAfterStatus(status, s2) = exampleAfterName(status, r.channel, s3)
    BY <1>11, OkParts DEF exampleAfterStatus
  <2>3. exampleAfterName(status, r.channel, s3) = exampleAfterBody(status, r.channel, r.payload, s4)
    BY <1>12, OkParts DEF exampleAfterName
  <2>4. exampleAfterBody(status, r.channel, r.payload, s4)
          = exampleAfterText(status, r.channel, r.payload, r.error, t)
    BY <1>13, OkParts DEF exampleAfterBody
  <2>5. exampleAfterText(status, r.channel, r.payload, r.error, t) = Ok(r, t)
    BY <1>14 DEF exampleAfterText
  <2> QED BY <2>1, <2>2, <2>3, <2>4, <2>5
<1> QED BY <1>9, <1>15, <1>16

LEMMA ResponseGoes ==
  ASSUME NEW s \in Bytes, NEW t \in Bytes
  PROVE  Goes(readResponse(s), readResponse(s \o t), t)
<1> SUFFICES ASSUME readResponse(s).err = "nil"
             PROVE  Goes(readResponse(s), readResponse(s \o t), t)
  BY DEF Goes
<1>0. 1 \in Nat /\ MaxBytes \in Nat /\ MaxErrorSize \in Nat
  BY ProtocolAssumption
<1>1. ReadFull(s, 1).err = "nil"
  BY ResponseFields
<1>2. PICK status \in Bytes, s1 \in Bytes : /\ ReadFull(s, 1) = Ok(status, s1)
                                            /\ ReadFull(s \o t, 1) = Ok(status, s1 \o t)
  BY <1>0, <1>1, ReadFullGoes, Taken
<1>3. /\ readResponse(s) = AfterStatus(status, s1)
      /\ readResponse(s \o t) = AfterStatus(status, s1 \o t)
  BY <1>2, ResponseFields, OkParts
<1>4. readString16(s1).err = "nil"
  BY <1>3 DEF AfterStatus
<1>5. PICK channel \in Bytes, s2 \in Bytes : /\ readString16(s1) = Ok(channel, s2)
                                             /\ readString16(s1 \o t) = Ok(channel, s2 \o t)
  BY <1>4, String16Goes, Taken
<1>6. /\ readResponse(s) = AfterName(status, channel, s2)
      /\ readResponse(s \o t) = AfterName(status, channel, s2 \o t)
  BY <1>3, <1>5, OkParts DEF AfterStatus
<1>7. readBytes32(s2, MaxBytes).err = "nil"
  BY <1>6 DEF AfterName
<1>8. PICK payload \in Bytes, s3 \in Bytes : /\ readBytes32(s2, MaxBytes) = Ok(payload, s3)
                                             /\ readBytes32(s2 \o t, MaxBytes) = Ok(payload, s3 \o t)
  BY <1>0, <1>7, Bytes32Goes, Taken
<1>9. /\ readResponse(s) = AfterBody(status, channel, payload, s3)
      /\ readResponse(s \o t) = AfterBody(status, channel, payload, s3 \o t)
  BY <1>6, <1>8, OkParts DEF AfterName
<1>10. readBytes32(s3, MaxErrorSize).err = "nil"
  BY <1>9 DEF AfterBody
<1>11. PICK text \in Bytes, s4 \in Bytes : /\ readBytes32(s3, MaxErrorSize) = Ok(text, s4)
                                           /\ readBytes32(s3 \o t, MaxErrorSize) = Ok(text, s4 \o t)
  BY <1>0, <1>10, Bytes32Goes, Taken
<1>12. /\ readResponse(s) = AfterText(status, channel, payload, text, s4)
       /\ readResponse(s \o t) = AfterText(status, channel, payload, text, s4 \o t)
  BY <1>9, <1>11, OkParts DEF AfterBody
<1>13. status[1] \in {statusOK, statusError}
  BY <1>12, FailParts DEF AfterText
<1> DEFINE q == [ok |-> status[1] = statusOK, channel |-> channel,
                 payload |-> payload, error |-> text]
<1>14. /\ readResponse(s) = Ok(q, s4)
       /\ readResponse(s \o t) = Ok(q, s4 \o t)
  BY <1>12, <1>13 DEF AfterText
<1> HIDE DEF q
<1> QED BY <1>14, OkParts DEF Goes

LEMMA ExampleResponseGoes ==
  ASSUME NEW s \in Bytes, NEW t \in Bytes
  PROVE  Goes(exampleReadResponse(s), exampleReadResponse(s \o t), t)
<1> SUFFICES ASSUME exampleReadResponse(s).err = "nil"
             PROVE  Goes(exampleReadResponse(s), exampleReadResponse(s \o t), t)
  BY DEF Goes
<1>0. 1 \in Nat
  OBVIOUS
<1>1. ReadFull(s, 1).err = "nil"
  BY ExampleResponseFields
<1>2. PICK status \in Bytes, s1 \in Bytes : /\ ReadFull(s, 1) = Ok(status, s1)
                                            /\ ReadFull(s \o t, 1) = Ok(status, s1 \o t)
  BY <1>0, <1>1, ReadFullGoes, Taken
<1>3. /\ exampleReadResponse(s) = exampleAfterStatus(status, s1)
      /\ exampleReadResponse(s \o t) = exampleAfterStatus(status, s1 \o t)
  BY <1>2, ExampleResponseFields, OkParts
<1>4. readString16(s1).err = "nil"
  BY <1>3 DEF exampleAfterStatus
<1>5. PICK channel \in Bytes, s2 \in Bytes : /\ readString16(s1) = Ok(channel, s2)
                                             /\ readString16(s1 \o t) = Ok(channel, s2 \o t)
  BY <1>4, String16Goes, Taken
<1>6. /\ exampleReadResponse(s) = exampleAfterName(status, channel, s2)
      /\ exampleReadResponse(s \o t) = exampleAfterName(status, channel, s2 \o t)
  BY <1>3, <1>5, OkParts DEF exampleAfterStatus
<1>7. exampleReadBytes32(s2).err = "nil"
  BY <1>6 DEF exampleAfterName
<1>8. PICK payload \in Bytes, s3 \in Bytes : /\ exampleReadBytes32(s2) = Ok(payload, s3)
                                             /\ exampleReadBytes32(s2 \o t) = Ok(payload, s3 \o t)
  BY <1>7, ExampleBytes32Goes, Taken
<1>9. /\ exampleReadResponse(s) = exampleAfterBody(status, channel, payload, s3)
      /\ exampleReadResponse(s \o t) = exampleAfterBody(status, channel, payload, s3 \o t)
  BY <1>6, <1>8, OkParts DEF exampleAfterName
<1>10. exampleReadBytes32(s3).err = "nil"
  BY <1>9 DEF exampleAfterBody
<1>11. PICK text \in Bytes, s4 \in Bytes : /\ exampleReadBytes32(s3) = Ok(text, s4)
                                           /\ exampleReadBytes32(s3 \o t) = Ok(text, s4 \o t)
  BY <1>10, ExampleBytes32Goes, Taken
<1>12. /\ exampleReadResponse(s) = exampleAfterText(status, channel, payload, text, s4)
       /\ exampleReadResponse(s \o t) = exampleAfterText(status, channel, payload, text, s4 \o t)
  BY <1>9, <1>11, OkParts DEF exampleAfterBody
<1> DEFINE q == [ok |-> status[1] = statusOK, channel |-> channel,
                 payload |-> payload, error |-> text]
<1>13. /\ exampleReadResponse(s) = Ok(q, s4)
       /\ exampleReadResponse(s \o t) = Ok(q, s4 \o t)
  BY <1>12 DEF exampleAfterText
<1> HIDE DEF q
<1> QED BY <1>13, OkParts DEF Goes

\* Whichever library the client uses.
LEMMA DecodeGoes ==
  ASSUME NEW s \in Bytes, NEW t \in Bytes
  PROVE  Goes(Decode(s), Decode(s \o t), t)
<1> QED BY ResponseGoes, ExampleResponseGoes DEF Decode

LEMMA DecodeWhole ==
  ASSUME NEW r \in Answer, writeResponse(r).err = "nil", NEW t \in Bytes
  PROVE  Decode(writeResponse(r).bytes \o t) = Ok(r, t)
<1> QED BY ResponseWhole DEF Decode

-----------------------------------------------------------------------------
(* Encodings that arrive in part                                           *)

LEMMA NoBytes == <<>> \in Bytes /\ \A s \in Bytes : s \o <<>> = s /\ <<>> \o s = s
<1>1. <<>> \in Bytes
  BY DEF Bytes
<1>2. \A s \in Bytes : s \o <<>> = s /\ <<>> \o s = s
  BY ConcatEmptySeq DEF Bytes
<1> QED BY <1>1, <1>2

LEMMA EmptyParts == \A a, b \in Bytes : a \o b = <<>> => a = <<>> /\ b = <<>>
<1> TAKE a, b \in Bytes
<1> HAVE a \o b = <<>>
<1>1. Len(a \o b) = Len(a) + Len(b) /\ Len(<<>>) = 0
  BY Split
<1>2. Len(a) \in Nat /\ Len(b) \in Nat
  BY LenProperties DEF Bytes
<1>3. Len(a) = 0 /\ Len(b) = 0
  BY <1>1, <1>2
<1> QED BY <1>3, EmptySeq DEF Bytes

LEMMA NothingRead == readRequest(<<>>).err = "EOF" /\ Decode(<<>>).err = "EOF"
<1>1. ReadFull(<<>>, 1) = Fail("EOF")
  BY DEF ReadFull
<1>2. readRequest(<<>>) = Fail("EOF")
  BY <1>1, RequestFields, FailParts
<1>3. readResponse(<<>>) = Fail("EOF") /\ exampleReadResponse(<<>>) = Fail("EOF")
  BY <1>1, ResponseFields, ExampleResponseFields, FailParts
<1> QED BY <1>2, <1>3, FailParts DEF Decode

\* No part of a request but the whole is read as a request.
LEMMA RequestCut ==
  ASSUME NEW r \in Request, Fits(r), NEW a \in Bytes, NEW x \in Bytes,
         a \o x = RequestBytes(r), readRequest(a).err = "nil"
  PROVE  x = <<>> /\ readRequest(a) = Ok(r, <<>>)
<1>1. PICK v : \E u \in Bytes : readRequest(a) = Ok(v, u) /\ readRequest(a \o x) = Ok(v, u \o x)
  <2>1. Goes(readRequest(a), readRequest(a \o x), x)
    BY RequestGoes
  <2> QED BY <2>1, Taken
<1>2. PICK u \in Bytes : readRequest(a) = Ok(v, u) /\ readRequest(a \o x) = Ok(v, u \o x)
  BY <1>1
<1>3. RequestBytes(r) \o <<>> = RequestBytes(r)
  BY Joined, NoBytes
<1>4. readRequest(RequestBytes(r)) =
           IF Len(r.channels) > MaxChannels THEN Fail("tooManyChannels")
           ELSE IF Len(r.payload) > MaxBytes THEN Fail("frameTooLarge")
           ELSE Ok(r, <<>>)
  BY <1>3, NoBytes, RequestWhole
<1>5. Ok(v, u \o x).err = "nil"
  BY OkParts
<1>6. Ok(v, u \o x) = Ok(r, <<>>)
  BY <1>2, <1>4, <1>5, FailParts
<1>7. v = r /\ u \o x = <<>>
  <2>1. PICK y : y = u \o x
    OBVIOUS
  <2>2. Ok(v, y) = Ok(r, <<>>)
    BY <1>6, <2>1
  <2>3. Ok(v, y).val = v /\ Ok(v, y).rest = y /\ Ok(r, <<>>).val = r /\ Ok(r, <<>>).rest = <<>>
    BY OkParts
  <2> QED BY <2>1, <2>2, <2>3
<1> QED BY <1>2, <1>7, EmptyParts

\* A whole request never leaves the handler waiting for more.
LEMMA RequestEnough ==
  ASSUME NEW r \in Request, Fits(r)
  PROVE  ~Short(readRequest(RequestBytes(r))) /\ RequestBytes(r) \in Bytes /\ RequestBytes(r) # <<>>
<1>1. RequestBytes(r) \in Bytes
  BY NoBytes, RequestLayout DEF LaidOut
<1>2. RequestBytes(r) \o <<>> = RequestBytes(r)
  BY <1>1, NoBytes
<1>3. readRequest(RequestBytes(r)) =
           IF Len(r.channels) > MaxChannels THEN Fail("tooManyChannels")
           ELSE IF Len(r.payload) > MaxBytes THEN Fail("frameTooLarge")
           ELSE Ok(r, <<>>)
  BY <1>2, NoBytes, RequestWhole
<1>4. readRequest(RequestBytes(r)).err \in {"tooManyChannels", "frameTooLarge", "nil"}
  BY <1>3, OkParts, FailParts
<1> QED BY <1>1, <1>4, NothingRead DEF Short

\* No part of a response but the whole is read as a response.
LEMMA ResponseCut ==
  ASSUME NEW r \in Answer, writeResponse(r).err = "nil", NEW a \in Bytes, NEW x \in Bytes,
         a \o x = writeResponse(r).bytes, Decode(a).err = "nil"
  PROVE  x = <<>> /\ Decode(a) = Ok(r, <<>>)
<1>1. PICK v : \E u \in Bytes : Decode(a) = Ok(v, u) /\ Decode(a \o x) = Ok(v, u \o x)
  <2>1. Goes(Decode(a), Decode(a \o x), x)
    BY DecodeGoes
  <2> QED BY <2>1, Taken
<1>2. PICK u \in Bytes : Decode(a) = Ok(v, u) /\ Decode(a \o x) = Ok(v, u \o x)
  BY <1>1
<1>3. writeResponse(r).bytes \o <<>> = writeResponse(r).bytes
  BY Joined, NoBytes
<1>4. Decode(writeResponse(r).bytes) = Ok(r, <<>>)
  BY <1>3, NoBytes, DecodeWhole
<1>5. v = r /\ u \o x = <<>>
  <2>1. PICK y : y = u \o x
    OBVIOUS
  <2>2. Ok(v, y) = Ok(r, <<>>)
    BY <1>2, <1>4, <2>1
  <2>3. Ok(v, y).val = v /\ Ok(v, y).rest = y /\ Ok(r, <<>>).val = r /\ Ok(r, <<>>).rest = <<>>
    BY OkParts
  <2> QED BY <2>1, <2>2, <2>3
<1> QED BY <1>2, <1>5, EmptyParts

LEMMA ResponseEnough ==
  ASSUME NEW r \in Answer, writeResponse(r).err = "nil"
  PROVE  /\ writeResponse(r).bytes \in Bytes /\ writeResponse(r).bytes # <<>>
         /\ ~Short(Decode(writeResponse(r).bytes))
<1>1. writeResponse(r).bytes \in Bytes
  BY NoBytes, ResponseWhole
<1>2. writeResponse(r).bytes \o <<>> = writeResponse(r).bytes
  BY <1>1, NoBytes
<1>3. Decode(writeResponse(r).bytes) = Ok(r, <<>>)
  BY <1>2, NoBytes, DecodeWhole
<1>4. Decode(writeResponse(r).bytes).err = "nil"
  BY <1>3, OkParts
<1> QED BY <1>1, <1>4, NothingRead DEF Short

\* s is cut off in front of the end of a request.
Partial(s) ==
  \/ s = <<>>
  \/ \E q \in Request : \E x \in Bytes : Fits(q) /\ x # <<>> /\ s \o x = RequestBytes(q)

LEMMA PartialUnread ==
  ASSUME NEW s \in Bytes, Partial(s)
  PROVE  readRequest(s).err # "nil"
<1>1. CASE s = <<>>
  BY <1>1, NothingRead
<1>2. ASSUME NEW q \in Request, NEW x \in Bytes, Fits(q), x # <<>>, s \o x = RequestBytes(q)
      PROVE  readRequest(s).err # "nil"
  BY <1>2, RequestCut
<1> QED BY <1>1, <1>2 DEF Partial

LEMMA PartialStart ==
  ASSUME NEW a \in Bytes, NEW b \in Bytes, Partial(a \o b)
  PROVE  Partial(a)
<1>1. CASE a \o b = <<>>
  BY <1>1, EmptyParts DEF Partial
<1>2. ASSUME NEW q \in Request, NEW x \in Bytes, Fits(q), x # <<>>, (a \o b) \o x = RequestBytes(q)
      PROVE  Partial(a)
  <2>1. PICK y \in Bytes : y = b \o x
    BY Joined
  <2>2. a \o y = RequestBytes(q) /\ y # <<>>
    <3>1. Assoc(a, b, x)
      BY AssocBytes
    <3> QED BY <1>2, <2>1, <3>1, EmptyParts DEF Assoc
  <2> QED BY <1>2, <2>2 DEF Partial
<1> QED BY <1>1, <1>2 DEF Partial

\* The least element of a set of positions.
LEMMA MinType ==
  ASSUME NEW T, T \subseteq Nat, T # {}
  PROVE  Min(T) \in T /\ \A m \in T : Min(T) <= m
<1>1. \E n \in T : \A m \in T : n <= m
  BY LeastNumber
<1> QED BY <1>1 DEF Min

LEMMA AcceptedFits ==
  ASSUME NEW r \in Request, writeRequest(r).err = "nil"
  PROVE  Fits(r) /\ writeRequest(r).bytes = RequestBytes(r)
<1>1. /\ ~(Len(r.channels) > MaxChannels \/ Len(r.payload) > MaxBytes)
      /\ TooLong(r.channels) = {}
      /\ writeRequest(r).bytes = RequestBytes(r)
  BY DEF writeRequest
<1>2. /\ MaxChannels \in Nat /\ MaxBytes \in Nat /\ Span(W16) \in Nat /\ Span(W32) \in Nat
      /\ MaxChannels < Span(W16) /\ MaxBytes < Span(W32)
  BY WidthType, SpanType, ProtocolAssumption
<1>3. Len(r.channels) < Span(W16) /\ Len(r.payload) < Span(W32)
  BY <1>1, <1>2, RequestParts
<1>4. ASSUME NEW i \in DOMAIN r.channels PROVE Len(r.channels[i]) < Span(W16)
  <2>1. Len(r.channels[i]) \in Nat
    BY RequestParts, LenProperties, ElementOfSeq DEF Bytes
  <2>2. ~(Len(r.channels[i]) >= Span(W16))
    BY <1>1 DEF TooLong
  <2> QED BY <1>2, <2>1, <2>2
<1> QED BY <1>1, <1>3, <1>4 DEF Fits

\* What writeRequest leaves behind when it gives up half-way is the beginning
\* of a request, the one with an empty name in place of the long one.
LEMMA RefusedPartial ==
  ASSUME NEW r \in Request, writeRequest(r).err # "nil"
  PROVE  writeRequest(r).bytes \in Bytes /\ Partial(writeRequest(r).bytes)
<1>1. CASE Len(r.channels) > MaxChannels \/ Len(r.payload) > MaxBytes
  <2>1. writeRequest(r).bytes = <<>>
    BY <1>1 DEF writeRequest
  <2> QED BY <2>1, NoBytes DEF Partial
<1>2. CASE ~(Len(r.channels) > MaxChannels \/ Len(r.payload) > MaxBytes)
  <2>1. /\ TooLong(r.channels) # {}
        /\ writeRequest(r).bytes
             = RequestHead(r) \o WriteStrings(SubSeq(r.channels, 1, Min(TooLong(r.channels)) - 1))
    BY <1>2 DEF writeRequest
  <2>2. PICK cs \in Seq(Bytes), n \in Nat : /\ cs = r.channels /\ n = Len(cs) /\ DOMAIN cs = 1 .. n
                                            /\ \A i \in 1 .. n : cs[i] \in Bytes
    BY RequestParts, LenProperties, ElementOfSeq
  <2>3. PICK k \in 1 .. n : k = Min(TooLong(r.channels)) /\ \A i \in TooLong(cs) : k <= i
    <3>1. TooLong(cs) \subseteq 1 .. n
      BY <2>2 DEF TooLong
    <3> QED BY <2>1, <2>2, <3>1, MinType
  <2>4. \A i \in 1 .. k - 1 : Len(cs[i]) < Span(W16)
    <3> TAKE i \in 1 .. k - 1
    <3>1. i \in 1 .. n /\ ~(k <= i)
      BY <2>2, <2>3
    <3>2. i \notin TooLong(cs)
      BY <2>3, <3>1
    <3>3. ~(Len(cs[i]) >= Span(W16))
      BY <2>2, <3>1, <3>2 DEF TooLong
    <3>4. Len(cs[i]) \in Nat /\ Span(W16) \in Nat
      BY <2>2, <3>1, LenProperties, WidthType, SpanType DEF Bytes
    <3> QED BY <3>3, <3>4
  <2> DEFINE ds == [i \in 1 .. n |-> IF i < k THEN cs[i] ELSE <<>>]
             q == [op |-> r.op, timeout |-> r.timeout, channels |-> ds, payload |-> r.payload]
  <2>5. ds \in Seq(Bytes) /\ Len(ds) = n /\ DOMAIN ds = 1 .. n
    <3>1. ds \in [1 .. n -> Bytes]
      BY <2>2, NoBytes
    <3> QED BY <2>2, <3>1
  <2>6. q \in Request
    BY <2>5, RequestParts DEF Request, Bytes
  <2>7. Fits(q)
    <3>1. Len(ds) < Span(W16) /\ Len(r.payload) < Span(W32)
      <4>1. /\ MaxChannels \in Nat /\ MaxBytes \in Nat /\ Span(W16) \in Nat /\ Span(W32) \in Nat
            /\ MaxChannels < Span(W16) /\ MaxBytes < Span(W32)
        BY WidthType, SpanType, ProtocolAssumption
      <4> HIDE DEF ds
      <4> QED BY <1>2, <2>2, <2>5, <4>1, RequestParts
    <3>2. ASSUME NEW i \in 1 .. n PROVE Len(ds[i]) < Span(W16)
      <4>1. CASE i < k
        <5>1. i \in 1 .. k - 1
          BY <2>2, <2>3, <4>1
        <5> QED BY <2>4, <4>1, <5>1
      <4>2. CASE ~(i < k)
        <5>1. Len(<<>>) = 0 /\ Span(W16) \in Nat /\ Span(W16) > 0
          BY WidthType, SpanType
        <5> QED BY <4>2, <5>1
      <4> QED BY <4>1, <4>2
    <3> HIDE DEF ds
    <3> QED BY <2>5, <3>1, <3>2 DEF Fits
  <2>8. SubSeq(ds, 1, k - 1) = SubSeq(cs, 1, k - 1) /\ k - 1 \in 0 .. n
    <3>1. PICK m \in Nat : m = k - 1 /\ m <= n
      BY <2>2, <2>3
    <3>2. \A i \in 1 .. m : ds[i] = cs[i]
      BY <2>2, <2>3, <3>1
    <3> HIDE DEF ds
    <3>3. PICK a \in Seq(Bytes) : a = SubSeq(ds, 1, m) /\ Len(a) = m /\ \A i \in 1 .. m : a[i] = ds[i]
      <4>1. ds \in Seq(Bytes) /\ m <= Len(ds)
        BY <2>2, <2>5, <3>1
      <4>2. SubSeq(ds, 1, m) \in Seq(Bytes) /\ Len(SubSeq(ds, 1, m)) = m
        BY <3>1, <4>1, FirstElements
      <4>3. \A i \in 1 .. m : SubSeq(ds, 1, m)[i] = ds[i]
        BY <3>1, <4>1, FirstElements
      <4> QED BY <4>2, <4>3
    <3>4. PICK b \in Seq(Bytes) : b = SubSeq(cs, 1, m) /\ Len(b) = m /\ \A i \in 1 .. m : b[i] = cs[i]
      <4>1. cs \in Seq(Bytes) /\ m <= Len(cs)
        BY <2>2, <2>5, <3>1
      <4>2. SubSeq(cs, 1, m) \in Seq(Bytes) /\ Len(SubSeq(cs, 1, m)) = m
        BY <3>1, <4>1, FirstElements
      <4>3. \A i \in 1 .. m : SubSeq(cs, 1, m)[i] = cs[i]
        BY <3>1, <4>1, FirstElements
      <4> QED BY <4>2, <4>3
    <3>5. \A i \in 1 .. m : a[i] = b[i]
      BY <3>2, <3>3, <3>4
    <3>6. a = b
      BY <3>3, <3>4, <3>5, SeqEqual
    <3> QED BY <2>2, <2>3, <3>1, <3>3, <3>4, <3>6
  <2> HIDE DEF ds
  <2>9. PICK w \in Bytes : w = WriteStrings(SubSeq(cs, 1, k - 1))
    <3>1. SubSeq(cs, 1, k - 1) \in Seq(Bytes)
      <4>1. PICK m \in Nat : m = k - 1 /\ m <= n
        BY <2>2, <2>3
      <4> QED BY <2>2, <4>1, FirstElements
    <3> QED BY <3>1, WriteSteps
  <2>10. PICK x \in Bytes : WriteStrings(ds) = w \o x
    BY <2>5, <2>8, <2>9, WrittenFirst
  <2>11. PICK head : head = RequestHead(q) /\ head = RequestHead(r)
    BY <2>2, <2>5 DEF RequestHead
  <2>12. PICK p : p = writeBytes32(r.payload)
    OBVIOUS
  <2>13. /\ head \in Bytes /\ p \in Bytes
         /\ RequestBytes(q) = head \o (WriteStrings(ds) \o p)
    <3>1. LaidOut(q, <<>>, <<OpByte(q.op)>>, Digits(q.timeout, W64), Digits(Len(q.channels), W16),
                  WriteStrings(q.channels), writeBytes32(q.payload))
      <4> HIDE DEF q
      <4> QED BY <2>6, NoBytes, RequestLayout
    <3>2. q.channels = ds /\ q.payload = r.payload
      OBVIOUS
    <3> HIDE DEF q
    <3> QED BY <2>11, <2>12, <3>1, <3>2 DEF LaidOut
  <2>14. p # <<>>
    <3>1. 0 \in Nat /\ r.payload \in Bytes /\ Len(r.payload) < Span(W32)
      <4> HIDE DEF q
      <4>1. Len(q.payload) < Span(W32)
        BY <2>7 DEF Fits
      <4> QED BY <4>1, RequestParts DEF q
    <3> QED BY <2>12, <3>1, NoBytes, Bytes32Whole
  <2>15. head \o (WriteStrings(ds) \o p) = (head \o w) \o (x \o p)
    <3>1. PICK z \in Bytes : z = x \o p
      BY <2>13, Joined
    <3>2. Assoc(w, x, p) /\ Assoc(head, w, z)
      BY <2>13, AssocBytes
    <3> QED BY <2>10, <3>1, <3>2 DEF Assoc
  <2>16. x \o p \in Bytes /\ x \o p # <<>> /\ head \o w \in Bytes
    BY <2>13, <2>14, Joined, EmptyParts
  <2>17. writeRequest(r).bytes = head \o w
    BY <2>1, <2>2, <2>3, <2>9, <2>11
  <2> HIDE DEF q
  <2>18. (head \o w) \o (x \o p) = RequestBytes(q)
    BY <2>13, <2>15
  <2> QED BY <2>6, <2>7, <2>16, <2>17, <2>18 DEF Partial
<1> QED BY <1>1, <1>2

-----------------------------------------------------------------------------
(* The steps of a connection                                               *)

\* What writeResponse accepts.
Encodable == {r \in Answer : writeResponse(r).err = "nil"}

Typed ==
  /\ lib \in Libs
  /\ cpc \in {"idle", "send", "refused", "wait", "closed"}
  /\ hpc \in {"read", "call", "send", "last", "return", "closed"}
  /\ cbuf \in Bytes /\ up \in Bytes /\ hbuf \in Bytes /\ down \in Bytes
  /\ sent \in Seq(Request) /\ calls \in Seq(RequestRead) /\ given \in Seq(Encodable)
  /\ hpc = "call" => req \in RequestRead

LEMMA ErrorType ==
  /\ Text \in Bytes
  /\ \A text \in Bytes : ErrorResponse(text) \in Answer /\ ErrorResponse(text).ok = FALSE
<1>1. Text \in Bytes
  BY ByteFacts, OneByte DEF Text
<1>2. ASSUME NEW text \in Bytes
      PROVE  ErrorResponse(text) \in Answer /\ ErrorResponse(text).ok = FALSE
  BY NoBytes DEF ErrorResponse, Response, Answer
<1> QED BY <1>1, <1>2

LEMMA OutcomeType ==
  ASSUME NEW q \in RequestRead
  PROVE  Outcomes(q) \subseteq Answer
<1>1. PICK cs \in Seq(Bytes) : cs = q.channels
  BY DEF RequestRead
<1>2. Len(cs) \in Nat /\ DOMAIN cs = 1 .. Len(cs) /\ \A i \in 1 .. Len(cs) : cs[i] \in Bytes
  BY LenProperties
<1>3. CASE Invalid(q) # {}
  <2>1. Invalid(q) \subseteq 1 .. Len(cs)
    BY <1>1, <1>2 DEF Invalid
  <2>2. Min(Invalid(q)) \in 1 .. Len(cs)
    BY <1>2, <1>3, <2>1, MinType
  <2>3. PICK name \in Bytes : name = q.channels[Min(Invalid(q))]
    BY <1>1, <1>2, <2>2
  <2>4. InvalidChannel(name) \in Bytes
    <3>1. PICK x \in Bytes : x = Text \o name
      BY ErrorType, Joined
    <3> QED BY <3>1, ErrorType, Joined DEF InvalidChannel
  <2>5. Outcomes(q) = {ErrorResponse(InvalidChannel(name))}
    BY <1>3, <2>3 DEF Outcomes
  <2> QED BY <2>4, <2>5, ErrorType
<1>4. CASE Invalid(q) = {}
  <2>1. ErrorResponse(Text) \in Answer
    BY ErrorType
  <2>2. Response(TRUE, <<>>, <<>>, <<>>) \in Answer
    BY NoBytes DEF Response, Answer
  <2>4. CASE q.op = "push"
    <3>1. Outcomes(q) = {ErrorResponse(Text)} \cup {Response(TRUE, <<>>, <<>>, <<>>)}
      BY <1>4, <2>4 DEF Outcomes
    <3> QED BY <2>1, <2>2, <3>1
  <2>5. CASE q.op # "push"
    <3> DEFINE Success(c, p) == Response(TRUE, c, p, <<>>)
               Found == {Success(c, p) : c \in ToSet(q.channels), p \in Payloads}
    <3>1. Outcomes(q) = {ErrorResponse(Text)} \cup Found
      BY <1>4, <2>5 DEF Outcomes
    <3>2. ASSUME NEW x \in Found PROVE x \in Answer
      <4>1. ASSUME NEW c \in ToSet(q.channels), NEW p \in Payloads
            PROVE  Success(c, p) \in Answer
        <5>1. c \in Bytes
          BY <1>1, <1>2 DEF ToSet
        <5>2. p \in Bytes
          BY ProtocolAssumption DEF Bytes
        <5> QED BY <5>1, <5>2, NoBytes DEF Response, Answer
      <4> HIDE DEF Success
      <4> QED BY <4>1
    <3> HIDE DEF Found
    <3> QED BY <2>1, <3>1, <3>2
  <2> QED BY <2>4, <2>5
<1> QED BY <1>3, <1>4

\* A response is encoded as a whole or not at all.
Encoded(r) ==
  /\ r \in Encodable
  /\ hbuf' = writeResponse(r).bytes /\ hbuf' \in Bytes /\ hbuf' # <<>>
  /\ given' = Append(given, r)
  /\ hpc' = IF r.ok THEN "send" ELSE "last"

GivenUp == hbuf' = <<>> /\ hbuf' \in Bytes /\ given' = given /\ hpc' = "return"

LEMMA Responds ==
  ASSUME NEW r \in Answer, Respond(r)
  PROVE  Encoded(r) \/ GivenUp
<1>1. CASE writeResponse(r).err = "nil"
  <2>1. r \in Encodable
    BY <1>1 DEF Encodable
  <2> QED BY <1>1, <2>1, ResponseEnough DEF Respond, Encoded
<1>2. CASE writeResponse(r).err # "nil"
  <2>1. writeResponse(r).bytes = <<>>
    BY <1>2 DEF writeResponse
  <2> QED BY <1>2, <2>1, NoBytes DEF Respond, GivenUp
<1> QED BY <1>1, <1>2

\* n bytes of a buffer are passed on: l is behind it, b is left.
PassedOn(buf, link, n, b, l) ==
  /\ b \in Bytes /\ l \in Bytes
  /\ l \o b = link \o buf
  /\ b = <<>> <=> n = Len(buf)

LEMMA Passed ==
  ASSUME NEW buf \in Bytes, NEW link \in Bytes, NEW n \in 1 .. Len(buf)
  PROVE  PassedOn(buf, link, n, SubSeq(buf, n + 1, Len(buf)), link \o SubSeq(buf, 1, n))
<1>0. PICK b, l : b = SubSeq(buf, n + 1, Len(buf)) /\ l = link \o SubSeq(buf, 1, n)
  OBVIOUS
<1>1. n \in 0 .. Len(buf) /\ Len(buf) \in Nat
  BY LenProperties DEF Bytes
<1>2. PICK a \in Bytes : a = SubSeq(buf, 1, n) /\ Len(a) = n /\ b \in Bytes /\ buf = a \o b
  BY <1>0, <1>1, Cut
<1>3. l \in Bytes /\ l \o b = link \o buf
  <2>1. Assoc(link, a, b)
    BY <1>2, AssocBytes
  <2> QED BY <1>0, <1>2, <2>1, Joined DEF Assoc
<1>4. Len(buf) = n + Len(b) /\ Len(b) \in Nat
  <2>1. Len(a \o b) = Len(a) + Len(b)
    BY <1>2, Split
  <2> QED BY <1>2, <2>1, LenProperties DEF Bytes
<1>5. b = <<>> <=> Len(b) = 0
  BY <1>2, EmptySeq DEF Bytes
<1>6. Len(b) = 0 <=> n = Len(buf)
  BY <1>1, <1>4
<1> QED BY <1>0, <1>2, <1>3, <1>5, <1>6 DEF PassedOn

LEMMA RespondType ==
  ASSUME Typed, NEW r, Encoded(r) \/ GivenUp
  PROVE  hbuf' \in Bytes /\ given' \in Seq(Encodable) /\ hpc' \in {"send", "last", "return"}
<1>1. CASE Encoded(r)
  <2>1. r \in Encodable /\ given \in Seq(Encodable) /\ given' = Append(given, r)
    BY <1>1 DEF Encoded, Typed
  <2>2. given' \in Seq(Encodable)
    BY <2>1, AppendProperties
  <2> QED BY <1>1, <2>2 DEF Encoded
<1>2. CASE GivenUp
  BY <1>2 DEF GivenUp, Typed
<1> QED BY <1>1, <1>2

\* What a client's encoder leaves in the buffer.
LEMMA EncodeType ==
  ASSUME Typed, NEW r \in Requests[lib]
  PROVE  r \in Request /\ Encode(r).bytes \in Bytes
<1>1. r \in Request
  BY ProtocolAssumption DEF Typed
<1>2. RequestBytes(r) \in Bytes
  BY <1>1, NoBytes, RequestLayout DEF LaidOut
<1>3. writeRequest(r).bytes \in Bytes
  BY <1>1, <1>2, AcceptedFits, RefusedPartial
<1> QED BY <1>1, <1>2, <1>3 DEF Encode, exampleWriteRequest

LEMMA TypedInit == Init => Typed
<1> SUFFICES ASSUME Init PROVE Typed
  OBVIOUS
<1>1. <<>> \in Seq(Request) /\ <<>> \in Seq(RequestRead) /\ <<>> \in Seq(Encodable)
  OBVIOUS
<1> QED BY <1>1, NoBytes DEF Init, Typed

LEMMA TypedNext == Typed /\ [Next]_vars => Typed'
<1> SUFFICES ASSUME Typed, [Next]_vars PROVE Typed'
  OBVIOUS
<1> USE DEF Typed
<1>1. CASE UNCHANGED vars
  BY <1>1 DEF vars, cvars, hvars
<1>2. ASSUME NEW r \in Requests[lib], ClientCall(r) PROVE Typed'
  <2>1. r \in Request /\ Encode(r).bytes \in Bytes
    BY EncodeType
  <2>2. cbuf' = cbuf \o Encode(r).bytes
    BY <1>2 DEF ClientCall
  <2>3. cbuf' \in Bytes
    BY <2>1, <2>2, Joined
  <2>4. sent' \in Seq(Request)
    BY <1>2, <2>1, AppendProperties DEF ClientCall
  <2>5. cpc' \in {"send", "refused"}
    BY <1>2 DEF ClientCall
  <2> QED BY <1>2, <2>3, <2>4, <2>5 DEF ClientCall, hvars
<1>3. ASSUME NEW n \in 1 .. Len(cbuf), ClientFlush(n) PROVE Typed'
  <2>1. cbuf' \in Bytes /\ up' \in Bytes
    <3>1. PassedOn(cbuf, up, n, SubSeq(cbuf, n + 1, Len(cbuf)), up \o SubSeq(cbuf, 1, n))
      BY Passed
    <3> QED BY <1>3, <3>1 DEF ClientFlush, PassedOn
  <2> QED BY <1>3, <2>1 DEF ClientFlush, hvars
<1>4. CASE ClientFails \/ ClientBadAnswer \/ ClientCloses
  BY <1>4, NoBytes DEF ClientFails, ClientBadAnswer, ClientCloses, ClientEnds, hvars
<1>5. CASE ClientAnswer
  <2>1. down' \in Bytes
    <3>1. Goes(Decode(down), Decode(down \o <<>>), <<>>)
      BY NoBytes, DecodeGoes
    <3> QED BY <1>5, <3>1 DEF ClientAnswer, Goes
  <2> QED BY <1>5, <2>1 DEF ClientAnswer, hvars
<1>6. CASE HandlerRequest
  <2>1. readRequest(up).err = "nil" /\ up' = readRequest(up).rest
    BY <1>6 DEF HandlerRequest
  <2>2. up' \in Bytes /\ readRequest(up).val \in RequestRead
    <3>1. /\ Goes(readRequest(up), readRequest(up \o <<>>), <<>>)
          /\ readRequest(up).val \in RequestRead
      BY <2>1, NoBytes, RequestGoes
    <3> QED BY <2>1, <3>1 DEF Goes
  <2>3. CASE readRequest(up).val.op = "push" /\ Len(readRequest(up).val.channels) # 1
    <3>1. Respond(ErrorResponse(Text)) /\ UNCHANGED <<req, calls>>
      BY <1>6, <2>3 DEF HandlerRequest
    <3>2. Encoded(ErrorResponse(Text)) \/ GivenUp
      BY <3>1, ErrorType, Responds
    <3>3. hbuf' \in Bytes /\ given' \in Seq(Encodable) /\ hpc' \in {"send", "last", "return"}
      BY <3>2, RespondType
    <3> QED BY <1>6, <2>2, <3>1, <3>3 DEF HandlerRequest, cvars
  <2>4. CASE ~(readRequest(up).val.op = "push" /\ Len(readRequest(up).val.channels) # 1)
    <3>1. /\ req' = readRequest(up).val
          /\ calls' = Append(calls, readRequest(up).val)
          /\ hpc' = "call"
          /\ UNCHANGED <<hbuf, given>>
      BY <1>6, <2>4 DEF HandlerRequest
    <3>2. calls' \in Seq(RequestRead) /\ req' \in RequestRead
      BY <2>2, <3>1, AppendProperties
    <3> QED BY <1>6, <2>2, <3>1, <3>2 DEF HandlerRequest, cvars
  <2> QED BY <2>3, <2>4
<1>7. CASE HandlerEOF
  BY <1>7 DEF HandlerEOF, cvars
<1>8. CASE HandlerBadRequest
  <2>1. Encoded(ErrorResponse(Text)) \/ GivenUp
    BY <1>8, ErrorType, Responds DEF HandlerBadRequest
  <2>2. hbuf' \in Bytes /\ given' \in Seq(Encodable) /\ hpc' \in {"send", "last", "return"}
    BY <2>1, RespondType
  <2> QED BY <1>8, <2>2 DEF HandlerBadRequest, cvars
<1>9. CASE HandlerRespond
  <2>1. PICK r \in Outcomes(req) : Respond(r)
    BY <1>9 DEF HandlerRespond
  <2>2. r \in Answer
    BY <1>9, <2>1, OutcomeType DEF HandlerRespond
  <2>3. Encoded(r) \/ GivenUp
    BY <2>1, <2>2, Responds
  <2>4. hbuf' \in Bytes /\ given' \in Seq(Encodable) /\ hpc' \in {"send", "last", "return"}
    BY <2>3, RespondType
  <2> QED BY <1>9, <2>4 DEF HandlerRespond, cvars
<1>10. ASSUME NEW n \in 1 .. Len(hbuf), HandlerFlush(n) PROVE Typed'
  <2>1. hbuf' \in Bytes /\ down' \in Bytes
    <3>1. PassedOn(hbuf, down, n, SubSeq(hbuf, n + 1, Len(hbuf)), down \o SubSeq(hbuf, 1, n))
      BY Passed
    <3> QED BY <1>10, <3>1 DEF HandlerFlush, PassedOn
  <2>2. hpc' \in {"send", "last", "read", "return"}
    BY <1>10 DEF HandlerFlush
  <2> QED BY <1>10, <2>1, <2>2 DEF HandlerFlush, cvars
<1>11. CASE HandlerWriteFails
  BY <1>11, NoBytes DEF HandlerWriteFails, cvars
<1>12. CASE HandlerCloses
  BY <1>12, NoBytes DEF HandlerCloses, cvars
<1> QED
  BY <1>1, <1>2, <1>3, <1>4, <1>5, <1>6, <1>7, <1>8, <1>9, <1>10, <1>11, <1>12 DEF Next

-----------------------------------------------------------------------------
(* Nothing is executed after an error                                      *)

AllOk == \A i \in 1 .. Len(given) : given[i].ok

\* Whose turn it is: what the handler has executed and answered so far.
Turns ==
  /\ hpc \in {"read", "call", "send"} => AllOk
  /\ hpc \in {"read", "send"} => Len(calls) = Len(given)
  /\ hpc = "call" => Len(calls) = Len(given) + 1
  /\ hpc = "last" => Len(calls) <= Len(given)
  /\ NothingAfterError

LEMMA TurnsInit == Init => Turns
<1> SUFFICES ASSUME Init PROVE Turns
  OBVIOUS
<1>1. Len(<<>>) = 0 /\ DOMAIN <<>> = {}
  OBVIOUS
<1>2. given = <<>> /\ calls = <<>> /\ hpc = "read"
  BY DEF Init
<1>3. AllOk
  BY <1>1, <1>2 DEF AllOk
<1>4. NothingAfterError
  BY <1>1, <1>2 DEF NothingAfterError
<1> QED BY <1>2, <1>3, <1>4 DEF Turns

LEMMA TurnsRespond ==
  ASSUME Typed, Turns, NEW r \in Answer, Encoded(r) \/ GivenUp,
         hpc \in {"read", "call"}, hpc = "read" => r.ok = FALSE, calls' = calls
  PROVE  Turns'
<1>1. Len(calls) \in Nat /\ Len(given) \in Nat /\ DOMAIN given = 1 .. Len(given)
  BY LenProperties DEF Typed
<1>2. CASE GivenUp
  <2>1. given' = given /\ calls' = calls /\ hpc' = "return"
    BY <1>2 DEF GivenUp
  <2>2. NothingAfterError'
    BY <2>1 DEF NothingAfterError, Turns
  <2> QED BY <2>1, <2>2 DEF Turns
<1>3. CASE Encoded(r)
  <2>1. PICK g, n : g = Append(given, r) /\ n = Len(given) /\ given' = g
    BY <1>3 DEF Encoded
  <2>2. /\ Len(g) = n + 1 /\ DOMAIN g = 1 .. n + 1 /\ n \in Nat
        /\ \A i \in 1 .. n : g[i] = given[i]
        /\ g[n + 1] = r
    <3>1. given \in Seq(Encodable) /\ r \in Encodable
      BY <1>3 DEF Encoded, Typed
    <3>2. g \in Seq(Encodable) /\ Len(g) = n + 1 /\ (\A i \in 1 .. n : g[i] = given[i]) /\ g[n + 1] = r
      BY <1>1, <2>1, <3>1, AppendProperties
    <3> QED BY <1>1, <2>1, <3>2, LenProperties
  <2>3. \A i \in 1 .. n : g[i].ok
    BY <2>1, <2>2 DEF Turns, AllOk
  <2>4. Len(calls) <= n + 1
    BY <1>1, <2>1, <2>2 DEF Turns
  <2>5. NothingAfterError'
    <3> SUFFICES ASSUME NEW i \in 1 .. n + 1, ~g[i].ok
                 PROVE  i = n + 1
      BY <2>1, <2>2, <2>4 DEF NothingAfterError
    <3> QED BY <2>2, <2>3
  <2>6. hpc' = IF r.ok THEN "send" ELSE "last"
    BY <1>3 DEF Encoded
  <2>7. CASE r.ok
    <3>1. hpc = "call" /\ hpc' = "send"
      BY <2>6, <2>7
    <3>2. AllOk'
      <4>1. \A i \in 1 .. n + 1 : g[i].ok
        BY <2>2, <2>3, <2>7
      <4> QED BY <2>1, <2>2, <4>1 DEF AllOk
    <3>3. Len(calls') = Len(given')
      BY <1>1, <2>1, <2>2, <3>1 DEF Turns
    <3> QED BY <2>5, <3>1, <3>2, <3>3 DEF Turns
  <2>8. CASE ~r.ok
    <3>1. hpc' = "last"
      BY <2>6, <2>8
    <3>2. Len(calls') <= Len(given')
      BY <2>1, <2>2, <2>4
    <3> QED BY <2>5, <3>1, <3>2 DEF Turns
  <2> QED BY <2>7, <2>8
<1> QED BY <1>2, <1>3

LEMMA TurnsNext == Typed /\ Turns /\ [Next]_vars => Turns'
<1> SUFFICES ASSUME Typed, Turns, [Next]_vars PROVE Turns'
  OBVIOUS
<1> DEFINE Quiet == calls' = calls /\ given' = given
<1>0. ASSUME Quiet, hpc' \in {hpc, "return", "closed"} PROVE Turns'
  <2>1. (NothingAfterError <=> NothingAfterError') /\ (AllOk <=> AllOk')
    BY <1>0 DEF NothingAfterError, AllOk
  <2> QED BY <1>0, <2>1 DEF Turns
<1>1. CASE UNCHANGED vars
  BY <1>0, <1>1 DEF vars, hvars
<1>2. ASSUME NEW r \in Requests[lib], ClientCall(r) PROVE Turns'
  BY <1>0, <1>2 DEF ClientCall, hvars
<1>3. ASSUME NEW n \in 1 .. Len(cbuf), ClientFlush(n) PROVE Turns'
  BY <1>0, <1>3 DEF ClientFlush, hvars
<1>4. CASE ClientFails \/ ClientBadAnswer \/ ClientCloses \/ ClientAnswer
  BY <1>0, <1>4 DEF ClientFails, ClientBadAnswer, ClientCloses, ClientAnswer, hvars
<1>5. CASE HandlerRequest
  <2>1. hpc = "read"
    BY <1>5 DEF HandlerRequest
  <2>2. CASE readRequest(up).val.op = "push" /\ Len(readRequest(up).val.channels) # 1
    <3>1. Respond(ErrorResponse(Text)) /\ calls' = calls
      BY <1>5, <2>2 DEF HandlerRequest
    <3>2. Encoded(ErrorResponse(Text)) \/ GivenUp
      BY <3>1, ErrorType, Responds
    <3> QED BY <2>1, <3>1, <3>2, ErrorType, TurnsRespond
  <2>3. CASE ~(readRequest(up).val.op = "push" /\ Len(readRequest(up).val.channels) # 1)
    <3>1. PICK q : calls' = Append(calls, q) /\ hpc' = "call" /\ given' = given /\ q \in RequestRead
      <4>1. readRequest(up).val \in RequestRead
        BY <1>5, NoBytes, RequestGoes DEF HandlerRequest, Typed
      <4> QED BY <1>5, <2>3, <4>1 DEF HandlerRequest
    <3>2. Len(calls') = Len(calls) + 1
      BY <3>1, AppendProperties DEF Typed
    <3>3. AllOk' /\ NothingAfterError'
      <4>1. AllOk /\ DOMAIN given = 1 .. Len(given)
        BY <2>1, LenProperties DEF Turns, Typed
      <4>2. AllOk'
        BY <3>1, <4>1 DEF AllOk
      <4> QED BY <3>1, <4>1, <4>2 DEF AllOk, NothingAfterError
    <3> QED BY <2>1, <3>1, <3>2, <3>3 DEF Turns
  <2> QED BY <2>2, <2>3
<1>6. CASE HandlerEOF
  BY <1>0, <1>6 DEF HandlerEOF
<1>7. CASE HandlerBadRequest
  <2>1. Respond(ErrorResponse(Text)) /\ calls' = calls /\ hpc = "read"
    BY <1>7 DEF HandlerBadRequest
  <2>2. Encoded(ErrorResponse(Text)) \/ GivenUp
    BY <2>1, ErrorType, Responds
  <2> QED BY <2>1, <2>2, ErrorType, TurnsRespond
<1>8. CASE HandlerRespond
  <2>1. PICK r \in Outcomes(req) : Respond(r)
    BY <1>8 DEF HandlerRespond
  <2>2. r \in Answer /\ hpc = "call" /\ calls' = calls
    BY <1>8, <2>1, OutcomeType DEF HandlerRespond, Typed
  <2>3. Encoded(r) \/ GivenUp
    BY <2>1, <2>2, Responds
  <2> QED BY <2>2, <2>3, TurnsRespond
<1>9. ASSUME NEW n \in 1 .. Len(hbuf), HandlerFlush(n) PROVE Turns'
  <2>1. /\ Quiet /\ hpc \in {"send", "last"}
        /\ hpc' \in {hpc, "return"} \/ (hpc = "send" /\ hpc' = "read")
    BY <1>9 DEF HandlerFlush
  <2>2. CASE hpc' \in {hpc, "return"}
    BY <1>0, <2>1, <2>2
  <2>3. CASE hpc = "send" /\ hpc' = "read"
    <3>1. (NothingAfterError <=> NothingAfterError') /\ (AllOk <=> AllOk')
      BY <2>1 DEF NothingAfterError, AllOk
    <3> QED BY <2>1, <2>3, <3>1 DEF Turns
  <2> QED BY <2>1, <2>2, <2>3
<1>10. CASE HandlerWriteFails
  BY <1>0, <1>10 DEF HandlerWriteFails
<1>11. CASE HandlerCloses
  BY <1>0, <1>11 DEF HandlerCloses
<1> QED
  BY <1>1, <1>2, <1>3, <1>4, <1>5, <1>6, <1>7, <1>8, <1>9, <1>10, <1>11 DEF Next

\* After an error response the handler executes nothing more, and that
\* response is the last one, whatever arrives: valid requests, garbage or a
\* request that is cut off.
THEOREM ErrorsAreLast == Spec => []NothingAfterError
<1>1. Init => Typed /\ Turns
  BY TypedInit, TurnsInit
<1>2. Typed /\ Turns /\ [Next]_vars => (Typed /\ Turns)'
  BY TypedNext, TurnsNext
<1>3. Typed /\ Turns => NothingAfterError
  BY DEF Turns
<1> QED BY <1>1, <1>2, <1>3, PTL DEF Spec

-----------------------------------------------------------------------------
(* Requests and responses in step                                          *)

\* The client of examples/go checks no length and would cut it down to the low
\* bits; rpcClient needs no such condition.
Fitting == lib = "example" => \A r \in Requests["example"] : Fits(r)

\* s is the beginning of e.
Begins(s, e) == \E x \in Bytes : s \o x = e

\* Requests, responses and answers are at most one apart.
Counts ==
  /\ cpc \in {"idle", "refused"} => Len(sent) = Len(got)
  /\ cpc \in {"send", "wait"} => Len(sent) = Len(got) + 1
  /\ Len(sent) \in {Len(got), Len(got) + 1}
  /\ Len(given) \in {Len(got), Len(got) + 1}
  /\ hpc = "call" => Len(given) = Len(got)

\* The handler has not read the request that is on its way.
Arriving ==
  /\ cpc = "idle" => up = <<>>
  /\ cpc \in {"send", "wait"} => up \o cbuf = RequestBytes(Last(sent))
  /\ cpc = "send" => cbuf # <<>>
  /\ cpc = "refused" => Partial(up \o cbuf)
  /\ cpc = "closed" => IF Len(sent) = Len(got) THEN Partial(up)
                       ELSE Begins(up, RequestBytes(Last(sent)))

\* The handler has read the request and answers it.
InHand ==
  \/ hpc \in {"call", "send"}
  \/ hpc = "read" /\ Len(given) # Len(got)

Asked ==
  /\ \A i \in 1 .. Len(sent) : Fits(sent[i])
  /\ cpc \in {"idle", "wait", "closed"} => cbuf = <<>>
  /\ InHand => up = <<>> /\ cpc \in {"wait", "closed"} /\ Len(sent) = Len(got) + 1
  /\ hpc = "read" /\ Len(given) = Len(got) => Arriving

Answered ==
  /\ hpc \in {"send", "last"} => hbuf # <<>>
  /\ hpc \notin {"send", "last"} => hbuf = <<>>
  /\ Len(given) = Len(got) => down = <<>> /\ hbuf = <<>>
  /\ Len(given) # Len(got) =>
       IF hpc \in {"read", "send", "last"}
       THEN down \o hbuf = writeResponse(Last(given)).bytes
       ELSE Begins(down, writeResponse(Last(given)).bytes)

Matched ==
  /\ got \in Seq(Nat \X Answer)
  /\ Len(calls) <= Len(sent)
  /\ \A i \in 1 .. Len(calls) : calls[i] = sent[i]
  /\ \A i \in 1 .. Len(got) : got[i] = <<i, given[i]>>

InStep == Typed /\ Turns /\ Counts /\ Asked /\ Answered /\ Matched

LEMMA Lengths ==
  ASSUME Typed, Matched
  PROVE  Len(sent) \in Nat /\ Len(calls) \in Nat /\ Len(given) \in Nat /\ Len(got) \in Nat
<1> QED BY LenProperties DEF Typed, Matched

\* The last request, and the last response.
LEMMA LastSent ==
  ASSUME Typed, Asked, Len(sent) # 0
  PROVE  Last(sent) \in Request /\ Fits(Last(sent)) /\ Last(sent) = sent[Len(sent)]
<1>1. Len(sent) \in 1 .. Len(sent)
  BY LenProperties DEF Typed
<1>2. sent[Len(sent)] \in Request
  BY <1>1, ElementOfSeq DEF Typed
<1> QED BY <1>1, <1>2 DEF Asked, Last

LEMMA LastGiven ==
  ASSUME Typed, Len(given) # 0
  PROVE  /\ Last(given) \in Answer /\ writeResponse(Last(given)).err = "nil"
         /\ Last(given) = given[Len(given)]
<1>1. Len(given) \in 1 .. Len(given)
  BY LenProperties DEF Typed
<1>2. given[Len(given)] \in Encodable
  BY <1>1, ElementOfSeq DEF Typed
<1> QED BY <1>2 DEF Encodable, Last

LEMMA InStepInit == Init => InStep
<1> SUFFICES ASSUME Init PROVE InStep
  OBVIOUS
<1>1. Typed /\ Turns
  BY TypedInit, TurnsInit
<1>2. /\ sent = <<>> /\ calls = <<>> /\ given = <<>> /\ got = <<>> /\ Len(<<>>) = 0
      /\ cpc = "idle" /\ hpc = "read"
      /\ cbuf = <<>> /\ up = <<>> /\ hbuf = <<>> /\ down = <<>>
  BY DEF Init
<1>3. Counts
  BY <1>2 DEF Counts
<1>4. Asked
  BY <1>2 DEF Asked, InHand, Arriving
<1>5. Answered
  BY <1>2 DEF Answered
<1>6. Matched
  BY <1>2 DEF Matched
<1> QED BY <1>1, <1>3, <1>4, <1>5, <1>6 DEF InStep

LEMMA CallInStep ==
  ASSUME Fitting, InStep, Typed', Turns', NEW r \in Requests[lib], ClientCall(r)
  PROVE  InStep'
<1>1. Typed /\ Turns /\ Counts /\ Asked /\ Answered /\ Matched
  BY DEF InStep
<1>2. /\ cpc = "idle"
      /\ cbuf' = cbuf \o Encode(r).bytes
      /\ UNCHANGED <<lib, got, hpc, req, hbuf, calls, given, up, down>>
  BY DEF ClientCall, hvars
<1>3. r \in Request /\ Encode(r).bytes \in Bytes
  BY <1>1, EncodeType
<1>4. cbuf' = Encode(r).bytes
  BY <1>1, <1>2, <1>3, NoBytes DEF Asked
<1>5. ~InHand /\ ~InHand'
  BY <1>1, <1>2 DEF Asked, InHand
<1>6. hpc = "read" /\ Len(given) = Len(got) => up = <<>>
  BY <1>1, <1>2 DEF Asked, Arriving
<1>7. Answered'
  BY <1>1, <1>2 DEF Answered
<1>8. CASE Encode(r).err = "nil"
  <2>1. sent' = Append(sent, r) /\ cpc' = "send"
    BY <1>8 DEF ClientCall
  <2>2. Fits(r) /\ Encode(r).bytes = RequestBytes(r)
    <3>1. CASE lib = "main"
      BY <1>3, <1>8, <3>1, AcceptedFits DEF Encode
    <3>2. CASE lib # "main"
      <4>1. lib = "example"
        BY <1>1, <3>2 DEF Typed, Libs
      <4> QED BY <3>2, <4>1 DEF Encode, exampleWriteRequest, Fitting
    <3> QED BY <3>1, <3>2
  <2>3. PICK a : a = Append(sent, r) /\ sent' = a
    BY <2>1
  <2>4. /\ Len(a) = Len(sent) + 1 /\ Len(sent) \in Nat
        /\ Last(a) = r
        /\ \A i \in 1 .. Len(sent) : a[i] = sent[i]
        /\ a[Len(sent) + 1] = r
    <3>1. sent \in Seq(Request)
      BY <1>1 DEF Typed
    <3>2. Len(a) = Len(sent) + 1 /\ (\A i \in 1 .. Len(sent) : a[i] = sent[i]) /\ a[Len(sent) + 1] = r
      BY <1>3, <2>3, <3>1, AppendProperties
    <3> QED BY <3>1, <3>2, LenProperties DEF Last
  <2>5. Counts'
    BY <1>1, <1>2, <2>1, <2>3, <2>4 DEF Counts
  <2>6. Asked'
    <3>1. \A i \in 1 .. Len(a) : Fits(a[i])
      BY <1>1, <2>2, <2>4 DEF Asked
    <3>2. hpc = "read" /\ Len(given) = Len(got) => Arriving'
      <4>1. SUFFICES ASSUME up = <<>> PROVE Arriving'
        BY <1>6
      <4>2. up' \o cbuf' = RequestBytes(Last(sent'))
        BY <1>2, <1>3, <1>4, <2>2, <2>3, <2>4, <4>1, NoBytes
      <4>3. cbuf' # <<>>
        BY <1>3, <1>4, <2>2, RequestEnough
      <4> QED BY <2>1, <4>2, <4>3 DEF Arriving
    <3> QED BY <1>2, <1>5, <2>1, <2>3, <3>1, <3>2 DEF Asked
  <2>7. Matched'
    <3>1. Len(calls) \in Nat
      BY <1>1, Lengths
    <3> QED BY <1>1, <1>2, <2>3, <2>4, <3>1 DEF Matched
  <2> QED BY <1>7, <2>5, <2>6, <2>7 DEF InStep
<1>9. CASE Encode(r).err # "nil"
  <2>1. sent' = sent /\ cpc' = "refused"
    BY <1>9 DEF ClientCall
  <2>2. Partial(Encode(r).bytes)
    BY <1>3, <1>9, RefusedPartial DEF Encode, exampleWriteRequest
  <2>3. Counts'
    BY <1>1, <1>2, <2>1 DEF Counts
  <2>4. Asked'
    <3>1. hpc = "read" /\ Len(given) = Len(got) => Arriving'
      <4>1. SUFFICES ASSUME up = <<>> PROVE Arriving'
        BY <1>6
      <4>2. up' \o cbuf' = Encode(r).bytes
        BY <1>2, <1>3, <1>4, <4>1, NoBytes
      <4> QED BY <2>1, <2>2, <4>2 DEF Arriving
    <3> QED BY <1>1, <1>2, <1>5, <2>1, <3>1 DEF Asked
  <2>5. Matched'
    BY <1>1, <1>2, <2>1 DEF Matched
  <2> QED BY <1>7, <2>3, <2>4, <2>5 DEF InStep
<1> QED BY <1>8, <1>9

\* The client's writer passes bytes on.
LEMMA FlushInStep ==
  ASSUME InStep, Typed', Turns', NEW n \in 1 .. Len(cbuf), ClientFlush(n)
  PROVE  InStep'
<1>1. Typed /\ Turns /\ Counts /\ Asked /\ Answered /\ Matched
  BY DEF InStep
<1>2. PICK b, l : b = SubSeq(cbuf, n + 1, Len(cbuf)) /\ l = up \o SubSeq(cbuf, 1, n)
  OBVIOUS
<1>3. b \in Bytes /\ l \in Bytes /\ l \o b = up \o cbuf /\ (b = <<>> <=> n = Len(cbuf))
  <2>1. PassedOn(cbuf, up, n, b, l)
    BY <1>1, <1>2, Passed DEF Typed
  <2> QED BY <2>1 DEF PassedOn
<1>4. /\ cpc \in {"send", "refused"} /\ cbuf' = b /\ up' = l
      /\ cpc' = IF cpc = "send" /\ b = <<>> THEN "wait" ELSE cpc
      /\ UNCHANGED <<lib, sent, got, hpc, req, hbuf, calls, given, down>>
  BY <1>2, <1>3 DEF ClientFlush, hvars
<1>5. ~InHand /\ ~InHand'
  BY <1>1, <1>4 DEF Asked, InHand
<1>6. Counts'
  BY <1>1, <1>4 DEF Counts
<1>7. Asked'
  <2>1. ASSUME Arriving PROVE Arriving'
    BY <1>3, <1>4, <2>1 DEF Arriving
  <2> QED BY <1>1, <1>4, <1>5, <2>1 DEF Asked
<1>8. Answered' /\ Matched'
  BY <1>1, <1>4 DEF Answered, Matched
<1> QED BY <1>6, <1>7, <1>8 DEF InStep

\* The client leaves, whatever it was doing.
LEMMA LeavesInStep ==
  ASSUME InStep, Typed', Turns', cpc # "closed", ClientEnds,
         UNCHANGED <<lib, sent, got, hvars, up, down>>
  PROVE  InStep'
<1>1. Typed /\ Turns /\ Counts /\ Asked /\ Answered /\ Matched
  BY DEF InStep
<1>2. /\ cpc' = "closed" /\ cbuf' = <<>>
      /\ UNCHANGED <<lib, sent, got, hpc, req, hbuf, calls, given, up, down>>
  BY DEF ClientEnds, hvars
<1>3. up \in Bytes /\ cbuf \in Bytes
  BY <1>1 DEF Typed
<1>4. Counts'
  BY <1>1, <1>2 DEF Counts
<1>5. InHand' <=> InHand
  BY <1>2 DEF InHand
<1>6. ASSUME Arriving PROVE Arriving'
  <2>1. CASE cpc \in {"idle", "refused"}
    <3>1. Len(sent) = Len(got)
      BY <1>1, <2>1 DEF Counts
    <3>2. Partial(up)
      BY <1>3, <1>6, <2>1, PartialStart DEF Arriving, Partial
    <3> QED BY <1>2, <3>1, <3>2 DEF Arriving
  <2>2. CASE cpc \in {"send", "wait"}
    <3>1. Len(sent) # Len(got)
      BY <1>1, <2>2, Lengths DEF Counts
    <3>2. Begins(up, RequestBytes(Last(sent)))
      BY <1>3, <1>6, <2>2 DEF Arriving, Begins
    <3> QED BY <1>2, <3>1, <3>2 DEF Arriving
  <2> QED BY <1>1, <2>1, <2>2 DEF Typed
<1>7. Asked'
  BY <1>1, <1>2, <1>5, <1>6 DEF Asked
<1>8. Answered' /\ Matched'
  BY <1>1, <1>2 DEF Answered, Matched
<1> QED BY <1>4, <1>7, <1>8 DEF InStep

\* The response is complete, and it is the one for the last request.
LEMMA AnswerInStep ==
  ASSUME InStep, Typed', Turns', ClientAnswer
  PROVE  InStep'
<1>1. Typed /\ Turns /\ Counts /\ Asked /\ Answered /\ Matched
  BY DEF InStep
<1>2. /\ cpc = "wait" /\ cpc' = "idle"
      /\ Decode(down).err = "nil"
      /\ got' = Append(got, <<Len(sent), Decode(down).val>>)
      /\ down' = Decode(down).rest
      /\ UNCHANGED <<lib, cbuf, sent, hpc, req, hbuf, calls, given, up>>
  BY DEF ClientAnswer, hvars
<1>3. Len(sent) \in Nat /\ Len(calls) \in Nat /\ Len(given) \in Nat /\ Len(got) \in Nat
  BY <1>1, Lengths
<1>4. Len(given) = Len(got) + 1 /\ Len(sent) = Len(got) + 1
  BY <1>1, <1>2, NothingRead DEF Answered, Counts
<1>5. /\ Last(given) \in Answer /\ writeResponse(Last(given)).err = "nil"
      /\ Last(given) = given[Len(given)]
  BY <1>1, <1>3, <1>4, LastGiven
<1>6. down \in Bytes /\ hbuf \in Bytes
  BY <1>1 DEF Typed
<1>7. Decode(down) = Ok(Last(given), <<>>) /\ hpc \notin {"send", "last"}
  <2>1. CASE hpc \in {"read", "send", "last"}
    <3>1. down \o hbuf = writeResponse(Last(given)).bytes
      BY <1>1, <1>3, <1>4, <2>1 DEF Answered
    <3>2. hbuf = <<>> /\ Decode(down) = Ok(Last(given), <<>>)
      BY <1>2, <1>5, <1>6, <3>1, ResponseCut
    <3> QED BY <1>1, <3>2 DEF Answered
  <2>2. CASE hpc \notin {"read", "send", "last"}
    <3>1. Begins(down, writeResponse(Last(given)).bytes)
      BY <1>1, <1>3, <1>4, <2>2 DEF Answered
    <3>2. PICK x \in Bytes : down \o x = writeResponse(Last(given)).bytes
      BY <3>1 DEF Begins
    <3> QED BY <1>2, <1>5, <1>6, <2>2, <3>2, ResponseCut
  <2> QED BY <2>1, <2>2
<1>8. PICK a : a = Append(got, <<Len(sent), Last(given)>>) /\ got' = a /\ down' = <<>>
  BY <1>2, <1>7 DEF Ok
<1>9. /\ a \in Seq(Nat \X Answer) /\ Len(a) = Len(got) + 1
      /\ \A i \in 1 .. Len(got) : a[i] = got[i]
      /\ a[Len(got) + 1] = <<Len(sent), Last(given)>>
  <2>1. got \in Seq(Nat \X Answer) /\ <<Len(sent), Last(given)>> \in Nat \X Answer
    BY <1>1, <1>3, <1>5 DEF Matched
  <2> QED BY <1>8, <2>1, AppendProperties
<1>10. Counts'
  BY <1>1, <1>2, <1>3, <1>4, <1>8, <1>9 DEF Counts
<1>11. Asked'
  <2>1. ~InHand'
    BY <1>1, <1>2, <1>3, <1>4, <1>7, <1>8, <1>9 DEF InHand, Counts
  <2>2. hpc = "read" => up = <<>>
    BY <1>1, <1>3, <1>4 DEF Asked, InHand
  <2>3. hpc = "read" => Arriving'
    BY <1>2, <2>2 DEF Arriving
  <2> QED BY <1>1, <1>2, <2>1, <2>3 DEF Asked
<1>12. Answered'
  BY <1>1, <1>2, <1>4, <1>7, <1>8, <1>9 DEF Answered
<1>13. Matched'
  BY <1>1, <1>2, <1>3, <1>4, <1>5, <1>8, <1>9 DEF Matched
<1> QED BY <1>10, <1>11, <1>12, <1>13 DEF InStep

\* An error response that is put into the writer or an outcome of the broker.
LEMMA RespondInStep ==
  ASSUME InStep, Typed', Turns', NEW r \in Answer, Encoded(r) \/ GivenUp,
         Len(given) = Len(got), UNCHANGED <<cvars, calls, down>>,
         r.ok => InHand /\ up' = up
  PROVE  InStep'
<1>1. Typed /\ Turns /\ Counts /\ Asked /\ Answered /\ Matched
  BY DEF InStep
<1>2. UNCHANGED <<lib, cpc, cbuf, sent, got, calls, down>>
  BY DEF cvars
<1>3. Len(sent) \in Nat /\ Len(calls) \in Nat /\ Len(given) \in Nat /\ Len(got) \in Nat
  BY <1>1, Lengths
<1>4. down = <<>>
  BY <1>1 DEF Answered
<1>5. CASE GivenUp
  <2>1. hbuf' = <<>> /\ given' = given /\ hpc' = "return"
    BY <1>5 DEF GivenUp
  <2>2. Counts' /\ Answered' /\ Matched'
    BY <1>1, <1>2, <1>4, <2>1 DEF Counts, Answered, Matched
  <2>3. Asked'
    BY <1>1, <1>2, <2>1 DEF Asked, InHand
  <2> QED BY <2>2, <2>3 DEF InStep
<1>6. CASE Encoded(r)
  <2>1. PICK g : g = Append(given, r) /\ given' = g
    BY <1>6 DEF Encoded
  <2>2. /\ hbuf' = writeResponse(r).bytes /\ hbuf' \in Bytes /\ hbuf' # <<>>
        /\ hpc' = IF r.ok THEN "send" ELSE "last"
    BY <1>6 DEF Encoded
  <2>3. Len(g) = Len(given) + 1 /\ (\A i \in 1 .. Len(given) : g[i] = given[i]) /\ Last(g) = r
    <3>1. given \in Seq(Encodable) /\ r \in Encodable
      BY <1>1, <1>6 DEF Encoded, Typed
    <3>2. Len(g) = Len(given) + 1 /\ (\A i \in 1 .. Len(given) : g[i] = given[i]) /\ g[Len(given) + 1] = r
      BY <2>1, <3>1, AppendProperties
    <3> QED BY <3>2 DEF Last
  <2>4. Counts'
    BY <1>1, <1>2, <1>3, <2>1, <2>2, <2>3 DEF Counts
  <2>5. Answered'
    <3>1. down' \o hbuf' = writeResponse(Last(g)).bytes
      BY <1>2, <1>4, <2>2, <2>3, NoBytes
    <3> QED BY <1>2, <1>3, <2>1, <2>2, <2>3, <3>1 DEF Answered
  <2>6. Matched'
    BY <1>1, <1>2, <1>3, <2>1, <2>3 DEF Matched
  <2>7. Asked'
    <3>1. InHand' => r.ok
      BY <2>2 DEF InHand
    <3> QED BY <1>1, <1>2, <2>2, <3>1 DEF Asked
  <2> QED BY <2>4, <2>5, <2>6, <2>7 DEF InStep
<1> QED BY <1>5, <1>6

\* A request is complete, and it is the last one that was sent.
LEMMA RequestInStep ==
  ASSUME InStep, Typed', Turns', HandlerRequest
  PROVE  InStep'
<1>1. Typed /\ Turns /\ Counts /\ Asked /\ Answered /\ Matched
  BY DEF InStep
<1>2. /\ hpc = "read" /\ readRequest(up).err = "nil" /\ up' = readRequest(up).rest
      /\ UNCHANGED <<cvars, down>>
      /\ UNCHANGED <<lib, cpc, cbuf, sent, got, down>>
  BY DEF HandlerRequest, cvars
<1>3. Len(sent) \in Nat /\ Len(calls) \in Nat /\ Len(given) \in Nat /\ Len(got) \in Nat
  BY <1>1, Lengths
<1>4. up \in Bytes /\ cbuf \in Bytes
  BY <1>1 DEF Typed
<1>5. Len(given) = Len(got) /\ Arriving
  <2>1. up # <<>>
    BY <1>2, NothingRead
  <2> QED BY <1>1, <1>2, <2>1 DEF Asked, InHand
<1>6. cpc # "idle" /\ cpc # "refused" /\ ~(cpc = "closed" /\ Len(sent) = Len(got))
  <2>1. ~Partial(up)
    BY <1>2, <1>4, PartialUnread
  <2>2. ~Partial(up \o cbuf)
    BY <1>4, <2>1, PartialStart
  <2>3. up # <<>>
    BY <2>1 DEF Partial
  <2> QED BY <1>5, <2>1, <2>2, <2>3 DEF Arriving
<1>7. Len(sent) = Len(got) + 1
  BY <1>1, <1>6 DEF Counts, Typed
<1>8. Last(sent) \in Request /\ Fits(Last(sent)) /\ Last(sent) = sent[Len(sent)]
  BY <1>1, <1>3, <1>7, LastSent
<1>9. readRequest(up) = Ok(Last(sent), <<>>) /\ cpc \in {"wait", "closed"}
  <2>1. CASE cpc \in {"send", "wait"}
    <3>1. up \o cbuf = RequestBytes(Last(sent)) /\ (cpc = "send" => cbuf # <<>>)
      BY <1>5, <2>1 DEF Arriving
    <3>2. cbuf = <<>> /\ readRequest(up) = Ok(Last(sent), <<>>)
      BY <1>2, <1>4, <1>8, <3>1, RequestCut
    <3> QED BY <2>1, <3>1, <3>2
  <2>2. CASE cpc = "closed"
    <3>1. Begins(up, RequestBytes(Last(sent)))
      BY <1>3, <1>5, <1>7, <2>2 DEF Arriving
    <3>2. PICK x \in Bytes : up \o x = RequestBytes(Last(sent))
      BY <3>1 DEF Begins
    <3> QED BY <1>2, <1>4, <1>8, <2>2, <3>2, RequestCut
  <2> QED BY <1>1, <1>6, <2>1, <2>2 DEF Typed
<1>10. up' = <<>> /\ readRequest(up).val = Last(sent)
  BY <1>2, <1>9 DEF Ok
<1>11. CASE Last(sent).op = "push" /\ Len(Last(sent).channels) # 1
  <2>1. Respond(ErrorResponse(Text)) /\ calls' = calls
    BY <1>10, <1>11 DEF HandlerRequest
  <2>2. Encoded(ErrorResponse(Text)) \/ GivenUp
    BY <2>1, ErrorType, Responds
  <2>3. ErrorResponse(Text) \in Answer /\ ErrorResponse(Text).ok = FALSE
    BY ErrorType
  <2> QED BY <1>2, <1>5, <2>1, <2>2, <2>3, RespondInStep
<1>12. CASE ~(Last(sent).op = "push" /\ Len(Last(sent).channels) # 1)
  <2>1. /\ calls' = Append(calls, Last(sent)) /\ hpc' = "call"
        /\ UNCHANGED <<hbuf, given>>
    BY <1>10, <1>12 DEF HandlerRequest
  <2>2. PICK a : a = Append(calls, Last(sent)) /\ calls' = a
    BY <2>1
  <2>3. Len(a) = Len(calls) + 1 /\ (\A i \in 1 .. Len(calls) : a[i] = calls[i]) /\ a[Len(calls) + 1] = Last(sent)
    <3>1. calls \in Seq(RequestRead) /\ Last(sent) \in RequestRead
      <4>1. Request \subseteq RequestRead
        BY DEF Request, RequestRead, Bytes
      <4> QED BY <1>1, <1>8, <4>1 DEF Typed
    <3> QED BY <2>2, <3>1, AppendProperties
  <2>4. Len(calls) = Len(got)
    BY <1>1, <1>2, <1>5 DEF Turns
  <2>5. Counts'
    BY <1>1, <1>2, <1>5, <2>1 DEF Counts
  <2>6. Asked'
    BY <1>1, <1>2, <1>7, <1>9, <1>10, <2>1 DEF Asked
  <2>7. Answered'
    BY <1>1, <1>2, <1>5, <2>1 DEF Answered
  <2>8. Matched'
    BY <1>1, <1>2, <1>3, <1>7, <1>8, <2>1, <2>2, <2>3, <2>4 DEF Matched
  <2> QED BY <2>5, <2>6, <2>7, <2>8 DEF InStep
<1> QED BY <1>11, <1>12

\* The handler's writer passes bytes on.
LEMMA HandlerFlushInStep ==
  ASSUME InStep, Typed', Turns', NEW n \in 1 .. Len(hbuf), HandlerFlush(n)
  PROVE  InStep'
<1>1. Typed /\ Turns /\ Counts /\ Asked /\ Answered /\ Matched
  BY DEF InStep
<1>2. PICK b, l : b = SubSeq(hbuf, n + 1, Len(hbuf)) /\ l = down \o SubSeq(hbuf, 1, n)
  OBVIOUS
<1>3. b \in Bytes /\ l \in Bytes /\ l \o b = down \o hbuf /\ (b = <<>> <=> n = Len(hbuf))
  <2>1. PassedOn(hbuf, down, n, b, l)
    BY <1>1, <1>2, Passed DEF Typed
  <2> QED BY <2>1 DEF PassedOn
<1>4. /\ hpc \in {"send", "last"} /\ hbuf' = b /\ down' = l
      /\ hpc' = IF b # <<>> THEN hpc ELSE IF hpc = "send" THEN "read" ELSE "return"
      /\ UNCHANGED <<lib, cpc, cbuf, sent, got, req, calls, given, up>>
  <2>1. n < Len(hbuf) <=> n # Len(hbuf)
    BY <1>1, LenProperties DEF Typed, Bytes
  <2> QED BY <1>2, <1>3, <2>1 DEF HandlerFlush, cvars
<1>5. Len(given) # Len(got)
  BY <1>1, <1>4 DEF Answered
<1>6. l \o b = writeResponse(Last(given)).bytes
  BY <1>1, <1>3, <1>4, <1>5 DEF Answered
<1>7. Counts' /\ Matched'
  BY <1>1, <1>4 DEF Counts, Matched
<1>8. Asked'
  BY <1>1, <1>4, <1>5 DEF Asked, InHand
<1>9. Answered'
  <2>1. CASE b # <<>>
    BY <1>4, <1>5, <1>6, <2>1 DEF Answered
  <2>2. CASE b = <<>>
    <3>1. Begins(l, writeResponse(Last(given)).bytes)
      BY <1>3, <1>6 DEF Begins
    <3> QED BY <1>4, <1>5, <1>6, <2>2, <3>1 DEF Answered
  <2> QED BY <2>1, <2>2
<1> QED BY <1>7, <1>8, <1>9 DEF InStep

\* The handler leaves the loop, or the daemon ends.
LEMMA EndsInStep ==
  ASSUME InStep, Typed', Turns', hpc' \in {"return", "closed"}, hbuf' = <<>>,
         UNCHANGED <<cvars, calls, given, up, down>>
  PROVE  InStep'
<1>1. Typed /\ Turns /\ Counts /\ Asked /\ Answered /\ Matched
  BY DEF InStep
<1>2. UNCHANGED <<lib, cpc, cbuf, sent, got, calls, given, up, down>>
  BY DEF cvars
<1>3. Counts' /\ Matched'
  BY <1>1, <1>2 DEF Counts, Matched
<1>4. Asked'
  BY <1>1, <1>2 DEF Asked, InHand
<1>5. Answered'
  <2>1. ASSUME Len(given) # Len(got) PROVE Begins(down, writeResponse(Last(given)).bytes)
    <3>1. CASE hpc \in {"read", "send", "last"}
      <4>1. down \o hbuf = writeResponse(Last(given)).bytes /\ hbuf \in Bytes
        BY <1>1, <2>1, <3>1 DEF Answered, Typed
      <4> QED BY <4>1 DEF Begins
    <3>2. CASE hpc \notin {"read", "send", "last"}
      BY <1>1, <2>1, <3>2 DEF Answered
    <3> QED BY <3>1, <3>2
  <2>2. Len(given) = Len(got) => down = <<>>
    BY <1>1 DEF Answered
  <2> QED BY <1>2, <2>1, <2>2 DEF Answered
<1> QED BY <1>3, <1>4, <1>5 DEF InStep

LEMMA InStepNext ==
  ASSUME Fitting, InStep, [Next]_vars
  PROVE  InStep'
<1>0. Typed' /\ Turns'
  BY TypedNext, TurnsNext DEF InStep
<1>1. CASE UNCHANGED vars
  <2>1. UNCHANGED <<lib, cpc, cbuf, up, hpc, req, hbuf, down, sent, calls, given, got>>
    BY <1>1 DEF vars, cvars, hvars
  <2>2. Counts' /\ Answered' /\ Matched'
    BY <2>1 DEF InStep, Counts, Answered, Matched
  <2>3. (InHand' <=> InHand) /\ (Arriving' <=> Arriving)
    BY <2>1 DEF InHand, Arriving
  <2>4. Asked'
    BY <2>1, <2>3 DEF InStep, Asked
  <2> QED BY <1>0, <2>2, <2>4 DEF InStep
<1>2. ASSUME NEW r \in Requests[lib], ClientCall(r) PROVE InStep'
  BY <1>0, <1>2, CallInStep
<1>3. ASSUME NEW n \in 1 .. Len(cbuf), ClientFlush(n) PROVE InStep'
  BY <1>0, <1>3, FlushInStep
<1>4. CASE ClientFails
  BY <1>0, <1>4, LeavesInStep DEF ClientFails
<1>5. CASE ClientAnswer
  BY <1>0, <1>5, AnswerInStep
<1>6. CASE ClientBadAnswer
  BY <1>0, <1>6, LeavesInStep DEF ClientBadAnswer
<1>7. CASE ClientCloses
  BY <1>0, <1>7, LeavesInStep DEF ClientCloses
<1>8. CASE HandlerRequest
  BY <1>0, <1>8, RequestInStep
<1>9. CASE HandlerEOF
  <2>1. hbuf' = <<>> /\ hpc' = "return"
    BY <1>9 DEF HandlerEOF, InStep, Answered
  <2> QED BY <1>0, <1>9, <2>1, EndsInStep DEF HandlerEOF
<1>10. CASE HandlerBadRequest
  <2>1. hpc = "read" /\ readRequest(up).err # "EOF" /\ Respond(ErrorResponse(Text))
    BY <1>10 DEF HandlerBadRequest
  <2>2. Len(given) = Len(got)
    BY <2>1, NothingRead DEF InStep, Asked, InHand
  <2>3. UNCHANGED <<cvars, calls, down>>
    BY <1>10 DEF HandlerBadRequest, cvars
  <2>4. ErrorResponse(Text) \in Answer /\ ErrorResponse(Text).ok = FALSE
    BY ErrorType
  <2>5. Encoded(ErrorResponse(Text)) \/ GivenUp
    BY <2>1, <2>4, Responds
  <2> QED BY <1>0, <2>2, <2>3, <2>4, <2>5, RespondInStep
<1>11. CASE HandlerRespond
  <2>1. PICK r \in Outcomes(req) : Respond(r)
    BY <1>11 DEF HandlerRespond
  <2>2. r \in Answer /\ hpc = "call" /\ up' = up
    BY <1>11, <2>1, OutcomeType DEF HandlerRespond, InStep, Typed
  <2>3. Encoded(r) \/ GivenUp
    BY <2>1, <2>2, Responds
  <2>4. UNCHANGED <<cvars, calls, down>>
    BY <1>11 DEF HandlerRespond, cvars
  <2>5. Len(given) = Len(got) /\ InHand
    BY <2>2 DEF InStep, Counts, InHand
  <2> QED BY <1>0, <2>2, <2>3, <2>4, <2>5, RespondInStep
<1>12. ASSUME NEW n \in 1 .. Len(hbuf), HandlerFlush(n) PROVE InStep'
  BY <1>0, <1>12, HandlerFlushInStep
<1>13. CASE HandlerWriteFails
  BY <1>0, <1>13, EndsInStep DEF HandlerWriteFails, cvars
<1>14. CASE HandlerCloses
  BY <1>0, <1>14, EndsInStep DEF HandlerCloses, cvars
<1> QED
  BY <1>1, <1>2, <1>3, <1>4, <1>5, <1>6, <1>7, <1>8, <1>9, <1>10, <1>11, <1>12, <1>13, <1>14
  DEF Next

LEMMA SpecInStep == Spec => [](Fitting => InStep)
<1>1. Init => (Fitting => InStep)
  BY InStepInit
<1>2. (Fitting => InStep) /\ [Next]_vars => (Fitting => InStep)'
  <2> SUFFICES ASSUME Fitting => InStep, [Next]_vars, Fitting'
               PROVE  InStep'
    OBVIOUS
  <2>1. lib' = lib
    BY DEF Next, vars, cvars, ClientCall, ClientFlush, ClientFails, ClientAnswer, ClientBadAnswer,
           ClientCloses, HandlerRequest, HandlerEOF, HandlerBadRequest, HandlerRespond,
           HandlerFlush, HandlerWriteFails, HandlerCloses
  <2>2. Fitting
    BY <2>1 DEF Fitting
  <2> QED BY <2>2, InStepNext
<1> QED BY <1>1, <1>2, PTL DEF Spec

-----------------------------------------------------------------------------
(* What the connection promises                                            *)

\* The requests that reach the broker are the ones that the client's encoder
\* accepted, field by field and in order, at every length of the names and the
\* payload, wherever the sockets cut the bytes and whenever either side dies;
\* nothing of a request that was cut off or refused half-way is ever executed.
THEOREM RequestsArriveWhole == Spec => [](Fitting => RequestsFramed)
<1>1. InStep => RequestsFramed
  <2> SUFFICES ASSUME InStep PROVE IsPrefix(calls, sent)
    BY DEF RequestsFramed
  <2>1. /\ sent \in Seq(Request) /\ calls \in Seq(RequestRead)
        /\ Len(calls) \in Nat /\ Len(calls) <= Len(sent)
        /\ \A i \in 1 .. Len(calls) : calls[i] = sent[i]
    BY Lengths DEF InStep, Typed, Matched
  <2>2. PICK s : s = SubSeq(sent, 1, Len(calls))
    OBVIOUS
  <2>3. s \in Seq(Request) /\ Len(s) = Len(calls) /\ \A i \in 1 .. Len(calls) : s[i] = sent[i]
    BY <2>1, <2>2, FirstElements
  <2>4. calls = s
    BY <2>1, <2>3, SeqEqual
  <2> QED BY <2>1, <2>2, <2>4 DEF IsPrefix
<1> QED BY <1>1, SpecInStep, PTL

\* The client takes the responses that the handler made, byte for byte, each
\* for the request it was made for, and none that is cut off.
THEOREM AnswersReachTheirRequests == Spec => [](Fitting => AnswersMatch)
<1>1. InStep => AnswersMatch
  <2> SUFFICES ASSUME InStep PROVE AnswersMatch
    OBVIOUS
  <2>1. DOMAIN got = 1 .. Len(got)
    BY LenProperties DEF InStep, Matched
  <2>2. Len(got) <= Len(given)
    BY Lengths DEF InStep, Counts
  <2> QED BY <2>1, <2>2 DEF InStep, Matched, AnswersMatch
<1> QED BY <1>1, SpecInStep, PTL

\* A client that waits for its response and a handler that waits for the rest
\* of the request never wait for each other: the bytes one of them wants are
\* already on their way.
THEOREM NobodyWaitsForTheOther == Spec => [](Fitting => NoStandoff)
<1>1. InStep => NoStandoff
  <2> SUFFICES ASSUME InStep, cpc = "wait", hpc = "read"
               PROVE  ~Short(readRequest(up)) \/ ~Short(Decode(down))
    BY DEF NoStandoff
  <2>0. Typed /\ Counts /\ Asked /\ Answered /\ Matched
    BY DEF InStep
  <2>1. Len(sent) \in Nat /\ Len(given) \in Nat /\ Len(got) \in Nat /\ Len(sent) = Len(got) + 1
    BY <2>0, Lengths DEF Counts
  <2>2. CASE Len(given) = Len(got)
    <3>1. up \o cbuf = RequestBytes(Last(sent)) /\ cbuf = <<>>
      BY <2>0, <2>2 DEF Asked, Arriving
    <3>2. up = RequestBytes(Last(sent))
      BY <2>0, <3>1, NoBytes DEF Typed
    <3>3. Last(sent) \in Request /\ Fits(Last(sent))
      BY <2>0, <2>1, LastSent
    <3> QED BY <3>2, <3>3, RequestEnough
  <2>3. CASE Len(given) # Len(got)
    <3>1. down \o hbuf = writeResponse(Last(given)).bytes /\ hbuf = <<>>
      BY <2>0, <2>3 DEF Answered
    <3>2. down = writeResponse(Last(given)).bytes
      BY <2>0, <3>1, NoBytes DEF Typed
    <3>3. Last(given) \in Answer /\ writeResponse(Last(given)).err = "nil"
      <4>1. Len(given) # 0
        BY <2>0, <2>1, <2>3 DEF Counts
      <4> QED BY <2>0, <4>1, LastGiven
    <3> QED BY <3>2, <3>3, ResponseEnough
  <2> QED BY <2>2, <2>3
<1> QED BY <1>1, SpecInStep, PTL
=============================================================================
