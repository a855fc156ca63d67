--------------------------- MODULE WsFrameProofs ----------------------------
(* Proofs about frames on the wire, for every base of the digits, every size *)
(* of the receive buffer, every payload length and every mask.               *)
EXTENDS WsFrame, SequenceTheorems, TLAPS

-----------------------------------------------------------------------------
(* The lengths: eight digits give back the number that they were made from. *)

LEMMA ConstantsFacts ==
  /\ Base \in Nat \ {0} /\ Inline \in Nat \ {0} /\ Total \in Nat \ {0}
  /\ Inline < Base * Base
  /\ \A n \in Lengths : n \in Nat /\ n < LengthLimit
BY ConstantsAssumption DEF LengthLimit

\* Taking one digit off.
LEMMA ShrFacts ==
  ASSUME NEW n \in Nat
  PROVE  /\ Shr(n) \in Nat /\ n % Base \in 0..(Base - 1)
         /\ n = Shr(n) * Base + (n % Base)
BY ConstantsFacts DEF Shr

\* It takes a factor off what a number is below.
LEMMA ShrBound ==
  ASSUME NEW n \in Nat, NEW x \in Nat, n < x * Base
  PROVE  Shr(n) < x
<1>1. Shr(n) \in Nat /\ Base \in Nat /\ n >= Shr(n) * Base
  <2>1. /\ Shr(n) \in Nat /\ n % Base \in Nat /\ Base \in Nat
        /\ n = Shr(n) * Base + (n % Base)
    BY ConstantsFacts, ShrFacts
  <2>2. Shr(n) * Base \in Nat
    BY <2>1
  <2> QED
    BY <2>1, <2>2
<1>2. SUFFICES ASSUME Shr(n) >= x PROVE FALSE
  BY <1>1
<1>3. PICK d \in Nat : Shr(n) = x + d
  BY <1>1, <1>2
<1>4. Shr(n) * Base = x * Base + d * Base /\ d * Base \in Nat
  BY <1>1, <1>3
<1> QED
  BY <1>1, <1>4

LEMMA TwoDigits ==
  ASSUME NEW n \in Nat, n < Base * Base
  PROVE  Then(Shr(n) % Base, n % Base) = n
<1>1. Shr(n) \in Nat /\ Shr(n) < Base
  BY ShrFacts, ShrBound, ConstantsFacts
<1>2. Shr(n) % Base = Shr(n)
  BY <1>1, ConstantsFacts
<1> QED
  BY <1>2, ShrFacts DEF Then

\* The digits of a number below the limit, seen as what is left of it.
LEMMA EightDigits ==
  ASSUME NEW n \in Nat, n < LengthLimit
  PROVE  /\ Number8(Digits8(n)) = n
         /\ \A k \in 1..8 : Digits8(n)[k] \in 0..(Base - 1)
         /\ Digits8(n) \in Seq(Nat) /\ Len(Digits8(n)) = 8
<1> DEFINE n1 == Shr(n)
           n2 == Shr(n1)
           n3 == Shr(n2)
           n4 == Shr(n3)
           n5 == Shr(n4)
           n6 == Shr(n5)
           n7 == Shr(n6)
           half == Base \div 2
<1>1. Digits8(n) = <<n7 % Base, n6 % Base, n5 % Base, n4 % Base,
                     n3 % Base, n2 % Base, n1 % Base, n % Base>>
  BY DEF Digits8
<1>2. /\ n1 \in Nat /\ n2 \in Nat /\ n3 \in Nat /\ n4 \in Nat
      /\ n5 \in Nat /\ n6 \in Nat /\ n7 \in Nat
  BY ShrFacts
<1>3. \A m \in {n, n1, n2, n3, n4, n5, n6, n7} : m % Base \in 0..(Base - 1)
  BY <1>2, ShrFacts
<1>4. n7 < Base
  <2> DEFINE b1 == half * Base
             b2 == b1 * Base
             b3 == b2 * Base
             b4 == b3 * Base
             b5 == b4 * Base
             b6 == b5 * Base
  <2>1. half \in Nat /\ half < Base
    BY ConstantsFacts
  <2>2. /\ b1 \in Nat /\ b2 \in Nat /\ b3 \in Nat
        /\ b4 \in Nat /\ b5 \in Nat /\ b6 \in Nat
    <3> HIDE DEF half
    <3>1. \A x \in Nat : x * Base \in Nat
      BY ConstantsFacts
    <3> QED
      BY <2>1, <3>1
  <2>3. n < b6 * Base
    BY DEF LengthLimit
  <2> HIDE DEF b1, b2, b3, b4, b5, b6, half
  <2>4. n1 < b6
    BY <2>2, <2>3, ShrBound
  <2>5. n2 < b5
    BY <1>2, <2>2, <2>4, ShrBound DEF b6
  <2>6. n3 < b4
    BY <1>2, <2>2, <2>5, ShrBound DEF b5
  <2>7. n4 < b3
    BY <1>2, <2>2, <2>6, ShrBound DEF b4
  <2>8. n5 < b2
    BY <1>2, <2>2, <2>7, ShrBound DEF b3
  <2>9. n6 < b1
    BY <1>2, <2>2, <2>8, ShrBound DEF b2
  <2>10. n7 < half
    BY <1>2, <2>1, <2>9, ShrBound DEF b1
  <2> QED
    BY <1>2, <2>1, <2>10, ConstantsFacts
<1>5. n7 % Base = n7
  BY <1>2, <1>4, ConstantsFacts
<1>6. /\ Then(n7, n6 % Base) = n6 /\ Then(n6, n5 % Base) = n5
      /\ Then(n5, n4 % Base) = n4 /\ Then(n4, n3 % Base) = n3
      /\ Then(n3, n2 % Base) = n2 /\ Then(n2, n1 % Base) = n1
      /\ Then(n1, n % Base) = n
  <2>1. \A m \in Nat : Then(Shr(m), m % Base) = m
    BY ShrFacts DEF Then
  <2> QED
    BY <1>2, <2>1
<1> HIDE DEF n1, n2, n3, n4, n5, n6, n7
<1>7. Number8(Digits8(n)) = n
  BY <1>1, <1>5, <1>6 DEF Number8
<1> QED
  BY <1>1, <1>3, <1>7

\* The sum of the shifted digits is the number that they write.
LEMMA SumOfDigits ==
  ASSUME NEW d, \A k \in 1..8 : d[k] \in Nat
  PROVE  Value8(d) = Number8(d)
<1> DEFINE d1 == d[1]
           d2 == d[2]
           d3 == d[3]
           d4 == d[4]
           d5 == d[5]
           d6 == d[6]
           d7 == d[7]
           d8 == d[8]
<1>1. /\ d1 \in Nat /\ d2 \in Nat /\ d3 \in Nat /\ d4 \in Nat
      /\ d5 \in Nat /\ d6 \in Nat /\ d7 \in Nat /\ d8 \in Nat
      /\ Base \in Nat
  BY ConstantsFacts
<1> HIDE DEF d1, d2, d3, d4, d5, d6, d7, d8
<1> DEFINE b2 == Base * Base
           b3 == Base * b2
           b4 == Base * b3
           b5 == Base * b4
           b6 == Base * b5
           b7 == Base * b6
           m2 == d1 * Base + d2
           m3 == m2 * Base + d3
           m4 == m3 * Base + d4
           m5 == m4 * Base + d5
           m6 == m5 * Base + d6
           m7 == m6 * Base + d7
<1>2. d1 * b7 + d2 * b6 + d3 * b5 + d4 * b4 + d5 * b3 + d6 * b2 + d7 * Base + d8
        = m7 * Base + d8
  BY <1>1
<1>3. Value8(d) = d1 * b7 + d2 * b6 + d3 * b5 + d4 * b4
                    + d5 * b3 + d6 * b2 + d7 * Base + d8
  BY Zenon DEF Value8, d1, d2, d3, d4, d5, d6, d7, d8
<1>4. Number8(d) = m7 * Base + d8
  BY Zenon DEF Number8, Then, d1, d2, d3, d4, d5, d6, d7, d8
<1> QED
  BY <1>2, <1>3, <1>4, Zenon

-----------------------------------------------------------------------------
(* Sequences, element by element.                                           *)

\* What may stand on the wire: the header's bytes, digits and payload.
AnyByte ==
    Nat \cup [mask : BOOLEAN, len : Nat]
        \cup [fin : BOOLEAN, rsv : BOOLEAN, op : Opcodes \cup {"unknown"}]

\* u is s with t behind it.
Joins(s, t, u) ==
    /\ u \in Seq(AnyByte) /\ Len(u) = Len(s) + Len(t)
    /\ \A k \in 1..Len(s) : u[k] = s[k]
    /\ \A k \in 1..Len(t) : u[Len(s) + k] = t[k]

LEMMA ConcatElements == \A s, t \in Seq(AnyByte) : Joins(s, t, s \o t)
<1> SUFFICES ASSUME NEW s \in Seq(AnyByte), NEW t \in Seq(AnyByte)
             PROVE  Joins(s, t, s \o t)
  OBVIOUS
<1>1. s \o t \in Seq(AnyByte) /\ Len(s \o t) = Len(s) + Len(t)
  OBVIOUS
<1>2. \A k \in 1..Len(s) : (s \o t)[k] = s[k]
  OBVIOUS
<1>3. \A k \in 1..Len(t) : (s \o t)[Len(s) + k] = t[k]
  OBVIOUS
<1> QED
  BY <1>1, <1>2, <1>3, Zenon DEF Joins

\* u is t with e in front.
Conses(e, t, u) ==
    /\ u \in Seq(AnyByte) /\ Len(u) = 1 + Len(t)
    /\ u[1] = e
    /\ \A k \in 1..Len(t) : u[1 + k] = t[k]

LEMMA ConsElements ==
  \A e \in AnyByte, t \in Seq(AnyByte) : Conses(e, t, <<e>> \o t)
<1> SUFFICES ASSUME NEW e \in AnyByte, NEW t \in Seq(AnyByte)
             PROVE  Conses(e, t, <<e>> \o t)
  OBVIOUS
<1>1. <<e>> \in Seq(AnyByte) /\ Len(<<e>>) = 1 /\ <<e>>[1] = e
  OBVIOUS
<1>2. Joins(<<e>>, t, <<e>> \o t)
  BY <1>1, ConcatElements, Zenon
<1> DEFINE u == <<e>> \o t
           s == <<e>>
<1>3. Joins(s, t, u) /\ Len(s) = 1 /\ s[1] = e
  BY <1>1, <1>2
<1> HIDE DEF u, s
<1>4. Conses(e, t, u)
  BY <1>3 DEF Joins, Conses
<1> QED
  BY <1>4 DEF u

\* What is left of a sequence behind its first n elements.
LEMMA RestElements ==
  ASSUME NEW S, NEW s \in Seq(S), NEW n \in Nat, n <= Len(s)
  PROVE  /\ SubSeq(s, n + 1, Len(s)) \in Seq(S)
         /\ Len(SubSeq(s, n + 1, Len(s))) = Len(s) - n
         /\ \A k \in 1..(Len(s) - n) : SubSeq(s, n + 1, Len(s))[k] = s[n + k]
OBVIOUS

\* The first n of them.
LEMMA FrontElements ==
  ASSUME NEW S, NEW s \in Seq(S), NEW n \in Nat, n <= Len(s)
  PROVE  /\ SubSeq(s, 1, n) \in Seq(S) /\ Len(SubSeq(s, 1, n)) = n
         /\ \A k \in 1..n : SubSeq(s, 1, n)[k] = s[k]
OBVIOUS

-----------------------------------------------------------------------------
(* The encodings of the length.                                             *)

\* The bytes of a length behind the first byte of a frame, and what they say.
Writes(size, n, m) ==
    \/ /\ Len(size) = 1
       /\ size[1] = [mask |-> m, len |-> n] /\ n < Inline
    \/ /\ Len(size) = 3
       /\ size[1] = [mask |-> m, len |-> Inline]
       /\ Then(size[2], size[3]) = n
    \/ /\ Len(size) = 9
       /\ size[1] = [mask |-> m, len |-> Inline + 1]
       /\ \A k \in 2..9 : size[k] \in Nat
       /\ Number8([k \in 1..8 |-> size[1 + k]]) = n

\* A length whose top bit is set.
TopSet(size, m) ==
    /\ Len(size) = 9
    /\ size[1] = [mask |-> m, len |-> Inline + 1]
    /\ \A k \in 2..9 : size[k] \in Nat
    /\ size[2] >= Base \div 2

LEMMA WritesInline ==
  ASSUME NEW n \in Lengths, NEW m \in BOOLEAN, n < Inline
  PROVE  /\ <<[mask |-> m, len |-> n]>> \in Seq(AnyByte)
         /\ Writes(<<[mask |-> m, len |-> n]>>, n, m)
<1>1. [mask |-> m, len |-> n] \in AnyByte
  BY ConstantsFacts DEF AnyByte
<1> QED
  BY <1>1 DEF Writes

LEMMA WritesTwo ==
  ASSUME NEW n \in Lengths, NEW m \in BOOLEAN, n < Base * Base
  PROVE  LET size == <<[mask |-> m, len |-> Inline]>> \o Digits2(n)
         IN  size \in Seq(AnyByte) /\ Writes(size, n, m)
<1> DEFINE size == <<[mask |-> m, len |-> Inline]>> \o Digits2(n)
<1> DEFINE code == [mask |-> m, len |-> Inline]
<1>1. /\ Shr(n) % Base \in Nat /\ n % Base \in Nat
      /\ Then(Shr(n) % Base, n % Base) = n
  <2>1. n \in Nat /\ Base \in Nat
    BY ConstantsFacts
  <2>2. \A j \in Nat : Shr(j) \in Nat /\ j % Base \in Nat
    BY <2>1 DEF Shr
  <2>3. Shr(n) \in Nat /\ n % Base \in Nat /\ Shr(n) % Base \in Nat
    BY <2>1, <2>2
  <2> QED
    BY <2>1, <2>2, <2>3, TwoDigits
<1>2. /\ Digits2(n) \in Seq(AnyByte) /\ Len(Digits2(n)) = 2
      /\ Digits2(n)[1] = Shr(n) % Base /\ Digits2(n)[2] = n % Base
  BY <1>1 DEF Digits2, AnyByte
<1>3. code \in AnyByte
  BY ConstantsFacts DEF AnyByte
<1> HIDE DEF code
<1>4. Conses(code, Digits2(n), <<code>> \o Digits2(n))
  BY <1>2, <1>3, ConsElements, Zenon
<1>5. Conses(code, Digits2(n), size)
  BY <1>4, Zenon DEF code
<1> HIDE DEF size
<1>6. /\ size \in Seq(AnyByte) /\ size[1] = code /\ Len(size) = 3
      /\ size[2] = Digits2(n)[1] /\ size[3] = Digits2(n)[2]
  BY <1>2, <1>5 DEF Conses
<1>7. size \in Seq(AnyByte) /\ Writes(size, n, m)
  BY <1>1, <1>2, <1>6 DEF Writes, code
<1> QED
  BY <1>7 DEF size

\* Eight bytes behind the code, whatever they are.
LEMMA EightBytes ==
  ASSUME NEW m \in BOOLEAN, NEW d \in Seq(Nat), Len(d) = 8
  PROVE  LET size == <<[mask |-> m, len |-> Inline + 1]>> \o d
         IN  /\ size \in Seq(AnyByte) /\ Len(size) = 9
             /\ size[1] = [mask |-> m, len |-> Inline + 1]
             /\ \A k \in 2..9 : size[k] = d[k - 1] /\ size[k] \in Nat
<1> DEFINE code == [mask |-> m, len |-> Inline + 1]
           size == <<code>> \o d
<1>1. code \in AnyByte
  BY ConstantsFacts DEF AnyByte
<1>2. d \in Seq(AnyByte)
  BY DEF AnyByte
<1> HIDE DEF code
<1>3. Conses(code, d, size)
  BY <1>1, <1>2, ConsElements, Zenon
<1> HIDE DEF size
<1>4. \A k \in 2..9 : size[k] = d[k - 1] /\ size[k] \in Nat
  <2> SUFFICES ASSUME NEW k \in 2..9 PROVE size[k] = d[k - 1] /\ size[k] \in Nat
    OBVIOUS
  <2>1. k - 1 \in 1..8 /\ 1 + (k - 1) = k
    OBVIOUS
  <2>2. size[1 + (k - 1)] = d[k - 1]
    BY <1>3, <2>1 DEF Conses
  <2>3. d[k - 1] \in Nat
    BY <2>1, ElementOfSeq
  <2> QED
    BY <2>1, <2>2, <2>3
<1>5. size \in Seq(AnyByte) /\ Len(size) = 9 /\ size[1] = code
  BY <1>3 DEF Conses
<1> QED
  BY <1>4, <1>5, Zenon DEF size, code

LEMMA WritesEight ==
  ASSUME NEW n \in Lengths, NEW m \in BOOLEAN
  PROVE  LET size == <<[mask |-> m, len |-> Inline + 1]>> \o Digits8(n)
         IN  size \in Seq(AnyByte) /\ Writes(size, n, m)
<1> DEFINE size == <<[mask |-> m, len |-> Inline + 1]>> \o Digits8(n)
<1>1. /\ Number8(Digits8(n)) = n
      /\ Digits8(n) \in Seq(Nat) /\ Len(Digits8(n)) = 8
  BY EightDigits, ConstantsFacts
<1>2. /\ size \in Seq(AnyByte) /\ Len(size) = 9
      /\ size[1] = [mask |-> m, len |-> Inline + 1]
      /\ \A k \in 2..9 : size[k] = Digits8(n)[k - 1] /\ size[k] \in Nat
  BY <1>1, EightBytes
<1> HIDE DEF size
<1>3. \A k \in 1..8 : [j \in 1..8 |-> size[1 + j]][k] = Digits8(n)[k]
  <2> SUFFICES ASSUME NEW k \in 1..8
               PROVE  [j \in 1..8 |-> size[1 + j]][k] = Digits8(n)[k]
    OBVIOUS
  <2>1. 1 + k \in 2..9 /\ (1 + k) - 1 = k
    OBVIOUS
  <2>2. size[1 + k] = Digits8(n)[(1 + k) - 1]
    BY <1>2, <2>1
  <2> QED
    BY <2>1, <2>2
<1>4. Number8([j \in 1..8 |-> size[1 + j]]) = n
  BY <1>1, <1>3 DEF Number8
<1> QED
  BY <1>2, <1>4 DEF Writes, size

LEMMA WritesTop ==
  ASSUME NEW n \in Lengths, NEW m \in BOOLEAN
  PROVE  LET size == <<[mask |-> m, len |-> Inline + 1]>>
                       \o [Digits8(n) EXCEPT ![1] = @ + (Base \div 2)]
         IN  size \in Seq(AnyByte) /\ TopSet(size, m)
<1> DEFINE d == [Digits8(n) EXCEPT ![1] = @ + (Base \div 2)]
           size == <<[mask |-> m, len |-> Inline + 1]>> \o d
<1>1. /\ \A k \in 1..8 : Digits8(n)[k] \in 0..(Base - 1)
      /\ Digits8(n) \in Seq(Nat) /\ Len(Digits8(n)) = 8
  BY EightDigits, ConstantsFacts
<1>2. Base \div 2 \in Nat
  BY ConstantsFacts
<1>3. d \in Seq(Nat) /\ Len(d) = 8 /\ d[1] = Digits8(n)[1] + (Base \div 2)
  <2>1. Digits8(n)[1] + (Base \div 2) \in Nat
    <3>1. Digits8(n)[1] \in Nat
      BY <1>1
    <3>2. \A x, y \in Nat : x + y \in Nat
      OBVIOUS
    <3> QED
      BY <1>2, <3>1, <3>2, Zenon
  <2>2. Digits8(n) \in Seq(Nat) /\ 1 \in 1..Len(Digits8(n))
    BY <1>1
  <2>3. /\ d \in Seq(Nat) /\ Len(d) = Len(Digits8(n))
        /\ d[1] = Digits8(n)[1] + (Base \div 2)
    BY <2>1, <2>2, ExceptSeq
  <2> QED
    BY <1>1, <2>3
<1>4. d[1] >= Base \div 2
  <2>1. Digits8(n)[1] \in Nat
    BY <1>1
  <2> DEFINE top == Digits8(n)[1]
             half == Base \div 2
  <2>2. top \in Nat /\ half \in Nat /\ d[1] = top + half
    BY <1>2, <1>3, <2>1
  <2> HIDE DEF d, top, half
  <2>3. d[1] >= half
    BY <2>2
  <2> QED
    BY <2>3 DEF half
<1> HIDE DEF d
<1>5. /\ size \in Seq(AnyByte) /\ Len(size) = 9
      /\ size[1] = [mask |-> m, len |-> Inline + 1]
      /\ \A k \in 2..9 : size[k] = d[k - 1] /\ size[k] \in Nat
  BY <1>3, EightBytes
<1>6. size[2] >= Base \div 2
  BY <1>4, <1>5
<1> QED
  BY <1>5, <1>6 DEF TopSet, d

\* However the server writes a length.
LEMMA ServerLengthsFacts ==
  ASSUME NEW n \in Lengths, NEW m \in BOOLEAN, NEW size \in ServerLengths(n, m)
  PROVE  size \in Seq(AnyByte) /\ (Writes(size, n, m) \/ TopSet(size, m))
BY WritesInline, WritesTwo, WritesEight, WritesTop DEF ServerLengths

\* The client writes it in the shortest way.
LEMMA LengthBytesFacts ==
  ASSUME NEW n \in Lengths
  PROVE  /\ LengthBytes(n) \in Seq(AnyByte) /\ Writes(LengthBytes(n), n, TRUE)
         /\ Len(LengthBytes(n)) = 3 => n >= Inline
         /\ Len(LengthBytes(n)) = 9 => n >= Base * Base
<1>1. n \in Nat /\ Inline \in Nat /\ Base * Base \in Nat
  BY ConstantsFacts
<1>2. CASE n < Inline
  <2>1. LengthBytes(n) = <<[mask |-> TRUE, len |-> n]>>
    BY <1>2 DEF LengthBytes
  <2>2. LengthBytes(n) \in Seq(AnyByte) /\ Writes(LengthBytes(n), n, TRUE)
    BY <1>2, <2>1, WritesInline
  <2>3. Len(LengthBytes(n)) = 1
    BY <2>1
  <2>4. Len(LengthBytes(n)) # 3 /\ Len(LengthBytes(n)) # 9
    BY <2>3
  <2> QED
    BY <2>2, <2>4, Zenon
<1>3. CASE n >= Inline /\ n < Base * Base
  <2>1. LengthBytes(n) = <<[mask |-> TRUE, len |-> Inline]>> \o Digits2(n)
    BY <1>1, <1>3 DEF LengthBytes
  <2>2. LengthBytes(n) \in Seq(AnyByte) /\ Writes(LengthBytes(n), n, TRUE)
    BY <1>3, <2>1, WritesTwo
  <2>3. Len(LengthBytes(n)) = 3
    BY <2>1 DEF Digits2
  <2>4. Len(LengthBytes(n)) # 9
    BY <2>3
  <2> QED
    BY <1>3, <2>2, <2>4, Zenon
<1>4. CASE n >= Inline /\ n >= Base * Base
  <2>1. LengthBytes(n) = <<[mask |-> TRUE, len |-> Inline + 1]>> \o Digits8(n)
    BY <1>1, <1>4 DEF LengthBytes
  <2>2. LengthBytes(n) \in Seq(AnyByte) /\ Writes(LengthBytes(n), n, TRUE)
    BY <2>1, WritesEight
  <2> QED
    BY <1>4, <2>2, Zenon
<1>5. n < Inline \/ n >= Inline
  BY <1>1
<1>6. n < Base * Base \/ n >= Base * Base
  BY <1>1
<1> QED
  BY <1>2, <1>3, <1>4, <1>5, <1>6, Zenon

-----------------------------------------------------------------------------
(* What the server makes of a frame of the client.                          *)

\* The bytes of ws_prepare_frame(), one by one.
Prepared(bytes, first, size, mask, masked) ==
    /\ bytes \in Seq(AnyByte)
    /\ Len(bytes) = 1 + Len(size) + 4 + Len(masked)
    /\ bytes[1] = first
    /\ \A k \in 1..Len(size) : bytes[1 + k] = size[k]
    /\ \A k \in 1..4 : bytes[1 + Len(size) + k] = mask[k]
    /\ \A k \in 1..Len(masked) : bytes[1 + Len(size) + 4 + k] = masked[k]

LEMMA PreparedElements ==
  ASSUME NEW first \in AnyByte, NEW size \in Seq(AnyByte),
         NEW mask \in Seq(AnyByte), Len(mask) = 4, NEW masked \in Seq(AnyByte)
  PROVE  Prepared(<<first>> \o size \o mask \o masked, first, size, mask, masked)
<1> DEFINE head == <<first>> \o size
           front == head \o mask
           bytes == front \o masked
<1>1. Conses(first, size, head)
  BY ConsElements, Zenon
<1>2. head \in Seq(AnyByte)
  BY <1>1 DEF Conses
<1> HIDE DEF head
<1>3. Joins(head, mask, front)
  BY <1>2, ConcatElements, Zenon
<1>4. front \in Seq(AnyByte)
  BY <1>3 DEF Joins
<1> HIDE DEF front
<1>5. Joins(front, masked, bytes)
  BY <1>4, ConcatElements, Zenon
<1> HIDE DEF bytes
<1>6. /\ Len(head) = 1 + Len(size) /\ Len(front) = Len(head) + 4
      /\ Len(bytes) = Len(front) + Len(masked)
      /\ Len(size) \in Nat /\ Len(masked) \in Nat
  BY <1>1, <1>3, <1>5 DEF Conses, Joins
<1>7. \A k \in 1..Len(head) : bytes[k] = head[k]
  <2>1. \A k \in 1..Len(front) : bytes[k] = front[k]
    BY <1>5 DEF Joins
  <2>2. \A k \in 1..Len(head) : front[k] = head[k]
    BY <1>3 DEF Joins
  <2>3. \A k \in 1..Len(head) : k \in 1..Len(front)
    BY <1>6
  <2> QED
    BY <2>1, <2>2, <2>3
<1>8. bytes[1] = first /\ \A k \in 1..Len(size) : bytes[1 + k] = size[k]
  <2>1. head[1] = first /\ \A k \in 1..Len(size) : head[1 + k] = size[k]
    BY <1>1 DEF Conses
  <2>2. 1 \in 1..Len(head) /\ \A k \in 1..Len(size) : 1 + k \in 1..Len(head)
    BY <1>6
  <2> QED
    BY <1>7, <2>1, <2>2
<1>9. \A k \in 1..4 : bytes[1 + Len(size) + k] = mask[k]
  <2> SUFFICES ASSUME NEW k \in 1..4 PROVE bytes[1 + Len(size) + k] = mask[k]
    OBVIOUS
  <2>1. front[Len(head) + k] = mask[k]
    BY <1>3 DEF Joins
  <2>2. Len(head) + k \in 1..Len(front) /\ Len(head) + k = 1 + Len(size) + k
    BY <1>6
  <2>3. bytes[Len(head) + k] = front[Len(head) + k]
    BY <1>5, <2>2 DEF Joins
  <2> QED
    BY <2>1, <2>2, <2>3
<1>10. \A k \in 1..Len(masked) : bytes[1 + Len(size) + 4 + k] = masked[k]
  <2> SUFFICES ASSUME NEW k \in 1..Len(masked)
               PROVE  bytes[1 + Len(size) + 4 + k] = masked[k]
    OBVIOUS
  <2>1. bytes[Len(front) + k] = masked[k]
    BY <1>5 DEF Joins
  <2>2. Len(front) + k = 1 + Len(size) + 4 + k
    BY <1>6
  <2> QED
    BY <2>1, <2>2
<1>11. bytes \in Seq(AnyByte) /\ Len(bytes) = 1 + Len(size) + 4 + Len(masked)
  BY <1>5, <1>6 DEF Joins
<1>12. Prepared(bytes, first, size, mask, masked)
  BY <1>8, <1>9, <1>10, <1>11 DEF Prepared
<1> QED
  BY <1>12 DEF bytes, front, head

\* The server finds the length where the client has written it, in as much of a
\* frame as has come in.
LEMMA LengthRead ==
  ASSUME NEW n \in Lengths, NEW bytes \in Seq(AnyByte), Len(bytes) >= 2,
         NEW size \in Seq(AnyByte), Writes(size, n, TRUE),
         Len(size) = 3 => n >= Inline, Len(size) = 9 => n >= Base * Base,
         \A k \in 1..Len(size) : 1 + k <= Len(bytes) => bytes[1 + k] = size[k]
  PROVE  /\ bytes[2].mask = TRUE /\ 2 + Width(bytes[2].len) = 1 + Len(size)
         /\ Len(bytes) >= 1 + Len(size) =>
              RfcLength(bytes) = n /\ Shortest(bytes[2].len, n)
<1>1. n \in Nat /\ Inline \in Nat /\ Len(bytes) \in Nat
  BY ConstantsFacts
<1>2. bytes[2] = size[1]
  <2>1. 1 \in 1..Len(size)
    BY DEF Writes
  <2> QED
    BY <2>1
<1>3. CASE /\ Len(size) = 1
           /\ size[1] = [mask |-> TRUE, len |-> n] /\ n < Inline
  <2>1. bytes[2].mask = TRUE /\ bytes[2].len = n
    BY <1>2, <1>3
  <2>2. Width(n) = 0
    BY <1>1, <1>3 DEF Width
  <2>3. RfcLength(bytes) = n /\ Shortest(n, n)
    BY <2>1, <2>2, Zenon DEF RfcLength, Shortest
  <2> QED
    BY <1>3, <2>1, <2>2, <2>3
<1>4. CASE /\ Len(size) = 3
           /\ size[1] = [mask |-> TRUE, len |-> Inline]
           /\ Then(size[2], size[3]) = n
  <2>1. bytes[2].mask = TRUE /\ bytes[2].len = Inline
    BY <1>2, <1>4
  <2>2. Width(Inline) = 2
    BY DEF Width
  <2>3. Shortest(Inline, n)
    BY <1>4, <2>2 DEF Shortest
  <2>4. ASSUME Len(bytes) >= 4 PROVE RfcLength(bytes) = n
    <3>1. bytes[3] = size[2] /\ bytes[4] = size[3]
      <4>1. 2 \in 1..Len(size) /\ 3 \in 1..Len(size)
        BY <1>4
      <4> QED
        BY <2>4, <4>1, <1>1
    <3> QED
      BY <1>4, <2>1, <2>2, <3>1 DEF RfcLength
  <2> QED
    BY <1>4, <2>1, <2>2, <2>3, <2>4
<1>5. CASE /\ Len(size) = 9
           /\ size[1] = [mask |-> TRUE, len |-> Inline + 1]
           /\ \A k \in 2..9 : size[k] \in Nat
           /\ Number8([k \in 1..8 |-> size[1 + k]]) = n
  <2>1. bytes[2].mask = TRUE /\ bytes[2].len = Inline + 1
    BY <1>2, <1>5
  <2>2. Width(Inline + 1) = 8
    BY <1>1 DEF Width
  <2>3. Shortest(Inline + 1, n)
    BY <1>5, <2>2 DEF Shortest
  <2>4. ASSUME Len(bytes) >= 10 PROVE RfcLength(bytes) = n
    <3>1. \A k \in 1..8 : bytes[2 + k] = size[1 + k]
      <4> SUFFICES ASSUME NEW k \in 1..8 PROVE bytes[2 + k] = size[1 + k]
        OBVIOUS
      <4>1. 1 + k \in 1..Len(size)
        BY <1>5
      <4>2. 1 + (1 + k) = 2 + k /\ 2 + k <= 10
        OBVIOUS
      <4>3. 1 + (1 + k) <= Len(bytes)
        BY <1>1, <2>4, <4>2
      <4> QED
        BY <4>1, <4>2, <4>3
    <3>2. [k \in 1..8 |-> bytes[2 + k]] = [k \in 1..8 |-> size[1 + k]]
      BY <3>1
    <3>3. 8 # 0 /\ 8 # 2
      OBVIOUS
    <3>4. RfcLength(bytes) = Number8([k \in 1..8 |-> bytes[2 + k]])
      BY <2>1, <2>2, <3>3, Zenon DEF RfcLength
    <3> QED
      BY <1>5, <3>2, <3>4, Zenon
  <2> QED
    BY <1>5, <2>1, <2>2, <2>3, <2>4
<1> QED
  BY <1>3, <1>4, <1>5 DEF Writes

\* The mask that was put on comes off again.
LEMMA MaskTwice ==
  ASSUME NEW b \in {0, 1}, NEW m \in {0, 1}
  PROVE  (b + m) % 2 \in {0, 1} /\ (((b + m) % 2) + m) % 2 = b
OBVIOUS

LEMMA PayloadFacts ==
  ASSUME NEW n \in Lengths, NEW payload \in Payloads(n)
  PROVE  /\ payload \in Seq({0, 1}) /\ Len(payload) = n
         /\ payload = [k \in 1..n |-> payload[k]]
         /\ \A k \in 1..n : payload[k] \in {0, 1}
<1>1. n \in Nat
  BY ConstantsFacts
<1>2. PICK j \in 0..n : payload = [k \in 1..n |-> IF k = j THEN 1 ELSE 0]
  BY DEF Payloads
<1>3. \A k \in 1..n : payload[k] \in {0, 1}
  BY <1>2
<1>4. payload = [k \in 1..n |-> payload[k]]
  BY <1>2
<1>5. payload \in [1..n -> {0, 1}]
  BY <1>3, <1>4
<1> QED
  BY <1>1, <1>3, <1>4, <1>5

LEMMA MaskFacts ==
  ASSUME NEW n \in Lengths, NEW payload \in Payloads(n), NEW mask \in Masks
  PROVE  /\ mask \in Seq(AnyByte) /\ Len(mask) = 4
         /\ \A k \in 1..4 : mask[k] \in {0, 1}
         /\ Masked(payload, mask) \in Seq(AnyByte) /\ Len(Masked(payload, mask)) = n
         /\ \A k \in 1..n : /\ ((k - 1) % 4) + 1 \in 1..4
                            /\ Masked(payload, mask)[k]
                                 = (payload[k] + mask[((k - 1) % 4) + 1]) % 2
<1>1. mask \in [1..4 -> {0, 1}] /\ n \in Nat /\ {0, 1} \subseteq AnyByte
  BY ConstantsAssumption, ConstantsFacts DEF AnyByte
<1>2. mask \in Seq(AnyByte) /\ Len(mask) = 4 /\ \A k \in 1..4 : mask[k] \in {0, 1}
  <2>1. mask \in [1..4 -> AnyByte]
    BY <1>1
  <2>2. mask \in Seq(AnyByte) /\ Len(mask) = 4
    BY <2>1
  <2> QED
    BY <1>1, <2>2
<1>3. \A k \in 1..n : ((k - 1) % 4) + 1 \in 1..4
  BY <1>1
<1>4. Len(payload) = n /\ \A k \in 1..n : payload[k] \in {0, 1}
  BY PayloadFacts
<1>5. Masked(payload, mask) = [k \in 1..n |-> (payload[k] + mask[((k - 1) % 4) + 1]) % 2]
  BY <1>4, Zenon DEF Masked
<1> DEFINE masked == Masked(payload, mask)
<1>6. \A k \in 1..n : masked[k] = (payload[k] + mask[((k - 1) % 4) + 1]) % 2
  BY <1>5
<1>7. \A k \in 1..n : masked[k] \in {0, 1}
  <2> SUFFICES ASSUME NEW k \in 1..n PROVE masked[k] \in {0, 1}
    OBVIOUS
  <2>1. payload[k] \in {0, 1} /\ mask[((k - 1) % 4) + 1] \in {0, 1}
    BY <1>2, <1>3, <1>4
  <2> QED
    BY <1>6, <2>1, MaskTwice
<1>8. masked = [k \in 1..n |-> masked[k]]
  BY <1>5
<1> HIDE DEF masked
<1>9. masked \in [1..n -> AnyByte]
  BY <1>1, <1>7, <1>8
<1>10. masked \in Seq(AnyByte) /\ Len(masked) = n
  BY <1>1, <1>9
<1> QED
  BY <1>2, <1>3, <1>6, <1>10 DEF masked

\* The frame that the client prepares.
LEMMA PrepareFrameFacts ==
  ASSUME NEW op \in Opcodes, NEW f \in BOOLEAN, NEW n \in Lengths,
         NEW mask \in Masks, NEW payload \in Payloads(n)
  PROVE  Prepared(PrepareFrame([fin |-> f, rsv |-> FALSE, op |-> op], payload, mask),
                  [fin |-> f, rsv |-> FALSE, op |-> op], LengthBytes(n), mask,
                  Masked(payload, mask))
<1> DEFINE first == [fin |-> f, rsv |-> FALSE, op |-> op]
<1>1. first \in AnyByte
  BY DEF AnyByte
<1> HIDE DEF first
<1>2. Len(payload) = n
  BY PayloadFacts
<1>3. LengthBytes(n) \in Seq(AnyByte)
  BY LengthBytesFacts
<1>4. /\ mask \in Seq(AnyByte) /\ Len(mask) = 4 /\ Masked(payload, mask) \in Seq(AnyByte)
  BY MaskFacts
<1>5. Prepared(<<first>> \o LengthBytes(n) \o mask \o Masked(payload, mask),
               first, LengthBytes(n), mask, Masked(payload, mask))
  BY <1>1, <1>3, <1>4, PreparedElements, Zenon
<1>6. PrepareFrame(first, payload, mask)
        = <<first>> \o LengthBytes(n) \o mask \o Masked(payload, mask)
  BY <1>2, Zenon DEF PrepareFrame
<1> QED
  BY <1>5, <1>6, Zenon DEF first

\* The whole of it reads back as it was meant.
LEMMA WholeFrameRead ==
  ASSUME NEW op \in Opcodes, NEW f \in BOOLEAN, NEW n \in Lengths,
         NEW mask \in Masks, NEW payload \in Payloads(n)
  PROVE  RfcFrame(PrepareFrame([fin |-> f, rsv |-> FALSE, op |-> op], payload, mask))
           = [op |-> op, fin |-> f, payload |-> payload]
<1> DEFINE first == [fin |-> f, rsv |-> FALSE, op |-> op]
           bytes == PrepareFrame(first, payload, mask)
           size == LengthBytes(n)
           masked == Masked(payload, mask)
           code == bytes[2].len
           start == 2 + Width(code)
<1>1. Prepared(bytes, first, size, mask, masked)
  BY PrepareFrameFacts
<1>2. /\ size \in Seq(AnyByte) /\ Writes(size, n, TRUE)
      /\ Len(size) = 3 => n >= Inline
      /\ Len(size) = 9 => n >= Base * Base
  BY LengthBytesFacts
<1>3. /\ Len(masked) = n
      /\ \A k \in 1..n : /\ ((k - 1) % 4) + 1 \in 1..4
                         /\ masked[k] = (payload[k] + mask[((k - 1) % 4) + 1]) % 2
                         /\ mask[((k - 1) % 4) + 1] \in {0, 1}
  BY MaskFacts
<1>4. n \in Nat
  BY ConstantsFacts
<1> HIDE DEF bytes, size, masked
<1>5. Len(bytes) = 1 + Len(size) + 4 + n /\ Len(size) \in Nat \ {0}
  BY <1>1, <1>2, <1>3 DEF Prepared, Writes
<1>6. Len(bytes) >= 2 /\ Len(bytes) >= 1 + Len(size)
  BY <1>4, <1>5
<1>7. bytes \in Seq(AnyByte) /\ \A k \in 1..Len(size) : bytes[1 + k] = size[k]
  BY <1>1 DEF Prepared
<1>8. /\ bytes[2].mask = TRUE /\ start = 1 + Len(size)
      /\ RfcLength(bytes) = n /\ Shortest(code, n)
  BY <1>2, <1>6, <1>7, LengthRead
<1>9. /\ ~(Len(bytes) < 2) /\ ~(Len(bytes) < start)
      /\ ~(Len(bytes) < start + 4 + n) /\ ~(Len(bytes) > start + 4 + n)
  BY <1>4, <1>5, <1>6, <1>8
<1>10. RfcFrame(bytes)
         = [op |-> bytes[1].op, fin |-> bytes[1].fin,
            payload |-> [k \in 1..n |->
              (bytes[start + 4 + k] + bytes[start + 1 + ((k - 1) % 4)]) % 2]]
  BY <1>8, <1>9, Zenon DEF RfcFrame
<1>11. bytes[1].op = op /\ bytes[1].fin = f
  BY <1>1 DEF Prepared
<1>12. \A k \in 1..n :
         (bytes[start + 4 + k] + bytes[start + 1 + ((k - 1) % 4)]) % 2 = payload[k]
  <2> SUFFICES ASSUME NEW k \in 1..n
               PROVE  (bytes[start + 4 + k] + bytes[start + 1 + ((k - 1) % 4)]) % 2
                        = payload[k]
    OBVIOUS
  <2> DEFINE i == ((k - 1) % 4) + 1
  <2>1. bytes[1 + Len(size) + 4 + k] = masked[k]
    BY <1>1, <1>3 DEF Prepared
  <2>2. i \in 1..4 /\ masked[k] = (payload[k] + mask[i]) % 2 /\ mask[i] \in {0, 1}
    BY <1>3
  <2>3. bytes[1 + Len(size) + i] = mask[i]
    BY <1>1, <2>2 DEF Prepared
  <2>4. start + 1 + ((k - 1) % 4) = 1 + Len(size) + i
    BY <1>5, <1>8, <2>2
  <2>5. payload[k] \in {0, 1}
    BY PayloadFacts
  <2> HIDE DEF i, start
  <2>6. bytes[start + 4 + k] = (payload[k] + mask[i]) % 2
    BY <1>8, <2>1, <2>2
  <2>7. bytes[start + 1 + ((k - 1) % 4)] = mask[i]
    BY <2>3, <2>4
  <2>8. (((payload[k] + mask[i]) % 2) + mask[i]) % 2 = payload[k]
    BY <2>2, <2>5, MaskTwice
  <2> QED
    BY <2>6, <2>7, <2>8
<1>13. payload = [k \in 1..n |-> payload[k]]
  BY PayloadFacts
<1>14. [k \in 1..n |-> (bytes[start + 4 + k] + bytes[start + 1 + ((k - 1) % 4)]) % 2]
         = payload
  BY <1>12, <1>13
<1>15. RfcFrame(bytes) = [op |-> op, fin |-> f, payload |-> payload]
  BY <1>10, <1>11, <1>14, Zenon
<1> QED
  BY <1>15 DEF bytes

\* Less than the whole of it is no frame yet.
LEMMA CutFrameRead ==
  ASSUME NEW op \in Opcodes, NEW f \in BOOLEAN, NEW n \in Lengths,
         NEW mask \in Masks, NEW payload \in Payloads(n),
         NEW bytes,
         bytes = PrepareFrame([fin |-> f, rsv |-> FALSE, op |-> op], payload, mask),
         NEW k \in 0..(Len(bytes) - 1)
  PROVE  RfcFrame(SubSeq(bytes, 1, k)) = Incomplete
<1> DEFINE first == [fin |-> f, rsv |-> FALSE, op |-> op]
           part == SubSeq(bytes, 1, k)
           size == LengthBytes(n)
           code == part[2].len
           start == 2 + Width(code)
<1> SUFFICES RfcFrame(part) = Incomplete
  OBVIOUS
<1>1. Prepared(bytes, first, size, mask, Masked(payload, mask))
  BY PrepareFrameFacts
<1>2. /\ size \in Seq(AnyByte) /\ Writes(size, n, TRUE)
      /\ Len(size) = 3 => n >= Inline
      /\ Len(size) = 9 => n >= Base * Base
  BY LengthBytesFacts
<1>3. n \in Nat /\ Len(Masked(payload, mask)) = n
  BY ConstantsFacts, MaskFacts
<1> HIDE DEF size, first
<1>4. /\ bytes \in Seq(AnyByte) /\ Len(bytes) = 1 + Len(size) + 4 + n
      /\ Len(size) \in Nat \ {0}
      /\ \A j \in 1..Len(size) : bytes[1 + j] = size[j]
  <2>1. Len(size) \in Nat \ {0}
    BY <1>2 DEF Writes
  <2> QED
    BY <1>1, <1>3, <2>1, Zenon DEF Prepared
<1>5. k \in Nat /\ k <= Len(bytes) /\ k < 1 + Len(size) + 4 + n
  BY <1>3, <1>4
<1>6. /\ part \in Seq(AnyByte) /\ Len(part) = k
      /\ \A j \in 1..k : part[j] = bytes[j]
  BY <1>4, <1>5, FrontElements
<1> HIDE DEF part
<1>7. CASE k < 2
  BY <1>6, <1>7, Zenon DEF RfcFrame
<1>8. CASE k >= 2
  <2>1. \A j \in 1..Len(size) : 1 + j <= Len(part) => part[1 + j] = size[j]
    <3> SUFFICES ASSUME NEW j \in 1..Len(size), 1 + j <= Len(part)
                 PROVE  part[1 + j] = size[j]
      OBVIOUS
    <3>1. 1 + j \in 1..k
      BY <1>4, <1>5, <1>6
    <3> QED
      BY <1>4, <1>6, <3>1
  <2>2. /\ part[2].mask = TRUE /\ start = 1 + Len(size)
        /\ Len(part) >= 1 + Len(size) =>
             RfcLength(part) = n /\ Shortest(code, n)
    BY <1>2, <1>6, <1>8, <2>1, LengthRead
  <2>3. ~(Len(part) < 2)
    BY <1>5, <1>6, <1>8
  <2>4. CASE Len(part) < start
    BY <2>2, <2>3, <2>4, Zenon DEF RfcFrame
  <2>5. CASE ~(Len(part) < start)
    <3>1. Len(part) >= 1 + Len(size)
      BY <1>4, <1>5, <1>6, <2>2, <2>5
    <3>2. RfcLength(part) = n /\ Shortest(code, n)
      BY <2>2, <3>1
    <3>3. Len(part) < start + 4 + n
      BY <1>3, <1>4, <1>5, <1>6, <2>2
    <3> QED
      BY <2>2, <2>3, <2>5, <3>2, <3>3, Zenon DEF RfcFrame
  <2> QED
    BY <2>4, <2>5
<1> QED
  BY <1>5, <1>7, <1>8

-----------------------------------------------------------------------------
(* The inductive invariant.                                                 *)

\* The frame of the server whose length is written with these bytes.
ServerBytes(size) ==
    <<[fin |-> meant.fin, rsv |-> meant.rsv, op |-> meant.op]>>
      \o size \o meant.payload

FrameLen(size) == 1 + Len(size) + Len(meant.payload)

\* What the server means.
Meant(size) ==
    /\ {meant.fin, meant.rsv, meant.mask, meant.whole, meant.top} \subseteq BOOLEAN
    /\ meant.op \in Opcodes \cup {"unknown"}
    /\ \E n \in Lengths : meant.payload = [k \in 1..n |-> k]
    /\ size \in ServerLengths(Len(meant.payload), meant.mask)
    /\ meant.code = size[1].len
    /\ meant.top = (Len(size) = 9 /\ size[2] >= Base \div 2)

\* On the wire is what follows the first n bytes of it, up to where it was cut.
Arriving(size, n) ==
    /\ wire \in Seq(AnyByte) /\ Len(wire) + n <= FrameLen(size)
    /\ meant.whole <=> Len(wire) + n = FrameLen(size)
    /\ \A k \in 1..Len(wire) : wire[k] = ServerBytes(size)[n + k]

\* Where the next read starts.
WireInv ==
    pc \in {"header", "len16", "len64", "body"} =>
      \E size \in Seq(AnyByte) :
        /\ Meant(size)
        /\ pc = "header" => Arriving(size, 0)
        /\ pc = "len16" => Arriving(size, 2) /\ meant.code = Inline
        /\ pc = "len64" => Arriving(size, 2) /\ meant.code = Inline + 1
        /\ pc = "body" => Arriving(size, 1 + Len(size)) /\ ~meant.top

\* What the header was checked for.
HeaderInv ==
    pc \in {"len16", "len64", "body"} =>
      /\ fin = meant.fin /\ opcode = meant.op
      /\ ~meant.rsv /\ meant.op \in Opcodes /\ ~meant.mask
      /\ meant.op \in Control => meant.fin /\ ~(meant.code >= Inline)

BodyInv ==
    /\ pc = "body" => length = Len(meant.payload)
    /\ pc # "got" => buf = <<>>
    /\ ret # "none" => pc = "failed"

IInv ==
    /\ TypeOK /\ WireInv /\ HeaderInv /\ BodyInv
    /\ ServerSeesFrame /\ FrameAsSent /\ RefusedForReason

-----------------------------------------------------------------------------
(* The bytes of the server's frame.                                         *)

LEMMA NumberedPayload ==
  ASSUME NEW n \in Lengths
  PROVE  /\ [k \in 1..n |-> k] \in Seq(AnyByte)
         /\ Len([k \in 1..n |-> k]) = n
         /\ \A k \in 1..n : [j \in 1..n |-> j][k] = k
<1> DEFINE payload == [k \in 1..n |-> k]
<1>1. n \in Nat
  BY ConstantsFacts
<1>2. payload \in [1..n -> AnyByte] /\ \A k \in 1..n : payload[k] = k
  BY <1>1 DEF AnyByte
<1> HIDE DEF payload
<1>3. payload \in Seq(AnyByte) /\ Len(payload) = n
  BY <1>1, <1>2
<1> QED
  BY <1>2, <1>3 DEF payload

\* While the server's frame is read, what it means does not change.
LEMMA MeantStays ==
  ASSUME NEW size, Meant(size), UNCHANGED meant
  PROVE  Meant(size)'
<1>1. ServerLengths(Len(meant.payload), meant.mask)'
        = ServerLengths(Len(meant.payload), meant.mask)
  BY Zenon DEF ServerLengths, Digits2, Digits8, Shr
<1> QED
  BY <1>1, Zenon DEF Meant

\* What follows from the meaning of a frame about its bytes.
LEMMA MeantFacts ==
  ASSUME NEW size \in Seq(AnyByte), Meant(size)
  PROVE  /\ Len(meant.payload) \in Lengths /\ Len(meant.payload) \in Nat
         /\ meant.payload \in Seq(AnyByte)
         /\ \/ Writes(size, Len(meant.payload), meant.mask)
            \/ TopSet(size, meant.mask)
         /\ meant.mask \in BOOLEAN /\ size[1].mask = meant.mask
         /\ size[1].len = meant.code
         /\ Len(size) \in {1, 3, 9}
<1>1. PICK n \in Lengths : meant.payload = [k \in 1..n |-> k]
  BY DEF Meant
<1>2. Len(meant.payload) = n /\ meant.payload \in Seq(AnyByte) /\ n \in Nat
  BY <1>1, NumberedPayload, ConstantsFacts
<1>3. meant.mask \in BOOLEAN
  BY DEF Meant
<1>4. Writes(size, n, meant.mask) \/ TopSet(size, meant.mask)
  BY <1>2, <1>3, ServerLengthsFacts DEF Meant
<1>5. size[1].mask = meant.mask /\ Len(size) \in {1, 3, 9}
  <2>1. PICK code : size[1] = [mask |-> meant.mask, len |-> code]
                    /\ Len(size) \in {1, 3, 9}
    BY <1>4, Zenon DEF Writes, TopSet
  <2> QED
    BY <2>1
<1>6. size[1].len = meant.code
  BY DEF Meant
<1> QED
  BY <1>2, <1>3, <1>4, <1>5, <1>6

\* These are the bytes of a frame, element by element.
Framed(first, size, payload, bytes) ==
    /\ bytes \in Seq(AnyByte) /\ Len(bytes) = 1 + Len(size) + Len(payload)
    /\ bytes[1] = first
    /\ \A k \in 1..Len(size) : bytes[1 + k] = size[k]
    /\ \A k \in 1..Len(payload) : bytes[1 + Len(size) + k] = payload[k]

LEMMA FrameBytes ==
  \A first \in AnyByte : \A size, payload \in Seq(AnyByte) :
    Framed(first, size, payload, <<first>> \o size \o payload)
<1> SUFFICES ASSUME NEW first \in AnyByte, NEW size \in Seq(AnyByte),
                    NEW payload \in Seq(AnyByte),
                    NEW bytes, bytes = <<first>> \o size \o payload
             PROVE  Framed(first, size, payload, bytes)
  OBVIOUS
<1> DEFINE head == <<first>> \o size
<1>3. Conses(first, size, head)
  BY ConsElements, Zenon
<1>4. head \in Seq(AnyByte)
  BY <1>3 DEF Conses
<1>5. Joins(head, payload, bytes)
  BY <1>4, ConcatElements, Zenon
<1> HIDE DEF head
<1>6. /\ Len(head) = 1 + Len(size) /\ Len(bytes) = Len(head) + Len(payload)
      /\ Len(size) \in Nat /\ Len(payload) \in Nat
  BY <1>3, <1>5 DEF Conses, Joins
<1>7. bytes[1] = first
  <2>1. 1 \in 1..Len(head) /\ head[1] = first
    BY <1>3, <1>6 DEF Conses
  <2> QED
    BY <1>5, <2>1 DEF Joins
<1>8. \A k \in 1..Len(size) : bytes[1 + k] = size[k]
  <2> SUFFICES ASSUME NEW k \in 1..Len(size) PROVE bytes[1 + k] = size[k]
    OBVIOUS
  <2>1. 1 + k \in 1..Len(head) /\ head[1 + k] = size[k]
    BY <1>3, <1>6 DEF Conses
  <2> QED
    BY <1>5, <2>1 DEF Joins
<1>9. \A k \in 1..Len(payload) : bytes[1 + Len(size) + k] = payload[k]
  <2> SUFFICES ASSUME NEW k \in 1..Len(payload)
               PROVE  bytes[1 + Len(size) + k] = payload[k]
    OBVIOUS
  <2>1. bytes[Len(head) + k] = payload[k]
    BY <1>5 DEF Joins
  <2> QED
    BY <1>6, <2>1
<1>10. bytes \in Seq(AnyByte)
  BY <1>5 DEF Joins
<1> QED
  BY <1>6, <1>7, <1>8, <1>9, <1>10 DEF Framed

LEMMA ServerBytesFacts ==
  ASSUME NEW size \in Seq(AnyByte), Meant(size)
  PROVE  /\ ServerBytes(size) \in Seq(AnyByte)
         /\ Len(ServerBytes(size)) = FrameLen(size)
         /\ ServerBytes(size)[1] = [fin |-> meant.fin, rsv |-> meant.rsv, op |-> meant.op]
         /\ \A k \in 1..Len(size) : ServerBytes(size)[1 + k] = size[k]
         /\ \A k \in 1..Len(meant.payload) :
              ServerBytes(size)[1 + Len(size) + k] = meant.payload[k]
<1> DEFINE first == [fin |-> meant.fin, rsv |-> meant.rsv, op |-> meant.op]
           payload == meant.payload
<1>1. first \in AnyByte
  BY DEF Meant, AnyByte
<1>2. payload \in Seq(AnyByte)
  BY MeantFacts
<1>3. ServerBytes(size) = <<first>> \o size \o payload
  BY Zenon DEF ServerBytes
<1> HIDE DEF first, payload
<1>4. Framed(first, size, payload, ServerBytes(size))
  BY <1>1, <1>2, <1>3, FrameBytes, Zenon
<1> QED
  BY <1>4, Zenon DEF Framed, first, payload, FrameLen

\* The code tells how many digits there are.
LEMMA CodeWidth ==
  ASSUME NEW size \in Seq(AnyByte), Meant(size)
  PROVE  /\ meant.code \in Nat
         /\ meant.code < Inline =>
              Len(size) = 1 /\ meant.code = Len(meant.payload) /\ ~meant.top
         /\ meant.code = Inline => Len(size) = 3 /\ ~meant.top
         /\ meant.code = Inline + 1 => Len(size) = 9
         /\ meant.code <= Inline + 1
<1> DEFINE n == Len(meant.payload)
           m == meant.mask
<1>1. /\ Writes(size, n, m) \/ TopSet(size, m)
      /\ n \in Nat /\ size[1].len = meant.code /\ Inline \in Nat
  BY MeantFacts, ConstantsFacts
<1>2. meant.top => Len(size) = 9
  BY Zenon DEF Meant
<1> HIDE DEF n, m
<1>3. CASE /\ Len(size) = 1
           /\ size[1] = [mask |-> m, len |-> n] /\ n < Inline
  <2>1. meant.code = n /\ Len(size) # 9
    BY <1>1, <1>3
  <2> QED
    BY <1>1, <1>2, <1>3, <2>1 DEF n
<1>4. CASE Len(size) = 3 /\ size[1] = [mask |-> m, len |-> Inline]
  <2>1. meant.code = Inline /\ Len(size) # 9
    BY <1>1, <1>4
  <2> QED
    BY <1>1, <1>2, <1>4, <2>1
<1>5. CASE Len(size) = 9 /\ size[1] = [mask |-> m, len |-> Inline + 1]
  <2>1. meant.code = Inline + 1
    BY <1>1, <1>5
  <2> QED
    BY <1>1, <1>5, <2>1
<1> QED
  BY <1>1, <1>3, <1>4, <1>5, Zenon DEF Writes, TopSet

\* Behind the header, the digits of the length are next.
LEMMA DigitsArriving ==
  ASSUME NEW size \in Seq(AnyByte), Meant(size), Arriving(size, 2),
         Len(size) - 1 <= Len(wire)
  PROVE  \A k \in 1..(Len(size) - 1) : wire[k] = size[1 + k]
<1> SUFFICES ASSUME NEW k \in 1..(Len(size) - 1) PROVE wire[k] = size[1 + k]
  OBVIOUS
<1>1. k \in 1..Len(wire) /\ 1 + k \in 1..Len(size) /\ 2 + k = 1 + (1 + k)
  BY DEF Arriving
<1>2. wire[k] = ServerBytes(size)[2 + k]
  BY <1>1 DEF Arriving
<1>3. ServerBytes(size)[1 + (1 + k)] = size[1 + k]
  BY <1>1, ServerBytesFacts
<1> QED
  BY <1>1, <1>2, <1>3

\* Reading n bytes moves on.
LEMMA ReadOn ==
  ASSUME NEW size \in Seq(AnyByte), Meant(size), NEW from \in Nat, NEW n \in Nat,
         Arriving(size, from), Recvn(n), UNCHANGED meant
  PROVE  Arriving(size, from + n)'
<1>1. wire \in Seq(AnyByte) /\ n <= Len(wire) /\ Len(wire) \in Nat
  BY DEF Arriving, Recvn
<1>2. wire' = SubSeq(wire, n + 1, Len(wire))
  BY DEF Recvn
<1>3. /\ wire' \in Seq(AnyByte) /\ Len(wire') = Len(wire) - n
      /\ \A k \in 1..(Len(wire) - n) : wire'[k] = wire[n + k]
  BY <1>1, <1>2, RestElements
<1>4. FrameLen(size)' = FrameLen(size) /\ ServerBytes(size)' = ServerBytes(size)
  BY DEF FrameLen, ServerBytes
<1>5. Len(wire') + (from + n) = Len(wire) + from
  BY <1>1, <1>3
<1>6. \A k \in 1..Len(wire') : wire'[k] = ServerBytes(size)[(from + n) + k]
  <2> SUFFICES ASSUME NEW k \in 1..Len(wire')
               PROVE  wire'[k] = ServerBytes(size)[(from + n) + k]
    OBVIOUS
  <2>1. n + k \in 1..Len(wire) /\ k \in 1..(Len(wire) - n)
    BY <1>1, <1>3
  <2>2. wire'[k] = wire[n + k]
    BY <1>3, <2>1
  <2>3. wire[n + k] = ServerBytes(size)[from + (n + k)]
    BY <2>1 DEF Arriving
  <2>4. from + (n + k) = (from + n) + k
    OBVIOUS
  <2> QED
    BY <2>2, <2>3, <2>4
<1>7. Len(wire') + (from + n) <= FrameLen(size)
  BY <1>5 DEF Arriving
<1>8. meant.whole <=> Len(wire') + (from + n) = FrameLen(size)
  BY <1>5 DEF Arriving
<1> QED
  BY <1>3, <1>4, <1>6, <1>7, <1>8, Zenon DEF Arriving

-----------------------------------------------------------------------------
(* The steps.                                                               *)

LEMMA InvInit == Init => IInv
<1> SUFFICES ASSUME Init PROVE IInv
  OBVIOUS
<1> USE DEF Init
<1>1. TypeOK
  <2>1. Len(buf) = 0 /\ 0 <= Total
    BY ConstantsFacts
  <2>2. length \in Nat /\ Len(buf) <= Total
    BY <2>1
  <2> QED
    BY <2>2 DEF TypeOK
<1>2. WireInv /\ HeaderInv /\ BodyInv
  BY DEF WireInv, HeaderInv, BodyInv
<1>3. ServerSeesFrame /\ FrameAsSent /\ RefusedForReason
  BY DEF ServerSeesFrame, FrameAsSent, RefusedForReason
<1> QED
  BY <1>1, <1>2, <1>3 DEF IInv

LEMMA SendStep ==
  ASSUME IInv, SendFrame
  PROVE  IInv'
<1> USE DEF recvVars
<1>1. PICK op \in Opcodes, f \in BOOLEAN, n \in Lengths, mask \in Masks :
        \E payload \in Payloads(n) :
          LET bytes == PrepareFrame([fin |-> f, rsv |-> FALSE, op |-> op],
                                    payload, mask)
          IN  /\ meant' = [op |-> op, fin |-> f, payload |-> payload]
              /\ \/ out' = bytes /\ pc' = "sent" /\ UNCHANGED ret
                 \/ /\ \E k \in 0..Len(bytes) - 1 : out' = SubSeq(bytes, 1, k)
                    /\ pc' = "failed" /\ ret' = "io_error"
  BY DEF SendFrame
<1>2. PICK payload \in Payloads(n) :
        LET bytes == PrepareFrame([fin |-> f, rsv |-> FALSE, op |-> op], payload, mask)
        IN  /\ meant' = [op |-> op, fin |-> f, payload |-> payload]
            /\ \/ out' = bytes /\ pc' = "sent" /\ UNCHANGED ret
               \/ /\ \E k \in 0..Len(bytes) - 1 : out' = SubSeq(bytes, 1, k)
                  /\ pc' = "failed" /\ ret' = "io_error"
  BY <1>1
<1> DEFINE bytes == PrepareFrame([fin |-> f, rsv |-> FALSE, op |-> op], payload, mask)
<1>3. RfcFrame(bytes) = [op |-> op, fin |-> f, payload |-> payload]
  BY WholeFrameRead
<1>4. \A k \in 0..(Len(bytes) - 1) : RfcFrame(SubSeq(bytes, 1, k)) = Incomplete
  BY CutFrameRead
<1>5. /\ meant' = [op |-> op, fin |-> f, payload |-> payload]
      /\ \/ out' = bytes /\ pc' = "sent" /\ UNCHANGED ret
         \/ /\ \E k \in 0..(Len(bytes) - 1) : out' = SubSeq(bytes, 1, k)
            /\ pc' = "failed" /\ ret' = "io_error"
  BY <1>2
<1> HIDE DEF bytes
<1>6. pc = "idle" /\ UNCHANGED <<wire, recvVars>> /\ ret = "none" /\ buf = <<>>
  BY DEF SendFrame, IInv, BodyInv
<1>7. TypeOK'
  BY <1>5, <1>6 DEF IInv, TypeOK
<1>8. WireInv' /\ HeaderInv' /\ BodyInv'
  BY <1>5, <1>6 DEF WireInv, HeaderInv, BodyInv
<1>9. ServerSeesFrame'
  <2>1. CASE out' = bytes /\ pc' = "sent" /\ UNCHANGED ret
    BY <1>3, <1>5, <2>1 DEF ServerSeesFrame
  <2>2. CASE /\ \E k \in 0..(Len(bytes) - 1) : out' = SubSeq(bytes, 1, k)
             /\ pc' = "failed" /\ ret' = "io_error"
    <3>1. RfcFrame(out') = Incomplete
      BY <1>4, <2>2
    <3>2. RfcFrame(out)' = RfcFrame(out')
      BY DEF RfcFrame, Shortest, RfcLength, Width, Number8, Then, Incomplete, Bad
    <3> QED
      BY <2>2, <3>1, <3>2 DEF ServerSeesFrame, Incomplete
  <2> QED
    BY <1>5, <2>1, <2>2
<1>10. FrameAsSent' /\ RefusedForReason'
  BY <1>5, <1>6 DEF FrameAsSent, RefusedForReason
<1> QED
  BY <1>7, <1>8, <1>9, <1>10 DEF IInv

LEMMA ServeStep ==
  ASSUME IInv, ServerSends
  PROVE  IInv'
<1> USE DEF recvVars
<1>1. PICK op \in Opcodes \cup {"unknown"}, f \in BOOLEAN, rsv \in BOOLEAN,
           m \in BOOLEAN, n \in Lengths :
        \E size \in ServerLengths(n, m) :
          LET first == [fin |-> f, rsv |-> rsv, op |-> op]
              bytes == <<first>> \o size \o [k \in 1..n |-> k]
          IN  \E k \in 0..Len(bytes) :
                /\ wire' = SubSeq(bytes, 1, k)
                /\ meant' = [op |-> op, fin |-> f, rsv |-> rsv, mask |-> m,
                             payload |-> [j \in 1..n |-> j], code |-> size[1].len,
                             top |-> Len(size) = 9 /\ size[2] >= Base \div 2,
                             whole |-> k = Len(bytes)]
  BY Zenon DEF ServerSends
<1> DEFINE first == [fin |-> f, rsv |-> rsv, op |-> op]
           payload == [j \in 1..n |-> j]
<1>2. PICK size \in ServerLengths(n, m) :
        \E k \in 0..Len(<<first>> \o size \o payload) :
          /\ wire' = SubSeq(<<first>> \o size \o payload, 1, k)
          /\ meant' = [op |-> op, fin |-> f, rsv |-> rsv, mask |-> m,
                       payload |-> payload, code |-> size[1].len,
                       top |-> Len(size) = 9 /\ size[2] >= Base \div 2,
                       whole |-> k = Len(<<first>> \o size \o payload)]
  BY <1>1, Zenon
<1> DEFINE bytes == <<first>> \o size \o payload
           top == Len(size) = 9 /\ size[2] >= Base \div 2
<1>3. PICK k \in 0..Len(bytes) :
        /\ wire' = SubSeq(bytes, 1, k)
        /\ meant' = [op |-> op, fin |-> f, rsv |-> rsv, mask |-> m,
                     payload |-> payload, code |-> size[1].len, top |-> top,
                     whole |-> k = Len(bytes)]
  BY <1>2, Zenon
<1>4. size \in Seq(AnyByte)
  BY ServerLengthsFacts
<1>5. payload \in Seq(AnyByte) /\ Len(payload) = n
  BY NumberedPayload
<1>6. first \in AnyByte
  BY DEF AnyByte
<1> HIDE DEF payload, top, first
<1>7. bytes \in Seq(AnyByte) /\ Len(bytes) = 1 + Len(size) + Len(payload)
  BY <1>4, <1>5, <1>6, FrameBytes, Zenon DEF Framed
<1> HIDE DEF bytes
<1>8. /\ meant'.op = op /\ meant'.fin = f /\ meant'.rsv = rsv /\ meant'.mask = m
      /\ meant'.payload = payload /\ meant'.code = size[1].len
      /\ meant'.top = top /\ meant'.whole = (k = Len(bytes))
  BY <1>3
<1>9. Meant(size)'
  <2>1. top \in BOOLEAN /\ (k = Len(bytes)) \in BOOLEAN
    BY Zenon DEF top
  <2>2. {meant'.fin, meant'.rsv, meant'.mask, meant'.whole, meant'.top} \subseteq BOOLEAN
    BY <1>8, <2>1
  <2>3. \E j \in Lengths : meant'.payload = [i \in 1..j |-> i]
    BY <1>8 DEF payload
  <2>4. size \in ServerLengths(Len(meant'.payload), meant'.mask)
    BY <1>5, <1>8
  <2>5. meant'.op \in Opcodes \cup {"unknown"} /\ meant'.code = size[1].len
    BY <1>8
  <2>6. meant'.top = (Len(size) = 9 /\ size[2] >= Base \div 2)
    BY <1>8, Zenon DEF top
  <2>7. ServerLengths(Len(meant.payload), meant.mask)'
          = ServerLengths(Len(meant'.payload), meant'.mask)
    BY Zenon DEF ServerLengths, Digits2, Digits8, Shr
  <2> QED
    BY <2>2, <2>3, <2>4, <2>5, <2>6, <2>7, Zenon DEF Meant
<1>10. Arriving(size, 0)'
  <2>1. ServerBytes(size)' = bytes
    BY <1>8, Zenon DEF ServerBytes, bytes, first
  <2>2. FrameLen(size)' = Len(bytes) /\ Len(bytes) \in Nat
    BY <1>7, <1>8, Zenon, LenProperties DEF FrameLen
  <2>3. k \in Nat /\ k <= Len(bytes)
    BY <2>2
  <2>4. /\ wire' \in Seq(AnyByte) /\ Len(wire') = k
        /\ \A j \in 1..k : wire'[j] = bytes[j]
    BY <1>3, <1>7, <2>3, FrontElements
  <2>5. Len(wire') + 0 = k
    BY <2>3, <2>4
  <2>6. \A j \in 1..Len(wire') : wire'[j] = ServerBytes(size)'[0 + j]
    BY <2>1, <2>4
  <2>7. Len(wire') + 0 <= FrameLen(size)'
    BY <2>2, <2>3, <2>5
  <2>8. meant'.whole <=> Len(wire') + 0 = FrameLen(size)'
    BY <1>8, <2>2, <2>5
  <2> QED
    BY <2>4, <2>6, <2>7, <2>8, Zenon DEF Arriving
<1>11. /\ pc = "idle" /\ pc' = "header" /\ ret = "none" /\ buf = <<>>
       /\ UNCHANGED <<recvVars, ret, out>>
  BY DEF ServerSends, IInv, BodyInv
<1>12. TypeOK'
  BY <1>11 DEF IInv, TypeOK
<1>13. WireInv'
  BY <1>4, <1>9, <1>10, <1>11 DEF WireInv
<1>14. HeaderInv' /\ BodyInv' /\ ServerSeesFrame' /\ FrameAsSent' /\ RefusedForReason'
  BY <1>11 DEF HeaderInv, BodyInv, ServerSeesFrame, FrameAsSent, RefusedForReason
<1> QED
  BY <1>12, <1>13, <1>14 DEF IInv

\* A call that fails.
LEMMA FailsStep ==
  ASSUME IInv, pc \in {"header", "len16", "len64", "body"},
         NEW err \in {"eof", "ws_proto", "invalid_argument", "message_size"},
         Fails(err), UNCHANGED <<meant, out>>,
         fin' \in BOOLEAN, opcode' \in Opcodes \cup {"none", "unknown"},
         err \in {"ws_proto", "invalid_argument"} => Deviant,
         err = "message_size" => Len(meant.payload) > Total,
         err = "eof" => ~meant.whole
  PROVE  IInv'
<1>1. pc' = "failed" /\ ret' = err /\ UNCHANGED <<length, buf, meant, out>>
  BY DEF Fails
<1>2. TypeOK'
  BY <1>1 DEF IInv, TypeOK
<1>3. buf' = <<>>
  BY <1>1 DEF IInv, BodyInv
<1>4. WireInv' /\ HeaderInv' /\ BodyInv'
  BY <1>1, <1>3 DEF WireInv, HeaderInv, BodyInv
<1>5. ServerSeesFrame' /\ FrameAsSent'
  BY <1>1 DEF ServerSeesFrame, FrameAsSent
<1>6. RefusedForReason'
  <2>1. Deviant' = Deviant
    BY <1>1 DEF Deviant
  <2> QED
    BY <1>1, <2>1 DEF RefusedForReason
<1> QED
  BY <1>2, <1>4, <1>5, <1>6 DEF IInv

\* The length is known, and it is the one that was meant.
LEMMA SizedStep ==
  ASSUME IInv, pc \in {"header", "len16", "len64"},
         NEW size \in Seq(AnyByte), Meant(size), Arriving(size, 1 + Len(size))',
         UNCHANGED <<meant, out>>, fin' = meant.fin, opcode' = meant.op,
         ~Deviant, Sized(Len(meant.payload))
  PROVE  IInv'
<1> DEFINE n == Len(meant.payload)
<1>1. n \in Nat /\ Total \in Nat /\ Len(size) \in Nat
  BY MeantFacts, ConstantsFacts
<1>2. fin' \in BOOLEAN /\ opcode' \in Opcodes \cup {"none", "unknown"}
  BY DEF Meant
<1>3. CASE n > Total
  <2>1. Fails("message_size")
    BY <1>3, Zenon DEF Sized
  <2> QED
    BY <1>2, <1>3, <2>1, FailsStep
<1>4. CASE ~(n > Total)
  <2>1. length' = n /\ pc' = (IF n > 0 THEN "body" ELSE "got") /\ UNCHANGED <<buf, ret>>
    BY <1>4, Zenon DEF Sized
  <2>2. ret' = "none" /\ buf' = <<>>
    BY <2>1 DEF IInv, BodyInv
  <2>3. TypeOK'
    <3>1. length' \in Nat /\ (pc' = "body" => length' \in 1..Total)
      BY <1>1, <1>4, <2>1
    <3>2. buf' = buf /\ Len(buf) <= Total /\ pc' \in {"body", "got"}
      BY <2>1 DEF IInv, TypeOK
    <3>3. Len(buf') <= Total
      BY <3>2, Zenon
    <3>4. ret' = "none"
      BY <2>2
    <3> QED
      BY <1>2, <3>1, <3>2, <3>3, <3>4 DEF TypeOK
  <2>4. Meant(size)'
    BY MeantStays
  <2>5. ~meant'.top
    BY DEF Deviant
  <2>6. WireInv'
    BY <2>1, <2>4, <2>5 DEF WireInv
  <2>7. HeaderInv'
    BY <2>1 DEF HeaderInv, Deviant
  <2>8. BodyInv'
    BY <2>1, <2>2 DEF BodyInv
  <2>9. ServerSeesFrame' /\ RefusedForReason'
    BY <2>1, <2>2 DEF ServerSeesFrame, RefusedForReason
  <2>10. FrameAsSent'
    <3> SUFFICES ASSUME pc' = "got"
                 PROVE  /\ meant'.whole /\ wire' = <<>>
                        /\ fin' = meant'.fin /\ opcode' = meant'.op
                        /\ buf' = meant'.payload
                        /\ ~Deviant'
      BY DEF FrameAsSent
    <3>1. n = 0
      BY <1>1, <2>1
    <3>2. FrameLen(size)' = 1 + Len(size) + 0
      BY <3>1 DEF FrameLen
    <3>3. /\ wire' \in Seq(AnyByte) /\ Len(wire') + (1 + Len(size)) <= FrameLen(size)'
          /\ meant'.whole <=> Len(wire') + (1 + Len(size)) = FrameLen(size)'
      BY Zenon DEF Arriving
    <3>4. Len(wire') \in Nat
      BY <3>3
    <3>5. Len(wire') = 0 /\ meant'.whole
      BY <1>1, <3>2, <3>3, <3>4
    <3>6. wire' = <<>>
      BY <3>3, <3>5
    <3>7. meant.payload = <<>>
      BY <3>1, MeantFacts
    <3>8. Deviant' = Deviant
      BY DEF Deviant
    <3> QED
      BY <2>2, <3>5, <3>6, <3>7, <3>8
  <2> QED
    BY <2>3, <2>6, <2>7, <2>8, <2>9, <2>10 DEF IInv
<1> QED
  BY <1>3, <1>4

LEMMA RecvnFailsStep ==
  ASSUME IInv, RecvnFails
  PROVE  IInv'
<1>1. pc \in {"header", "len16", "len64", "body"} /\ Fails("eof")
      /\ UNCHANGED <<meant, fin, opcode, out>>
  BY DEF RecvnFails
<1>2. fin' \in BOOLEAN /\ opcode' \in Opcodes \cup {"none", "unknown"}
  BY <1>1 DEF IInv, TypeOK
<1>3. PICK size \in Seq(AnyByte) :
        /\ Meant(size)
        /\ pc = "header" => Arriving(size, 0)
        /\ pc = "len16" => Arriving(size, 2) /\ meant.code = Inline
        /\ pc = "len64" => Arriving(size, 2) /\ meant.code = Inline + 1
        /\ pc = "body" => Arriving(size, 1 + Len(size)) /\ ~meant.top
  BY <1>1, Zenon DEF IInv, WireInv
<1> DEFINE n == Len(meant.payload)
<1>4. /\ FrameLen(size) = 1 + Len(size) + n /\ n \in Nat
      /\ Len(size) \in {1, 3, 9}
  BY <1>3, MeantFacts, Zenon DEF FrameLen
<1> HIDE DEF n
<1>5. ~meant.whole
  <2>1. CASE pc = "header" /\ Len(wire) < 2
    <3>1. Arriving(size, 0)
      BY <1>3, <2>1
    <3> QED
      BY <1>4, <2>1, <3>1 DEF Arriving
  <2>2. CASE pc = "len16" /\ Len(wire) < 2
    <3>1. Arriving(size, 2) /\ meant.code = Inline
      BY <1>3, <2>2
    <3>2. Len(size) = 3
      BY <1>3, <2>2, <3>1, CodeWidth
    <3> QED
      BY <1>4, <2>2, <3>1, <3>2 DEF Arriving
  <2>3. CASE pc = "len64" /\ Len(wire) < 8
    <3>1. Arriving(size, 2) /\ meant.code = Inline + 1
      BY <1>3, <2>3
    <3>2. Len(size) = 9
      BY <1>3, <2>3, <3>1, CodeWidth
    <3> QED
      BY <1>4, <2>3, <3>1, <3>2 DEF Arriving
  <2>4. CASE pc = "body" /\ Len(wire) < length
    <3>1. Arriving(size, 1 + Len(size)) /\ length = n
      BY <1>3, <2>4 DEF IInv, BodyInv, n
    <3> QED
      BY <1>4, <2>4, <3>1 DEF Arriving
  <2> QED
    BY <2>1, <2>2, <2>3, <2>4 DEF RecvnFails
<1> QED
  BY <1>1, <1>2, <1>5, FailsStep

LEMMA HeaderStep ==
  ASSUME IInv, RecvHeader
  PROVE  IInv'
<1>1. pc = "header" /\ Recvn(2) /\ UNCHANGED <<meant, out>>
  BY DEF RecvHeader
<1>2. PICK size \in Seq(AnyByte) : Meant(size) /\ Arriving(size, 0)
  BY <1>1 DEF IInv, WireInv
<1>3. /\ meant.payload \in Seq(AnyByte) /\ Len(size) \in {1, 3, 9}
      /\ size[1].mask = meant.mask /\ size[1].len = meant.code
  BY <1>2, MeantFacts
<1>4. wire[1] = [fin |-> meant.fin, rsv |-> meant.rsv, op |-> meant.op]
      /\ wire[2] = size[1]
  <2>1. 1 \in 1..Len(wire) /\ 2 \in 1..Len(wire)
    BY <1>1, <1>2 DEF Recvn, Arriving
  <2>2. wire[1] = ServerBytes(size)[0 + 1] /\ wire[2] = ServerBytes(size)[0 + 2]
    BY <1>2, <2>1, Zenon DEF Arriving
  <2>3. 1 \in 1..Len(size)
    BY <1>3
  <2>4. ServerBytes(size)[1 + 1] = size[1]
    BY <1>2, <2>3, ServerBytesFacts
  <2> QED
    BY <1>2, <2>2, <2>4, ServerBytesFacts
<1>5. /\ wire[1].fin = meant.fin /\ wire[1].rsv = meant.rsv /\ wire[1].op = meant.op
      /\ wire[2].mask = meant.mask /\ wire[2].len = meant.code
  BY <1>3, <1>4
<1>6. /\ fin' = meant.fin
      /\ opcode' = IF meant.rsv THEN "none" ELSE meant.op
      /\ IF meant.rsv \/ meant.op \notin Opcodes THEN Fails("ws_proto")
         ELSE IF meant.mask THEN Fails("invalid_argument")
         ELSE IF ControlTooLong(meant.op, meant.fin, meant.code)
           THEN Fails("ws_proto")
         ELSE IF meant.code < Inline THEN Sized(meant.code)
         ELSE /\ length' = meant.code
              /\ pc' = IF meant.code = Inline THEN "len16" ELSE "len64"
              /\ UNCHANGED <<buf, ret>>
  BY <1>5, Zenon DEF RecvHeader
<1>7. /\ fin' \in BOOLEAN /\ opcode' \in Opcodes \cup {"none", "unknown"}
      /\ meant.op \in Opcodes \cup {"unknown"}
  BY <1>2, <1>6 DEF Meant
<1>8. CASE meant.rsv \/ meant.op \notin Opcodes
  <2>1. Fails("ws_proto") /\ Deviant
    BY <1>6, <1>8, Zenon DEF Deviant
  <2> QED
    BY <1>1, <1>7, <2>1, FailsStep
<1>9. CASE ~(meant.rsv \/ meant.op \notin Opcodes) /\ meant.mask
  <2>1. Fails("invalid_argument") /\ Deviant
    BY <1>6, <1>9, Zenon DEF Deviant
  <2> QED
    BY <1>1, <1>7, <2>1, FailsStep
<1>10. CASE /\ ~(meant.rsv \/ meant.op \notin Opcodes) /\ ~meant.mask
            /\ ControlTooLong(meant.op, meant.fin, meant.code)
  <2>1. Fails("ws_proto") /\ Deviant
    BY <1>6, <1>10, Zenon DEF Deviant, ControlTooLong
  <2> QED
    BY <1>1, <1>7, <2>1, FailsStep
<1> DEFINE Checked == /\ ~(meant.rsv \/ meant.op \notin Opcodes) /\ ~meant.mask
                      /\ ~ControlTooLong(meant.op, meant.fin, meant.code)
<1>11. Checked => opcode' = meant.op /\ (Deviant => meant.top)
  BY <1>6, Zenon DEF Deviant, ControlTooLong
<1>12. Arriving(size, 0 + 2)'
  BY <1>1, <1>2, ReadOn, Zenon
<1>13. CASE Checked /\ meant.code < Inline
  <2>1. Len(size) = 1 /\ meant.code = Len(meant.payload) /\ ~meant.top
    BY <1>2, <1>13, CodeWidth
  <2>2. Sized(Len(meant.payload))
    BY <1>6, <1>13, <2>1, Zenon
  <2>3. 0 + 2 = 1 + Len(size)
    BY <2>1
  <2>4. Arriving(size, 1 + Len(size))'
    BY <1>12, <2>3, Zenon
  <2> QED
    BY <1>1, <1>2, <1>6, <1>11, <1>13, <2>1, <2>2, <2>4, SizedStep
<1>14. CASE Checked /\ ~(meant.code < Inline)
  <2>1. /\ length' = meant.code /\ UNCHANGED <<buf, ret>>
        /\ pc' = IF meant.code = Inline THEN "len16" ELSE "len64"
    BY <1>6, <1>14, Zenon
  <2>2. ret' = "none" /\ buf' = <<>>
    BY <1>1, <2>1 DEF IInv, BodyInv
  <2>3. meant.code \in Nat /\ (meant.code = Inline \/ meant.code = Inline + 1)
    <3>1. meant.code \in Nat /\ meant.code <= Inline + 1
      BY <1>2, CodeWidth
    <3> QED
      BY <1>14, <3>1, ConstantsFacts
  <2>4. TypeOK'
    <3>1. length' \in Nat /\ pc' \in {"len16", "len64"}
      BY <2>1, <2>3
    <3>2. buf' = buf /\ Len(buf) <= Total
      BY <2>1 DEF IInv, TypeOK
    <3>3. Len(buf') <= Total
      BY <3>2, Zenon
    <3> QED
      BY <1>7, <2>2, <3>1, <3>3 DEF TypeOK
  <2>5. Meant(size)'
    BY <1>1, <1>2, MeantStays
  <2>6. WireInv'
    <3>1. pc' = "len16" => meant'.code = Inline
      BY <1>1, <2>1
    <3>2. pc' = "len64" => meant'.code = Inline + 1
      BY <1>1, <2>1, <2>3
    <3>3. pc' \in {"len16", "len64"} /\ Arriving(size, 2)'
      BY <1>12, <2>1
    <3> QED
      BY <2>5, <3>1, <3>2, <3>3 DEF WireInv
  <2>7. HeaderInv'
    BY <1>1, <1>6, <1>11, <1>14, Zenon DEF HeaderInv, ControlTooLong
  <2>8. BodyInv' /\ ServerSeesFrame' /\ FrameAsSent' /\ RefusedForReason'
    BY <2>1, <2>2 DEF BodyInv, ServerSeesFrame, FrameAsSent, RefusedForReason
  <2> QED
    BY <2>4, <2>6, <2>7, <2>8 DEF IInv
<1> QED
  BY <1>8, <1>9, <1>10, <1>13, <1>14

LEMMA Len16Step ==
  ASSUME IInv, RecvLen16
  PROVE  IInv'
<1>1. /\ pc = "len16" /\ Recvn(2) /\ Sized(Value2(wire))
      /\ UNCHANGED <<meant, fin, opcode, out>>
  BY DEF RecvLen16
<1>2. PICK size \in Seq(AnyByte) :
        Meant(size) /\ Arriving(size, 2) /\ meant.code = Inline
  BY <1>1 DEF IInv, WireInv
<1>3. Len(size) = 3 /\ ~meant.top
  BY <1>2, CodeWidth
<1>4. Writes(size, Len(meant.payload), meant.mask)
  <2>1. ~TopSet(size, meant.mask)
    BY <1>3 DEF TopSet
  <2> QED
    BY <1>2, <2>1, MeantFacts, Zenon
<1>5. Then(size[2], size[3]) = Len(meant.payload)
  BY <1>3, <1>4 DEF Writes
<1>6. wire[1] = size[2] /\ wire[2] = size[3]
  <2>1. Len(size) - 1 = 2 /\ Len(size) - 1 <= Len(wire)
    BY <1>1, <1>3 DEF Recvn
  <2>2. \A k \in 1..2 : wire[k] = size[1 + k]
    BY <1>2, <2>1, DigitsArriving
  <2> QED
    BY <2>2
<1>7. Value2(wire) = Len(meant.payload)
  BY <1>5, <1>6, Zenon DEF Value2, Then
<1>8. Arriving(size, 2 + 2)' /\ 2 + 2 = 1 + Len(size)
  BY <1>1, <1>2, <1>3, ReadOn
<1>9. Arriving(size, 1 + Len(size))'
  BY <1>8, Zenon
<1>10. fin' = meant.fin /\ opcode' = meant.op /\ ~Deviant
  BY <1>1, <1>3 DEF IInv, HeaderInv, Deviant
<1>11. Sized(Len(meant.payload))
  BY <1>1, <1>7, Zenon
<1> QED
  BY <1>1, <1>2, <1>9, <1>10, <1>11, SizedStep

LEMMA Len64Step ==
  ASSUME IInv, RecvLen64
  PROVE  IInv'
<1>1. /\ pc = "len64" /\ Recvn(8) /\ UNCHANGED <<meant, fin, opcode, out>>
      /\ wire[1] >= Base \div 2 => Fails("ws_proto")
      /\ ~(wire[1] >= Base \div 2) => Sized(Value8(wire))
  BY Zenon DEF RecvLen64
<1>2. PICK size \in Seq(AnyByte) :
        Meant(size) /\ Arriving(size, 2) /\ meant.code = Inline + 1
  BY <1>1 DEF IInv, WireInv
<1>3. Len(size) = 9
  BY <1>2, CodeWidth
<1>4. \A k \in 1..8 : wire[k] = size[1 + k]
  <2>1. Len(size) - 1 = 8 /\ Len(size) - 1 <= Len(wire)
    BY <1>1, <1>3 DEF Recvn
  <2> QED
    BY <1>2, <2>1, DigitsArriving
<1>5. wire[1] = size[2] /\ (meant.top <=> Len(size) = 9 /\ size[2] >= Base \div 2)
  <2>1. 1 \in 1..8 /\ 1 + 1 = 2
    OBVIOUS
  <2>2. wire[1] = size[2]
    BY <1>4, <2>1
  <2> QED
    BY <1>2, <2>2, Zenon DEF Meant
<1>6. CASE wire[1] >= Base \div 2
  <2>1. Deviant /\ Fails("ws_proto")
    BY <1>1, <1>3, <1>5, <1>6, Zenon DEF Deviant
  <2>2. fin' \in BOOLEAN /\ opcode' \in Opcodes \cup {"none", "unknown"}
    BY <1>1 DEF IInv, TypeOK
  <2> QED
    BY <1>1, <2>1, <2>2, FailsStep
<1>7. CASE ~(wire[1] >= Base \div 2)
  <2>1. ~meant.top /\ ~TopSet(size, meant.mask)
    BY <1>5, <1>7, Zenon DEF TopSet
  <2>2. Writes(size, Len(meant.payload), meant.mask)
    BY <1>2, <2>1, MeantFacts, Zenon
  <2> DEFINE d == [k \in 1..8 |-> size[1 + k]]
  <2>3. (\A k \in 2..9 : size[k] \in Nat) /\ Number8(d) = Len(meant.payload)
    BY <1>3, <2>2 DEF Writes
  <2>4. \A k \in 1..8 : wire[k] = d[k] /\ d[k] \in Nat
    <3> SUFFICES ASSUME NEW k \in 1..8 PROVE wire[k] = d[k] /\ d[k] \in Nat
      OBVIOUS
    <3>1. 1 + k \in 2..9 /\ d[k] = size[1 + k]
      OBVIOUS
    <3> QED
      BY <1>4, <2>3, <3>1
  <2> HIDE DEF d
  <2>5. /\ wire[1] = d[1] /\ wire[2] = d[2] /\ wire[3] = d[3] /\ wire[4] = d[4]
        /\ wire[5] = d[5] /\ wire[6] = d[6] /\ wire[7] = d[7] /\ wire[8] = d[8]
    BY <2>4
  <2>6. Value8(wire) = Number8(wire)
    BY <2>4, SumOfDigits
  <2>7. Number8(wire) = Number8(d)
    BY <2>5, Zenon DEF Number8
  <2>8. Sized(Len(meant.payload))
    BY <1>1, <1>7, <2>3, <2>6, <2>7, Zenon
  <2>9. Arriving(size, 2 + 8)' /\ 2 + 8 = 1 + Len(size)
    BY <1>1, <1>2, <1>3, ReadOn
  <2>10. Arriving(size, 1 + Len(size))'
    BY <2>9, Zenon
  <2>11. fin' = meant.fin /\ opcode' = meant.op /\ ~Deviant
    BY <1>1, <2>1 DEF IInv, HeaderInv, Deviant
  <2> QED
    BY <1>1, <1>2, <2>8, <2>10, <2>11, SizedStep
<1> QED
  BY <1>6, <1>7

LEMMA BodyStep ==
  ASSUME IInv, RecvBody
  PROVE  IInv'
<1>1. /\ pc = "body" /\ Recvn(length) /\ buf' = SubSeq(wire, 1, length)
      /\ pc' = "got" /\ UNCHANGED <<meant, fin, opcode, length, ret, out>>
  BY DEF RecvBody
<1>2. PICK size \in Seq(AnyByte) :
        Meant(size) /\ Arriving(size, 1 + Len(size)) /\ ~meant.top
  BY <1>1 DEF IInv, WireInv
<1> DEFINE n == Len(meant.payload)
<1>3. length = n /\ length \in 1..Total /\ ret = "none"
  BY <1>1 DEF IInv, BodyInv, TypeOK
<1>4. /\ meant.payload \in Seq(AnyByte) /\ n \in Nat /\ Len(size) \in Nat
      /\ FrameLen(size) = 1 + Len(size) + n
  BY <1>2, MeantFacts, Zenon, LenProperties DEF FrameLen
<1> HIDE DEF n
<1>5. wire \in Seq(AnyByte) /\ Len(wire) = n /\ meant.whole
  <2>1. /\ wire \in Seq(AnyByte) /\ n <= Len(wire)
        /\ Len(wire) + (1 + Len(size)) <= FrameLen(size)
        /\ meant.whole <=> Len(wire) + (1 + Len(size)) = FrameLen(size)
    BY <1>1, <1>2, <1>3 DEF Arriving, Recvn
  <2>2. Len(wire) \in Nat
    BY <2>1
  <2> QED
    BY <1>4, <2>1, <2>2
<1>6. \A k \in 1..n : wire[k] = meant.payload[k]
  <2> SUFFICES ASSUME NEW k \in 1..n PROVE wire[k] = meant.payload[k]
    OBVIOUS
  <2>1. wire[k] = ServerBytes(size)[(1 + Len(size)) + k]
    BY <1>2, <1>5 DEF Arriving
  <2>2. ServerBytes(size)[1 + Len(size) + k] = meant.payload[k]
    BY <1>2, ServerBytesFacts DEF n
  <2> QED
    BY <2>1, <2>2
<1>7. buf' = meant.payload
  <2>1. /\ buf' \in Seq(AnyByte) /\ Len(buf') = n
        /\ \A k \in 1..n : buf'[k] = wire[k]
    BY <1>1, <1>3, <1>4, <1>5, FrontElements
  <2>2. Len(meant.payload) = n
    BY DEF n
  <2>3. \A k \in 1..n : buf'[k] = meant.payload[k]
    BY <1>6, <2>1
  <2> QED
    BY <1>4, <2>1, <2>2, <2>3, SeqEqual
<1>8. wire' = <<>>
  <2>1. wire' \in Seq(AnyByte) /\ Len(wire') = Len(wire) - n
    BY <1>1, <1>3, <1>4, <1>5, RestElements DEF Recvn
  <2> QED
    BY <1>4, <1>5, <2>1
<1>9. ~Deviant /\ fin = meant.fin /\ opcode = meant.op /\ Deviant' = Deviant
  BY <1>1, <1>2 DEF IInv, HeaderInv, Deviant
<1>10. TypeOK'
  <2>1. Len(buf') <= Total
    BY <1>3, <1>7, ConstantsFacts DEF n
  <2> QED
    BY <1>1, <1>3, <2>1 DEF IInv, TypeOK
<1>11. WireInv' /\ HeaderInv' /\ BodyInv' /\ ServerSeesFrame' /\ RefusedForReason'
  BY <1>1, <1>3
  DEF WireInv, HeaderInv, BodyInv, ServerSeesFrame, RefusedForReason
<1>12. FrameAsSent'
  BY <1>1, <1>5, <1>7, <1>8, <1>9 DEF FrameAsSent
<1> QED
  BY <1>10, <1>11, <1>12 DEF IInv

LEMMA Stutter ==
  ASSUME IInv, UNCHANGED vars
  PROVE  IInv'
<1> USE DEF vars, recvVars
<1>1. TypeOK' /\ HeaderInv' /\ BodyInv'
  BY DEF IInv, TypeOK, HeaderInv, BodyInv
<1>2. WireInv'
  <2> SUFFICES ASSUME pc \in {"header", "len16", "len64", "body"} PROVE WireInv'
    BY DEF WireInv
  <2>1. PICK size \in Seq(AnyByte) :
          /\ Meant(size)
          /\ pc = "header" => Arriving(size, 0)
          /\ pc = "len16" => Arriving(size, 2) /\ meant.code = Inline
          /\ pc = "len64" => Arriving(size, 2) /\ meant.code = Inline + 1
          /\ pc = "body" => Arriving(size, 1 + Len(size)) /\ ~meant.top
    BY Zenon DEF IInv, WireInv
  <2>2. Meant(size)'
    BY <2>1, MeantStays
  <2>3. \A k : Arriving(size, k) => Arriving(size, k)'
    BY DEF Arriving, FrameLen, ServerBytes
  <2> QED
    BY <2>1, <2>2, <2>3 DEF WireInv
<1>3. ServerSeesFrame'
  BY DEF IInv, ServerSeesFrame, RfcFrame, Shortest, RfcLength, Width, Number8,
         Then, Incomplete, Bad
<1>4. FrameAsSent' /\ RefusedForReason'
  BY DEF IInv, FrameAsSent, RefusedForReason, Deviant
<1> QED
  BY <1>1, <1>2, <1>3, <1>4 DEF IInv

LEMMA InvStep == IInv /\ [Next]_vars => IInv'
<1> SUFFICES ASSUME IInv, [Next]_vars PROVE IInv'
  OBVIOUS
<1>1. CASE SendFrame
  BY <1>1, SendStep
<1>2. CASE ServerSends
  BY <1>2, ServeStep
<1>3. CASE RecvnFails
  BY <1>3, RecvnFailsStep
<1>4. CASE RecvHeader
  BY <1>4, HeaderStep
<1>5. CASE RecvLen16
  BY <1>5, Len16Step
<1>6. CASE RecvLen64
  BY <1>6, Len64Step
<1>7. CASE RecvBody
  BY <1>7, BodyStep
<1>8. CASE UNCHANGED vars
  BY <1>8, Stutter
<1> QED
  BY <1>1, <1>2, <1>3, <1>4, <1>5, <1>6, <1>7, <1>8 DEF Next

-----------------------------------------------------------------------------
(* The theorems.                                                            *)

\* Whatever the base of the digits, the size of the receive buffer, the length
\* of the payload and the mask: between two reads of ws_recv_any_frame() the
\* wire holds just the part of the server's frame that the next one is for.
THEOREM FrameInvariant == Spec => []IInv
<1>1. Init => IInv
  BY InvInit
<1>2. IInv /\ [Next]_vars => IInv'
  BY InvStep
<1> QED
  BY <1>1, <1>2, PTL DEF Spec

\* The values keep their types, and ws_recv_any_frame() writes no byte outside
\* the caller's buffer.
THEOREM TypeCorrect == Spec => []TypeOK
<1>1. IInv => TypeOK
  BY DEF IInv
<1> QED
  BY <1>1, FrameInvariant, PTL

\* Read as RFC6455 says, what ws_prepare_frame() and ws_send_frame() put on the
\* wire is the frame that was meant, of any length and under any mask; if the
\* transfer breaks off, it is no frame at all.
THEOREM ServerReadsFrames == Spec => []ServerSeesFrame
<1>1. IInv => ServerSeesFrame
  BY DEF IInv
<1> QED
  BY <1>1, FrameInvariant, PTL

\* A frame that ws_recv_any_frame() hands up is the one the server sent, in any
\* encoding of its length; nothing of it is left on the wire.
THEOREM FramesAsSent == Spec => []FrameAsSent
<1>1. IInv => FrameAsSent
  BY DEF IInv
<1> QED
  BY <1>1, FrameInvariant, PTL

\* One that it refuses breaks the RFC, does not fit in the buffer or was cut.
THEOREM RefusalsForReason == Spec => []RefusedForReason
<1>1. IInv => RefusedForReason
  BY DEF IInv
<1> QED
  BY <1>1, FrameInvariant, PTL

=============================================================================
