----------------------------- MODULE ReceiveProofs -----------------------------
(***************************************************************************)
(* What is received is what was sent, for every size of the buffers, every *)
(* base and number of digits of the remaining length, and packets of any   *)
(* length in pieces of any size.                                           *)
(*                                                                         *)
(* The first part is about the encoding: a fixed header that is whole is   *)
(* read as it was written, and one that is cut off is never mistaken for   *)
(* another.  The second is about the bytes that were sent and not handled  *)
(* yet: they lie in the buffer and in the socket, in order, a packet       *)
(* beginning at the cursor.                                                *)
(***************************************************************************)
EXTENDS Receive, WellFoundedInduction, TLAPS

-------------------------------------------------------------------------------
(* Encoding and decoding.                                                      *)

(* A set of natural numbers that is not empty has a least element.             *)
LEMMA MinLemma ==
  ASSUME NEW S, S \subseteq Nat, S # {}
  PROVE  Min(S) \in S /\ \A j \in S : Min(S) <= j
<1> DEFINE R == OpToRel(<, Nat)
<1>1. IsWellFoundedOn(R, Nat)
  BY NatLessThanWellFounded
<1>2. \A x, y \in Nat : x < y => <<x, y>> \in R
  BY DEF OpToRel
<1> HIDE DEF R
<1>3. PICK m \in S : \A y \in S : ~ (<<y, m>> \in R)
  BY <1>1, WFMin
<1>4. \A x \in S : ~ (x < m)
  BY <1>2, <1>3
<1>5. \E k \in S : \A j \in S : k <= j
  BY <1>4
<1> QED
  BY <1>5 DEF Min

LEMMA DivLemma ==
  ASSUME NEW a \in Nat, NEW b \in Nat \ {0}
  PROVE  a \div b \in Nat /\ a % b \in 0 .. b - 1 /\ a = (b * (a \div b)) + (a % b)
OBVIOUS

(* A sequence of n steps exists, whatever the step.                            *)
IsStep(step, n, T) == step \in [(1 .. n) \X T -> T]
Steps(f, t0, n, step, T) ==
  /\ f \in [0 .. n -> T]
  /\ f[0] = t0
  /\ \A k \in 1 .. n : f[k] = step[<<k, f[k - 1]>>]

LEMMA StepsExist ==
  ASSUME NEW T, NEW t0 \in T, NEW n \in Nat, NEW step, IsStep(step, n, T)
  PROVE  \E f : Steps(f, t0, n, step, T)
<1> DEFINE Prefix(g, m) ==
             /\ g \in [0 .. m -> T]
             /\ g[0] = t0
             /\ \A k \in 1 .. m : g[k] = step[<<k, g[k - 1]>>]
           S == {m \in 0 .. n : ~\E g : Prefix(g, m)}
<1>1. S = {}
  <2> SUFFICES ASSUME S # {} PROVE FALSE
    OBVIOUS
  <2>1. PICK m \in S : \A j \in S : m <= j
    <3>1. S \subseteq Nat
      OBVIOUS
    <3> HIDE DEF S
    <3> QED
      BY <3>1, MinLemma
  <2>2. m # 0
    <3>1. Prefix([k \in 0 .. 0 |-> t0], 0)
      OBVIOUS
    <3> HIDE DEF Prefix
    <3> QED
      BY <3>1
  <2>3. m \in 1 .. n /\ m - 1 \in 0 .. n /\ m - 1 \notin S
    <3>1. m \in 1 .. n /\ m - 1 \in 0 .. n
      BY <2>1, <2>2
    <3> HIDE DEF S
    <3> QED
      BY <2>1, <3>1
  <2>4. PICK g : Prefix(g, m - 1)
    BY <2>3
  <2> DEFINE next == step[<<m, g[m - 1]>>]
             g2 == [k \in 0 .. m |-> IF k = m THEN next ELSE g[k]]
  <2>5. next \in T
    BY <2>3, <2>4 DEF IsStep
  <2>6. /\ g2 \in [0 .. m -> T] /\ g2[m] = next
        /\ \A k \in 0 .. m - 1 : g2[k] = g[k]
    BY <2>3, <2>4, <2>5
  <2>7. Prefix(g2, m)
    <3>1. g2[0] = t0
      BY <2>3, <2>4, <2>6
    <3>2. ASSUME NEW k \in 1 .. m
          PROVE  g2[k] = step[<<k, g2[k - 1]>>]
      <4>1. k - 1 \in 0 .. m - 1 /\ g2[k - 1] = g[k - 1]
        BY <2>3, <2>6
      <4>2. CASE k = m
        BY <2>6, <4>1, <4>2
      <4>3. CASE k # m
        <5>1. k \in 1 .. m - 1 /\ k \in 0 .. m - 1
          BY <2>3, <4>3
        <5> QED
          BY <2>4, <2>6, <4>1, <5>1
      <4> QED
        BY <4>2, <4>3
    <3> HIDE DEF g2
    <3> QED
      BY <2>6, <3>1, <3>2
  <2> HIDE DEF Prefix, g2
  <2> QED
    BY <2>1, <2>7
<1>2. n \notin S
  BY <1>1
<1> QED
  BY <1>2 DEF Steps

(* What the encoder's loop leaves of a length. *)
Rests(f, len) ==
  f = [k \in 0 .. VbiMaxBytes + 1 |-> IF k = 0 THEN len ELSE f[k - 1] \div VbiBase]

LEMMA RestLemma ==
  ASSUME NEW len \in Nat
  PROVE  /\ Rest(len) \in [0 .. VbiMaxBytes + 1 -> Nat] /\ Rest(len)[0] = len
         /\ \A k \in 1 .. VbiMaxBytes + 1 : Rest(len)[k] = Rest(len)[k - 1] \div VbiBase
<1> DEFINE n == VbiMaxBytes + 1
           step == [x \in (1 .. n) \X Nat |-> x[2] \div VbiBase]
<1>1. n \in Nat /\ VbiBase \in Nat \ {0}
  BY VbiAssumption
<1>2. IsStep(step, n, Nat)
  BY <1>1, DivLemma DEF IsStep
<1>3. \A k \in 1 .. n, r \in Nat : step[<<k, r>>] = r \div VbiBase
  OBVIOUS
<1> HIDE DEF step, n
<1>4. PICK f : Steps(f, len, n, step, Nat)
  BY <1>1, <1>2, StepsExist
<1>5. \A k \in 0 .. n : f[k] = IF k = 0 THEN len ELSE f[k - 1] \div VbiBase
  <2> SUFFICES ASSUME NEW k \in 0 .. n, k # 0 PROVE f[k] = f[k - 1] \div VbiBase
    BY <1>4 DEF Steps
  <2>1. k \in 1 .. n /\ f[k - 1] \in Nat
    BY <1>1, <1>4 DEF Steps
  <2> QED
    BY <1>3, <1>4, <2>1 DEF Steps
<1>6. Rests(f, len)
  BY <1>4, <1>5 DEF Steps, Rests, n
<1> DEFINE u == CHOOSE g : Rests(g, len)
<1>7. Rests(u, len)
  BY <1>6
<1>8. Rest(len) = u
  BY DEF Rest, Rests
<1> HIDE DEF u
<1>9. \A k \in 0 .. n : u[k] = IF k = 0 THEN len ELSE u[k - 1] \div VbiBase
  BY <1>7 DEF Rests, n
<1>10. \A k \in 1 .. n : u[k] = u[k - 1] \div VbiBase
  BY <1>1, <1>9
<1>11. u[0] = len
  BY <1>1, <1>9
<1> DEFINE Bad == {k \in 0 .. n : u[k] \notin Nat}
<1>12. Bad = {}
  <2> SUFFICES ASSUME Bad # {} PROVE FALSE
    OBVIOUS
  <2>1. PICK k \in Bad : \A j \in Bad : k <= j
    <3>1. Bad \subseteq Nat
      BY <1>1
    <3> HIDE DEF Bad
    <3> QED
      BY <3>1, MinLemma
  <2>2. k \in 1 .. n
    BY <1>1, <1>11, <2>1
  <2>3. u[k - 1] \in Nat
    BY <1>1, <2>1, <2>2
  <2>4. u[k - 1] \div VbiBase \in Nat
    BY <1>1, <2>3, DivLemma
  <2> QED
    BY <1>10, <2>1, <2>2, <2>4
<1>13. u \in [0 .. n -> Nat]
  <2>1. u = [k \in 0 .. n |-> u[k]]
    <3>1. u = [k \in 0 .. n |-> IF k = 0 THEN len ELSE u[k - 1] \div VbiBase]
      BY <1>7 DEF Rests, n
    <3> QED
      BY <1>9, <3>1
  <2> QED
    BY <1>12, <2>1
<1> QED
  BY <1>8, <1>10, <1>11, <1>13 DEF n

(* The decoder's loop. *)
Sums == [value : Nat, multiplier : Nat]
Summing(f, at, n) ==
  f = [k \in 0 .. n |-> IF k = 0 THEN [value |-> 0, multiplier |-> 1]
                        ELSE DigitAdded(f[k - 1], at[k].value)]

LEMMA DigitAddedLemma ==
  ASSUME NEW sum \in Sums, NEW digit \in Nat
  PROVE  /\ DigitAdded(sum, digit) \in Sums
         /\ DigitAdded(sum, digit).value = sum.value + digit * sum.multiplier
         /\ DigitAdded(sum, digit).multiplier = sum.multiplier * VbiBase
BY VbiAssumption DEF DigitAdded, Sums

(* The digits that an encoder wrote add up to the length it wrote them for.    *)
LEMMA DecodedLemma ==
  ASSUME NEW len \in Nat, NEW n \in 1 .. VbiMaxBytes + 1, NEW at,
         \A k \in 1 .. n : at[k].value = Rest(len)[k - 1] % VbiBase, Rest(len)[n] = 0
  PROVE  Decoded(at, n) = len
<1> DEFINE r == Rest(len)
           zero == [value |-> 0, multiplier |-> 1]
           step == [x \in (1 .. n) \X Sums |-> DigitAdded(x[2], at[x[1]].value)]
<1>1. n \in Nat /\ VbiBase \in Nat \ {0} /\ VbiMaxBytes \in Nat
  BY VbiAssumption
<1>2. r[0] = len /\ r[n] = 0 /\ r \in [0 .. VbiMaxBytes + 1 -> Nat]
      /\ \A k \in 1 .. n : r[k] = r[k - 1] \div VbiBase
  <2>1. \A k \in 1 .. n : k \in 1 .. VbiMaxBytes + 1
    BY <1>1
  <2>2. r[0] = len /\ r[n] = 0 /\ r \in [0 .. VbiMaxBytes + 1 -> Nat]
        /\ \A k \in 1 .. VbiMaxBytes + 1 : r[k] = r[k - 1] \div VbiBase
    BY RestLemma
  <2> HIDE DEF r
  <2> QED
    BY <2>1, <2>2
<1> HIDE DEF r
<1>3. ASSUME NEW k \in 1 .. n
      PROVE  /\ r[k - 1] \in Nat /\ r[k] \in Nat /\ at[k].value \in Nat
             /\ r[k - 1] = (VbiBase * r[k]) + at[k].value
  <2>1. r[k - 1] \in Nat
    BY <1>1, <1>2
  <2>2. at[k].value = r[k - 1] % VbiBase
    BY DEF r
  <2>3. r[k - 1] \div VbiBase \in Nat /\ r[k - 1] % VbiBase \in Nat
        /\ r[k - 1] = (VbiBase * (r[k - 1] \div VbiBase)) + (r[k - 1] % VbiBase)
    <3>1. /\ r[k - 1] \div VbiBase \in Nat /\ r[k - 1] % VbiBase \in 0 .. VbiBase - 1
          /\ r[k - 1] = (VbiBase * (r[k - 1] \div VbiBase)) + (r[k - 1] % VbiBase)
      BY <1>1, <2>1, DivLemma
    <3> QED
      BY <1>1, <3>1
  <2>4. r[k] = r[k - 1] \div VbiBase
    BY <1>2
  <2> QED
    BY <2>1, <2>2, <2>3, <2>4
<1>4. zero \in Sums
  BY DEF Sums
<1>5. IsStep(step, n, Sums)
  BY <1>3, DigitAddedLemma DEF IsStep
<1>6. \A k \in 1 .. n, s \in Sums : step[<<k, s>>] = DigitAdded(s, at[k].value)
  OBVIOUS
<1> HIDE DEF step
<1>7. PICK f : Steps(f, zero, n, step, Sums)
  BY <1>1, <1>4, <1>5, StepsExist
<1>8. \A k \in 0 .. n : f[k] = IF k = 0 THEN zero ELSE DigitAdded(f[k - 1], at[k].value)
  <2> SUFFICES ASSUME NEW k \in 0 .. n, k # 0 PROVE f[k] = DigitAdded(f[k - 1], at[k].value)
    BY <1>7 DEF Steps
  <2>1. k \in 1 .. n /\ f[k - 1] \in Sums
    BY <1>1, <1>7 DEF Steps
  <2> QED
    BY <1>6, <1>7, <2>1 DEF Steps
<1>9. Summing(f, at, n)
  BY <1>7, <1>8 DEF Steps, Summing
<1> DEFINE u == CHOOSE g : Summing(g, at, n)
<1>10. Summing(u, at, n)
  BY <1>9
<1>11. Decoded(at, n) = u[n].value
  BY DEF Decoded, Summing
<1> HIDE DEF u
<1>12. \A k \in 0 .. n : u[k] = IF k = 0 THEN zero ELSE DigitAdded(u[k - 1], at[k].value)
  BY <1>10 DEF Summing
<1> DEFINE Good(k) == u[k] \in Sums /\ u[k].value + (r[k] * u[k].multiplier) = len
           Bad == {k \in 0 .. n : ~Good(k)}
<1>13. Good(0)
  <2>1. u[0] = zero
    BY <1>1, <1>12
  <2> QED
    BY <1>2, <1>4, <2>1
<1>14. ASSUME NEW k \in 1 .. n, Good(k - 1) PROVE Good(k)
  <2> DEFINE d == at[k].value
             m == u[k - 1].multiplier
             v == u[k - 1].value
  <2>1. u[k] = DigitAdded(u[k - 1], d)
    BY <1>1, <1>12
  <2>2. u[k] \in Sums /\ u[k].value = v + d * m /\ u[k].multiplier = m * VbiBase
    <3>1. u[k - 1] \in Sums /\ d \in Nat
      BY <1>3, <1>14
    <3> HIDE DEF d
    <3>2. /\ DigitAdded(u[k - 1], d) \in Sums
          /\ DigitAdded(u[k - 1], d).value = v + d * m
          /\ DigitAdded(u[k - 1], d).multiplier = m * VbiBase
      BY <3>1, DigitAddedLemma
    <3> QED
      BY <2>1, <3>2
  <2>3. m \in Nat /\ v \in Nat /\ d \in Nat /\ r[k] \in Nat /\ r[k - 1] = (VbiBase * r[k]) + d
    BY <1>3, <1>14 DEF Sums
  <2>4. v + (r[k - 1] * m) = len
    BY <1>14
  <2> HIDE DEF d, m, v
  <2>5. (v + d * m) + (r[k] * (m * VbiBase)) = v + (((VbiBase * r[k]) + d) * m)
    BY <1>1, <2>3
  <2> QED
    BY <2>2, <2>3, <2>4, <2>5
<1> HIDE DEF Good
<1>15. Bad = {}
  <2> SUFFICES ASSUME Bad # {} PROVE FALSE
    OBVIOUS
  <2>1. PICK k \in Bad : \A j \in Bad : k <= j
    <3>1. Bad \subseteq Nat
      BY <1>1
    <3> HIDE DEF Bad
    <3> QED
      BY <3>1, MinLemma
  <2>2. k \in 1 .. n /\ k - 1 \in 0 .. n
    BY <1>1, <1>13, <2>1
  <2>3. Good(k - 1)
    BY <2>1, <2>2
  <2> QED
    BY <1>14, <2>1, <2>2, <2>3
<1>16. Good(n)
  BY <1>1, <1>15
<1>17. u[n] \in Sums /\ u[n].value + (0 * u[n].multiplier) = len
  BY <1>2, <1>16 DEF Good
<1> QED
  BY <1>11, <1>17 DEF Sums

(* How many digits there are, and which of them is the last. *)
LEMMA VbiLenLemma ==
  ASSUME NEW len \in Nat
  PROVE  /\ VbiLen(len) \in 1 .. VbiMaxBytes + 1
         /\ TooLong(len) <=> VbiLen(len) = VbiMaxBytes + 1
         /\ \A k \in 1 .. VbiLen(len) - 1 : Rest(len)[k] # 0
         /\ ~TooLong(len) => Rest(len)[VbiLen(len)] = 0
<1> DEFINE ends == {k \in 1 .. VbiMaxBytes : Rest(len)[k] = 0}
<1>1. VbiMaxBytes \in Nat /\ ends \subseteq Nat
  BY VbiAssumption
<1>2. VbiLen(len) = IF ends = {} THEN VbiMaxBytes + 1 ELSE Min(ends)
  BY DEF VbiLen
<1>3. CASE ends = {}
  BY <1>1, <1>2, <1>3 DEF TooLong
<1>4. CASE ends # {}
  <2>1. Min(ends) \in ends /\ \A j \in ends : Min(ends) <= j
    BY <1>1, <1>4, MinLemma
  <2> DEFINE m == Min(ends)
  <2>2. VbiLen(len) = m /\ m \in 1 .. VbiMaxBytes /\ Rest(len)[m] = 0
    BY <1>2, <1>4, <2>1
  <2>3. \A k \in 1 .. m - 1 : k \notin ends
    BY <1>1, <2>1
  <2> HIDE DEF m
  <2>4. \A k \in 1 .. m - 1 : Rest(len)[k] # 0
    BY <1>1, <2>2, <2>3
  <2> QED
    BY <1>1, <2>2, <2>4 DEF TooLong
<1> QED
  BY <1>3, <1>4

-------------------------------------------------------------------------------
(* The bytes of a packet.                                                      *)

PacketTypes == [type : Types, len : Nat]

LEMMA ConcatLemma ==
  ASSUME NEW S, NEW s \in Seq(S), NEW t \in Seq(S)
  PROVE  /\ s \o t \in Seq(S) /\ Len(s \o t) = Len(s) + Len(t)
         /\ \A k \in 1 .. Len(s) : (s \o t)[k] = s[k]
         /\ \A k \in 1 .. Len(t) : (s \o t)[Len(s) + k] = t[k]
OBVIOUS

(* The bytes a sequence begins with, if it has so many, are the header of p.   *)
BeginsWith(bytes, p) ==
  /\ bytes[1].type = p.type
  /\ \A k \in 1 .. VbiLen(p.len) : /\ bytes[k + 1].value = Rest(p.len)[k - 1] % VbiBase
                                   /\ bytes[k + 1].more = (Rest(p.len)[k] # 0)

LEMMA ByteLemma ==
  ASSUME NEW i \in 0 .. MaxPackets
  PROVE  /\ [Blank EXCEPT !.of = i] \in Byte
         /\ \A type \in Types : /\ [Blank EXCEPT !.type = type, !.of = i] \in Byte
                               /\ [Blank EXCEPT !.type = type, !.of = i].type = type
<1>1. 0 \in 0 .. VbiBase - 1
  BY VbiAssumption
<1> QED
  BY <1>1 DEF Byte, Blank

LEMMA HeaderLemma ==
  ASSUME NEW p \in PacketTypes, NEW i \in 0 .. MaxPackets
  PROVE  /\ EncodeFixedHeader(p, i) \in Seq(Byte)
         /\ Len(EncodeFixedHeader(p, i)) = 1 + VbiLen(p.len)
         /\ BeginsWith(EncodeFixedHeader(p, i), p)
<1> DEFINE n == VbiLen(p.len)
           b == [Blank EXCEPT !.type = p.type, !.of = i]
           d(k) == [Blank EXCEPT !.value = Rest(p.len)[k - 1] % VbiBase,
                                 !.more = Rest(p.len)[k] # 0, !.of = i]
           digits == [k \in 1 .. n |-> d(k)]
           first == <<b>>
<1>1. n \in 1 .. VbiMaxBytes + 1 /\ VbiMaxBytes \in Nat /\ VbiBase \in Nat \ {0} /\ n \in Nat
  BY VbiAssumption, VbiLenLemma DEF PacketTypes
<1>2. p.type \in Types /\ p.len \in Nat
  BY DEF PacketTypes
<1>3. \A k \in 1 .. n : Rest(p.len)[k - 1] % VbiBase \in 0 .. VbiBase - 1
  <2> SUFFICES ASSUME NEW k \in 1 .. n PROVE Rest(p.len)[k - 1] % VbiBase \in 0 .. VbiBase - 1
    OBVIOUS
  <2>1. Rest(p.len)[k - 1] \in Nat
    <3>1. k - 1 \in 0 .. VbiMaxBytes + 1
      BY <1>1
    <3>2. Rest(p.len) \in [0 .. VbiMaxBytes + 1 -> Nat]
      BY <1>2, RestLemma
    <3> QED
      BY <3>1, <3>2
  <2> QED
    BY <1>1, <2>1, DivLemma
<1>4. b \in Byte /\ b.type = p.type
  BY <1>2, ByteLemma
<1>5. \A k \in 1 .. n : /\ d(k) \in Byte /\ d(k).value = Rest(p.len)[k - 1] % VbiBase
                        /\ d(k).more = (Rest(p.len)[k] # 0)
  BY <1>1, <1>3 DEF Byte, Blank
<1> HIDE DEF d, b
<1>6. digits \in Seq(Byte) /\ Len(digits) = n /\ \A k \in 1 .. n : digits[k] = d(k)
  BY <1>1, <1>5
<1>7. first \in Seq(Byte) /\ Len(first) = 1 /\ first[1] = b
  BY <1>4
<1>8. EncodeFixedHeader(p, i) = first \o digits
  BY DEF EncodeFixedHeader, b, d
<1> HIDE DEF first, digits, n
<1>9. /\ first \o digits \in Seq(Byte) /\ Len(first \o digits) = 1 + n
      /\ (first \o digits)[1] = b
      /\ \A k \in 1 .. n : (first \o digits)[1 + k] = d(k)
  <2>1. /\ first \o digits \in Seq(Byte) /\ Len(first \o digits) = Len(first) + Len(digits)
        /\ \A k \in 1 .. Len(first) : (first \o digits)[k] = first[k]
        /\ \A k \in 1 .. Len(digits) : (first \o digits)[Len(first) + k] = digits[k]
    <3>1. first \in Seq(Byte) /\ digits \in Seq(Byte)
      BY <1>6, <1>7
    <3> QED
      BY <3>1, ConcatLemma
  <2>2. 1 \in 1 .. 1
    OBVIOUS
  <2> QED
    BY <1>6, <1>7, <2>1, <2>2
<1>10. \A k \in 1 .. n : (first \o digits)[k + 1] = d(k)
  <2>1. \A k \in 1 .. n : k + 1 = 1 + k
    BY <1>1
  <2> QED
    BY <1>9, <2>1
<1> QED
  BY <1>4, <1>5, <1>8, <1>9, <1>10 DEF BeginsWith, n

LEMMA EncodeLemma ==
  ASSUME NEW p \in PacketTypes, NEW i \in 0 .. MaxPackets
  PROVE  /\ Encode(p, i) \in Seq(Byte)
         /\ Len(Encode(p, i)) = 1 + VbiLen(p.len) + p.len
         /\ BeginsWith(Encode(p, i), p)
<1> DEFINE h == EncodeFixedHeader(p, i)
           b == [Blank EXCEPT !.of = i]
           body == [k \in 1 .. p.len |-> b]
           n == VbiLen(p.len)
<1>1. n \in Nat /\ n >= 1 /\ p.len \in Nat
  BY VbiAssumption, VbiLenLemma DEF PacketTypes
<1>2. b \in Byte
  BY ByteLemma
<1> HIDE DEF b
<1>3. body \in Seq(Byte) /\ Len(body) = p.len
  BY <1>1, <1>2
<1>4. h \in Seq(Byte) /\ Len(h) = 1 + n /\ BeginsWith(h, p)
  BY HeaderLemma
<1>5. Encode(p, i) = h \o body
  BY DEF Encode, b
<1> HIDE DEF h, body
<1>6. /\ h \o body \in Seq(Byte) /\ Len(h \o body) = 1 + n + p.len
      /\ \A k \in 1 .. 1 + n : (h \o body)[k] = h[k]
  <2>1. /\ h \o body \in Seq(Byte) /\ Len(h \o body) = Len(h) + Len(body)
        /\ \A k \in 1 .. Len(h) : (h \o body)[k] = h[k]
    BY <1>3, <1>4, ConcatLemma
  <2> QED
    BY <1>3, <1>4, <2>1
<1>7. BeginsWith(h \o body, p)
  <2>1. 1 \in 1 .. 1 + n /\ \A k \in 1 .. n : k + 1 \in 1 .. 1 + n
    BY <1>1
  <2> QED
    BY <1>4, <1>6, <2>1 DEF BeginsWith
<1> QED
  BY <1>5, <1>6, <1>7

LEMMA OnWireLemma ==
  ASSUME NEW p \in PacketTypes, NEW i \in 0 .. MaxPackets
  PROVE  /\ OnWire(p, i) \in Seq(Byte) /\ BeginsWith(OnWire(p, i), p)
         /\ Len(OnWire(p, i)) = 1 + VbiLen(p.len) + (IF TooLong(p.len) THEN 0 ELSE p.len)
         /\ TotalLen(p) = 1 + VbiLen(p.len) + p.len
<1>1. p.len \in Nat /\ VbiLen(p.len) \in Nat
  BY VbiAssumption, VbiLenLemma DEF PacketTypes
<1>2. 0 \in 0 .. MaxPackets
  BY PacketsAssumption
<1> QED
  BY <1>1, <1>2, HeaderLemma, EncodeLemma DEF OnWire, TotalLen

LEMMA TotalNat ==
  ASSUME NEW p \in PacketTypes
  PROVE  TotalLen(p) \in Nat
<1>1. p.len \in Nat /\ VbiLen(p.len) \in Nat /\ 0 \in 0 .. MaxPackets
  BY VbiAssumption, VbiLenLemma, PacketsAssumption DEF PacketTypes
<1>2. TotalLen(p) = 1 + VbiLen(p.len) + p.len
  BY <1>1, OnWireLemma
<1> QED
  BY <1>1, <1>2

-------------------------------------------------------------------------------
(* Framing.                                                                    *)

(* The len bytes at[0], at[1], ... start with packet p, as far as they go.     *)
Starts(at, len, p, i) ==
  \A k \in 0 .. len - 1 : k < Len(OnWire(p, i)) => at[k] = OnWire(p, i)[k + 1]

(* The header r that was read is that of p. *)
ReadOf(r, p) ==
  /\ r.result \in {"OK", "INCOMPLETE", "MALFORMED"}
  /\ r.result = "OK" => /\ ~TooLong(p.len) /\ r.type = p.type
                        /\ r.header_len = 1 + VbiLen(p.len) /\ r.remaining_len = p.len
  /\ r.result = "MALFORMED" => TooLong(p.len)

LEMMA FixedHeaderLemma ==
  ASSUME NEW p \in PacketTypes, NEW i \in 0 .. MaxPackets, NEW len \in Nat, NEW at,
         Starts(at, len, p, i)
  PROVE  /\ ReadOf(FixedHeader(at, len), p)
         /\ FixedHeader(at, len).result = "INCOMPLETE" =>
              TooLong(p.len) \/ len < 1 + VbiLen(p.len)
<1> DEFINE n == VbiLen(p.len)
           w == OnWire(p, i)
           ends == {k \in 1 .. len - 1 : k <= VbiMaxBytes /\ ~at[k].more}
           r == FixedHeader(at, len)
<1>1. /\ VbiMaxBytes \in Nat \ {0} /\ n \in 1 .. VbiMaxBytes + 1 /\ p.len \in Nat
      /\ (TooLong(p.len) <=> n = VbiMaxBytes + 1)
      /\ (\A k \in 1 .. n - 1 : Rest(p.len)[k] # 0)
      /\ (~TooLong(p.len) => Rest(p.len)[n] = 0)
  BY VbiAssumption, VbiLenLemma DEF PacketTypes
<1>2. BeginsWith(w, p) /\ Len(w) \in Nat /\ Len(w) >= 1 + n
  BY <1>1, OnWireLemma
<1> HIDE DEF w
<1>3. \A k \in 0 .. len - 1 : k <= n => at[k] = w[k + 1]
  BY <1>1, <1>2 DEF Starts, w
<1>4. \A k \in 1 .. len - 1 : k <= n => /\ at[k].value = Rest(p.len)[k - 1] % VbiBase
                                       /\ at[k].more = (Rest(p.len)[k] # 0)
  <2> SUFFICES ASSUME NEW k \in 1 .. len - 1, k <= n
               PROVE  /\ at[k].value = Rest(p.len)[k - 1] % VbiBase
                      /\ at[k].more = (Rest(p.len)[k] # 0)
    OBVIOUS
  <2>1. k \in 1 .. n /\ k \in 0 .. len - 1
    BY <1>1
  <2> QED
    BY <1>2, <1>3, <2>1 DEF BeginsWith
<1>9. ASSUME n \in 1 .. len - 1, ~TooLong(p.len) PROVE ~at[n].more
  <2>1. at[n].more = (Rest(p.len)[n] # 0)
    BY <1>1, <1>4, <1>9
  <2>2. Rest(p.len)[n] = 0
    BY <1>1, <1>9
  <2> QED
    BY <2>1, <2>2
<1> HIDE DEF n
<1>5. \A k \in ends : k >= n /\ k \in Nat
  <2> SUFFICES ASSUME NEW k \in ends, k < n PROVE FALSE
    BY <1>1
  <2>1. k \in 1 .. n - 1 /\ k \in 1 .. len - 1 /\ k <= n /\ ~at[k].more
    BY <1>1
  <2> QED
    BY <1>1, <1>4, <2>1
<1>6. CASE len < 2
  <2>1. r = [result |-> "INCOMPLETE"]
    BY <1>6 DEF FixedHeader
  <2>2. r.result = "INCOMPLETE"
    BY <2>1
  <2> HIDE DEF r
  <2> QED
    BY <1>1, <1>6, <2>2 DEF ReadOf, r, n
<1>7. CASE len >= 2 /\ ends = {}
  <2>1. r = [result |-> IF len > VbiMaxBytes + 1 THEN "MALFORMED" ELSE "INCOMPLETE"]
    BY <1>7 DEF FixedHeader
  <2>2. r.result = IF len > VbiMaxBytes + 1 THEN "MALFORMED" ELSE "INCOMPLETE"
    BY <2>1
  <2>3. TooLong(p.len) \/ len < 1 + n
    <3> SUFFICES ASSUME ~TooLong(p.len), len >= 1 + n PROVE FALSE
      BY <1>1
    <3>1. n \in 1 .. len - 1 /\ n <= VbiMaxBytes /\ n <= n
      BY <1>1
    <3>2. ~at[n].more
      BY <1>9, <3>1
    <3>3. n \in ends
      BY <3>1, <3>2
    <3> QED
      BY <1>7, <3>3
  <2>4. len > VbiMaxBytes + 1 => TooLong(p.len)
    BY <1>1, <2>3
  <2> HIDE DEF r
  <2> QED
    BY <2>2, <2>3, <2>4 DEF ReadOf, r, n
<1>8. CASE len >= 2 /\ ends # {}
  <2>1. r = [result |-> "OK", header_len |-> Min(ends) + 1, type |-> at[0].type,
             remaining_len |-> Decoded(at, Min(ends))]
    BY <1>8 DEF FixedHeader
  <2>2. Min(ends) \in ends /\ \A j \in ends : Min(ends) <= j
    <3>1. ends \subseteq Nat
      BY <1>5
    <3> HIDE DEF ends
    <3> QED
      BY <1>8, <3>1, MinLemma
  <2> DEFINE m == Min(ends)
  <2>3. m \in 1 .. len - 1 /\ m <= VbiMaxBytes /\ m >= n
    BY <1>5, <2>2
  <2> HIDE DEF m
  <2>4. ~TooLong(p.len) /\ n <= VbiMaxBytes /\ n \in 1 .. len - 1
    BY <1>1, <2>3
  <2>5. n \in ends
    <3>1. ~at[n].more
      BY <1>9, <2>4
    <3> QED
      BY <2>4, <3>1
  <2>6. m = n
    <3>1. m <= n
      BY <2>2, <2>5 DEF m
    <3> QED
      BY <1>1, <2>3, <3>1
  <2>7. Decoded(at, n) = p.len
    <3>1. \A k \in 1 .. n : at[k].value = Rest(p.len)[k - 1] % VbiBase
      BY <1>1, <1>4, <2>4
    <3> QED
      BY <1>1, <2>4, <3>1, DecodedLemma
  <2>8. at[0].type = p.type
    <3>1. at[0] = w[1]
      BY <1>1, <1>3, <1>8
    <3> QED
      BY <1>2, <3>1 DEF BeginsWith
  <2>9. r = [result |-> "OK", header_len |-> n + 1, type |-> at[0].type,
             remaining_len |-> Decoded(at, n)]
    BY <2>1, <2>6 DEF m
  <2>10. r.result = "OK" /\ r.header_len = 1 + n /\ r.type = p.type /\ r.remaining_len = p.len
    BY <1>1, <2>7, <2>8, <2>9
  <2> HIDE DEF r
  <2> QED
    BY <2>4, <2>10 DEF ReadOf, r, n
<1> QED
  BY <1>6, <1>7, <1>8

(* A packet of two bytes of body needs one digit. *)
LEMMA TwoLemma ==
  ASSUME NEW len \in Nat, Rest(len)[0] % VbiBase = 2, Rest(len)[1] = 0
  PROVE  len = 2 /\ VbiLen(len) = 1 /\ ~TooLong(len)
<1>1. 1 \in 1 .. VbiMaxBytes + 1 /\ VbiBase \in Nat \ {0} /\ VbiMaxBytes \in Nat \ {0}
  BY VbiAssumption
<1>2. Rest(len)[0] = len /\ Rest(len)[1] = Rest(len)[0] \div VbiBase
  <2>1. Rest(len)[0] = len /\ Rest(len)[1] = Rest(len)[1 - 1] \div VbiBase
    BY <1>1, RestLemma
  <2>2. 1 - 1 = 0
    OBVIOUS
  <2> QED
    BY <2>1, <2>2
<1>3. len = (VbiBase * (len \div VbiBase)) + (len % VbiBase)
  BY <1>1, DivLemma
<1>4. len = (VbiBase * 0) + 2
  BY <1>2, <1>3
<1>5. VbiLen(len) = 1
  <2>1. VbiLen(len) \in 1 .. VbiMaxBytes + 1 /\ \A k \in 1 .. VbiLen(len) - 1 : Rest(len)[k] # 0
    BY VbiLenLemma
  <2>2. 1 \notin 1 .. VbiLen(len) - 1
    BY <2>1
  <2> QED
    BY <1>1, <2>1, <2>2
<1> QED
  BY <1>1, <1>4, <1>5 DEF TooLong

(* What process_recv_buffer finds at the front of the data. *)
LEMMA FrontLemma ==
  ASSUME NEW cl, cl.len \in Nat \ {0}, NEW p \in PacketTypes, NEW i \in 0 .. MaxPackets,
         Starts(Data(cl), cl.len, p, i)
  PROVE  /\ ReadOf(Front(cl), p)
         /\ Front(cl).result = "OK" => TotalLen(p) <= cl.len
         /\ Front(cl).result = "INCOMPLETE" => TooLong(p.len) \/ cl.len < TotalLen(p)
<1> DEFINE r == Front(cl)
           at == Data(cl)
           f == FixedHeader(at, cl.len)
           w == OnWire(p, i)
<1>1. /\ TotalLen(p) = 1 + VbiLen(p.len) + p.len /\ p.len \in Nat
      /\ VbiLen(p.len) \in 1 .. VbiMaxBytes + 1 /\ VbiMaxBytes \in Nat \ {0}
      /\ VbiLen(p.len) \in Nat
  BY VbiAssumption, VbiLenLemma, OnWireLemma DEF PacketTypes
<1>2. CASE FastPath(cl)
  <2>1. r = [result |-> "OK", type |-> "ACK", header_len |-> 2, remaining_len |-> 2]
    BY <1>2 DEF Front
  <2>2. r.result = "OK" /\ r.type = "ACK" /\ r.header_len = 2 /\ r.remaining_len = 2
    BY <2>1
  <2>3. cl.len >= 4 /\ at[0].type = "ACK" /\ at[1].value = 2 /\ ~at[1].more
    BY <1>2 DEF FastPath
  <2> HIDE DEF at, r
  <2>4. BeginsWith(w, p) /\ Len(w) \in Nat /\ Len(w) >= 1 + VbiLen(p.len)
    BY <1>1, OnWireLemma
  <2>5. at[0] = w[0 + 1] /\ at[1] = w[1 + 1]
    <3>1. cl.len \in Nat /\ cl.len >= 4 /\ Len(w) >= 2
      BY <1>1, <2>3, <2>4
    <3>2. 0 \in 0 .. cl.len - 1 /\ 1 \in 0 .. cl.len - 1 /\ 0 < Len(w) /\ 1 < Len(w)
      BY <2>4, <3>1
    <3>3. \A k \in 0 .. cl.len - 1 : k < Len(w) => at[k] = w[k + 1]
      BY DEF Starts, at
    <3> QED
      BY <3>2, <3>3
  <2>6. /\ w[1].type = p.type /\ w[1 + 1].value = Rest(p.len)[1 - 1] % VbiBase
        /\ w[1 + 1].more = (Rest(p.len)[1] # 0)
    <3>1. 1 \in 1 .. VbiLen(p.len)
      BY <1>1
    <3> QED
      BY <2>4, <3>1 DEF BeginsWith
  <2> HIDE DEF w
  <2>7. p.type = "ACK" /\ Rest(p.len)[0] % VbiBase = 2 /\ Rest(p.len)[1] = 0
    <3>1. 0 + 1 = 1 /\ 1 - 1 = 0
      OBVIOUS
    <3>2. p.type = "ACK" /\ w[1 + 1].value = 2 /\ ~w[1 + 1].more
      BY <2>3, <2>5, <2>6, <3>1
    <3>3. ~(Rest(p.len)[1] # 0)
      BY <2>6, <3>2
    <3>4. Rest(p.len)[1 - 1] % VbiBase = 2
      BY <2>6, <3>2
    <3> QED
      BY <3>1, <3>2, <3>3, <3>4
  <2>8. p.len = 2 /\ VbiLen(p.len) = 1 /\ ~TooLong(p.len)
    BY <1>1, <2>7, TwoLemma
  <2> QED
    BY <1>1, <2>2, <2>3, <2>7, <2>8 DEF ReadOf, r
<1>3. CASE ~FastPath(cl)
  <2>1. /\ ReadOf(f, p)
        /\ f.result = "INCOMPLETE" => TooLong(p.len) \/ cl.len < 1 + VbiLen(p.len)
    BY FixedHeaderLemma
  <2>2. r = IF f.result = "OK" /\ cl.len < f.header_len + f.remaining_len
            THEN [result |-> "INCOMPLETE"] ELSE f
    BY <1>3 DEF Front
  <2> HIDE DEF f, r
  <2>3. CASE f.result = "OK" /\ cl.len < f.header_len + f.remaining_len
    <3>1. r.result = "INCOMPLETE"
      BY <2>2, <2>3
    <3>2. cl.len < TotalLen(p)
      BY <1>1, <2>1, <2>3 DEF ReadOf
    <3> QED
      BY <3>1, <3>2 DEF ReadOf, r
  <2>4. CASE ~(f.result = "OK" /\ cl.len < f.header_len + f.remaining_len)
    <3>1. r = f
      BY <2>2, <2>4
    <3>2. f.result = "OK" => TotalLen(p) <= cl.len
      BY <1>1, <2>1, <2>4 DEF ReadOf
    <3>3. f.result = "INCOMPLETE" => TooLong(p.len) \/ cl.len < TotalLen(p)
      BY <1>1, <2>1
    <3> QED
      BY <2>1, <3>1, <3>2, <3>3 DEF r
  <2> QED
    BY <2>3, <2>4
<1> QED
  BY <1>2, <1>3

-------------------------------------------------------------------------------
(* The stream.                                                                 *)

(* The bytes that were sent and not handled: those in the buffer, with what a  *)
(* completed receive has just put there, and those in the socket.              *)
InBuffer   == client.len + request.res
UnreadLen  == InBuffer + Len(wire)
Unread(k)  == IF k <= InBuffer THEN mem[client.buf][client.start + k - 1]
              ELSE wire[k - InBuffer]
Bytes(i)   == OnWire(sent[i], i)

(* off[i] is where packet i ends, counted from the beginning of the connection. *)
Offsets(off) ==
  /\ off \in [0 .. Len(sent) -> Nat]
  /\ \A i, j \in 0 .. Len(sent) : i <= j => off[i] <= off[j]
  /\ \A i \in 1 .. Len(sent) : off[i] = off[i - 1] + Len(Bytes(i))
  /\ off[Len(sent)] = off[Len(handled)] + UnreadLen
InOrder(off) ==
  /\ Offsets(off)
  /\ \A i \in Len(handled) + 1 .. Len(sent) : \A k \in 1 .. Len(Bytes(i)) :
       Unread((off[i - 1] - off[Len(handled)]) + k) = Bytes(i)[k]
Stream == \E off : InOrder(off)

(* The receive that is outstanding writes behind the data. *)
RequestOK ==
  \/ request = NoRequest
  \/ /\ client.state = "ACTIVE" /\ ~processing
     /\ request \in [buf : {client.buf}, at : {client.start + client.len}, space : Nat, res : Nat]
     /\ request.at + request.space = BufSize /\ request.res <= request.space

HandledOK ==
  /\ Len(handled) <= Len(sent)
  /\ \A i \in 1 .. Len(handled) : handled[i] = Encode(sent[i], i)
ConnectedOK == client.connected <=> ConnectedBefore(Len(handled) + 1)

(* Between two receives the packet at the front is not whole, or it is wrong.  *)
FrontOK ==
  ~processing /\ client.len > 0 =>
    Unacceptable(Len(handled) + 1) \/ client.len < TotalLen(sent[Len(handled) + 1])
ClosedOK == client.state = "CLOSING" => request = NoRequest /\ ~processing
KeptOK ==
  \A m \in kept :
    /\ m.buf \in Bufs /\ m.buf # client.buf /\ m.buf \notin free
    /\ \A n \in kept : n.buf = m.buf => n = m
    /\ m.off \in Nat /\ m.len \in Nat /\ m.off + m.len <= BufSize /\ m.no \in 1 .. Len(handled)
    /\ \A k \in 1 .. m.len : mem[m.buf][m.off + k - 1] = handled[m.no][k]

IInv ==
  /\ TypeOK /\ RequestOK /\ Stream /\ HandledOK /\ ConnectedOK
  /\ FrontOK /\ ClosedOK /\ CloseJustified /\ KeptOK

(* The types, where SMT finds them. *)
LEMMA Sizes ==
  ASSUME TypeOK, RequestOK
  PROVE  /\ BufSize \in Nat /\ client.start \in Nat /\ client.len \in Nat /\ request.res \in Nat
         /\ client.start + client.len + request.res <= BufSize
         /\ InBuffer \in Nat /\ InBuffer = client.len + request.res
         /\ Len(wire) \in Nat /\ UnreadLen \in Nat /\ UnreadLen = InBuffer + Len(wire)
         /\ Len(sent) \in Nat /\ Len(handled) \in Nat /\ MaxPackets \in Nat
         /\ client.buf \in Bufs
<1>1. BufSize \in Nat /\ MaxPackets \in Nat
  BY BufSizeAssumption, PacketsAssumption
<1>2. client.start \in Nat /\ client.len \in Nat /\ client.start + client.len <= BufSize
      /\ client.buf \in Bufs
  BY <1>1 DEF TypeOK
<1>3. request.res \in Nat /\ client.start + client.len + request.res <= BufSize
  <2>1. CASE request = NoRequest
    BY <1>1, <1>2, <2>1 DEF NoRequest
  <2>2. CASE request # NoRequest
    BY <1>1, <1>2, <2>2 DEF RequestOK
  <2> QED
    BY <2>1, <2>2
<1>4. Len(wire) \in Nat /\ Len(sent) \in Nat /\ Len(handled) \in Nat
  BY DEF TypeOK
<1> QED
  BY <1>1, <1>2, <1>3, <1>4 DEF InBuffer, UnreadLen

LEMMA SentTypes ==
  ASSUME TypeOK, NEW i \in 1 .. Len(sent)
  PROVE  /\ sent[i] \in PacketTypes /\ i \in 0 .. MaxPackets
         /\ Bytes(i) \in Seq(Byte) /\ Len(Bytes(i)) \in Nat /\ Len(Bytes(i)) >= 1
<1>1. sent[i] \in PacketTypes
  BY PacketsAssumption DEF TypeOK, PacketTypes
<1>2. i \in 0 .. MaxPackets
  BY PacketsAssumption DEF TypeOK
<1>3. /\ Bytes(i) \in Seq(Byte)
      /\ Len(Bytes(i)) = 1 + VbiLen(sent[i].len) + (IF TooLong(sent[i].len) THEN 0 ELSE sent[i].len)
  BY <1>1, <1>2, OnWireLemma DEF Bytes
<1>4. sent[i].len \in Nat /\ VbiLen(sent[i].len) \in Nat
  <2>1. sent[i].len \in Nat
    BY <1>1 DEF PacketTypes
  <2>2. VbiLen(sent[i].len) \in 1 .. VbiMaxBytes + 1
    BY <2>1, VbiLenLemma
  <2> QED
    BY <2>1, <2>2, VbiAssumption
<1> QED
  BY <1>1, <1>2, <1>3, <1>4

(* A packet that is not handled lies within the unread bytes. *)
LEMMA Within ==
  ASSUME TypeOK, RequestOK, HandledOK, NEW off, InOrder(off),
         NEW i \in Len(handled) + 1 .. Len(sent), NEW k \in 1 .. Len(Bytes(i))
  PROVE  (off[i - 1] - off[Len(handled)]) + k \in 1 .. UnreadLen
<1>1. Len(sent) \in Nat /\ Len(handled) \in Nat /\ UnreadLen \in Nat /\ Len(handled) <= Len(sent)
  BY Sizes DEF HandledOK
<1>2. /\ i \in 1 .. Len(sent) /\ i - 1 \in 0 .. Len(sent) /\ Len(handled) \in 0 .. Len(sent)
      /\ Len(sent) \in 0 .. Len(sent) /\ i \in 0 .. Len(sent)
  BY <1>1
<1>3. Len(Bytes(i)) \in Nat
  BY <1>2, SentTypes
<1>4. /\ off[i - 1] \in Nat /\ off[i] \in Nat /\ off[Len(handled)] \in Nat
      /\ off[Len(handled)] <= off[i - 1] /\ off[i] <= off[Len(sent)]
      /\ off[i] = off[i - 1] + Len(Bytes(i))
      /\ off[Len(sent)] = off[Len(handled)] + UnreadLen
  <2>1. Offsets(off)
    BY DEF InOrder
  <2>2. off[i - 1] \in Nat /\ off[i] \in Nat /\ off[Len(handled)] \in Nat
    BY <1>2, <2>1 DEF Offsets
  <2>3. Len(handled) <= i - 1 /\ i <= Len(sent)
    BY <1>1
  <2>4. off[Len(handled)] <= off[i - 1] /\ off[i] <= off[Len(sent)]
    BY <1>2, <2>1, <2>3 DEF Offsets
  <2> QED
    BY <1>2, <2>1, <2>2, <2>4 DEF Offsets
<1> DEFINE a == off[i - 1]
           b == off[Len(handled)]
           l == Len(Bytes(i))
<1>5. /\ a \in Nat /\ b \in Nat /\ l \in Nat /\ b <= a /\ a + l <= b + UnreadLen /\ k \in 1 .. l
  BY <1>3, <1>4
<1> HIDE DEF a, b, l
<1>6. (a - b) + k \in 1 .. UnreadLen
  BY <1>1, <1>5
<1> QED
  BY <1>6 DEF a, b

(* Moving bytes about leaves the stream as it is. *)
LEMMA StreamKept ==
  ASSUME TypeOK, RequestOK, HandledOK, Stream, sent' = sent, handled' = handled,
         UnreadLen' = UnreadLen, \A k \in 1 .. UnreadLen : Unread(k)' = Unread(k)
  PROVE  Stream'
<1>1. PICK off : InOrder(off)
  BY DEF Stream
<1>2. \A i : Bytes(i)' = Bytes(i)
  BY DEF Bytes
<1>3. ASSUME NEW i \in Len(handled) + 1 .. Len(sent), NEW k \in 1 .. Len(Bytes(i))
      PROVE  Unread((off[i - 1] - off[Len(handled)]) + k)' = Bytes(i)[k]
  <2>1. (off[i - 1] - off[Len(handled)]) + k \in 1 .. UnreadLen
    BY <1>1, Within
  <2>2. Unread((off[i - 1] - off[Len(handled)]) + k) = Bytes(i)[k]
    BY <1>1 DEF InOrder
  <2>3. Unread((off[i - 1] - off[Len(handled)]) + k)'
          = Unread((off[i - 1] - off[Len(handled)]) + k)
    BY <2>1
  <2> QED
    BY <2>2, <2>3
<1>4. InOrder(off)'
  <2>1. Offsets(off)'
    BY <1>1, <1>2 DEF InOrder, Offsets
  <2> QED
    BY <1>2, <1>3, <2>1 DEF InOrder
<1> QED
  BY <1>4 DEF Stream

(* What lies at the cursor is the first packet not handled. *)
LEMMA FrontIs ==
  ASSUME TypeOK, RequestOK, HandledOK, Stream, client.len > 0
  PROVE  /\ Len(handled) + 1 \in 1 .. Len(sent)
         /\ Starts(Data(client), client.len, sent[Len(handled) + 1], Len(handled) + 1)
<1> DEFINE h == Len(handled)
<1>1. PICK off : InOrder(off)
  BY DEF Stream
<1>2. /\ h \in Nat /\ Len(sent) \in Nat /\ h <= Len(sent) /\ client.len \in Nat
      /\ client.start \in Nat /\ request.res \in Nat /\ InBuffer = client.len + request.res
      /\ UnreadLen \in Nat /\ Len(wire) \in Nat /\ UnreadLen = InBuffer + Len(wire)
  BY Sizes DEF HandledOK
<1>3. h # Len(sent)
  <2> SUFFICES ASSUME h = Len(sent) PROVE FALSE
    OBVIOUS
  <2>1. off[h] \in Nat /\ off[Len(sent)] = off[h] + UnreadLen
    <3>1. Offsets(off) /\ h \in 0 .. Len(sent)
      BY <1>1, <1>2 DEF InOrder
    <3> QED
      BY <3>1 DEF Offsets
  <2>2. \A a \in Nat : a = a + UnreadLen => UnreadLen = 0
    BY <1>2
  <2>3. UnreadLen = 0
    BY <2>1, <2>2
  <2> QED
    BY <1>2, <2>3
<1>4. h + 1 \in 1 .. Len(sent) /\ h + 1 \in h + 1 .. Len(sent) /\ h \in 0 .. Len(sent)
  BY <1>2, <1>3
<1>5. ASSUME NEW k \in 0 .. client.len - 1, k < Len(Bytes(h + 1))
      PROVE  Data(client)[k] = Bytes(h + 1)[k + 1]
  <2>1. Len(Bytes(h + 1)) \in Nat
    BY <1>4, SentTypes
  <2>2. k + 1 \in 1 .. Len(Bytes(h + 1)) /\ k + 1 <= InBuffer /\ k \in Nat
    <3>1. k \in Nat /\ k <= client.len - 1
      BY <1>2
    <3> DEFINE l == Len(Bytes(h + 1))
    <3>2. l \in Nat /\ k < l
      BY <1>5, <2>1
    <3> HIDE DEF l
    <3>3. k + 1 \in 1 .. l
      BY <3>1, <3>2
    <3>4. k + 1 <= client.len + request.res
      BY <1>2, <3>1
    <3> QED
      BY <1>2, <3>1, <3>3, <3>4 DEF l
  <2>3. Unread((off[(h + 1) - 1] - off[h]) + (k + 1)) = Bytes(h + 1)[k + 1]
    BY <1>1, <1>4, <2>2 DEF InOrder
  <2>4. (h + 1) - 1 = h
    BY <1>2
  <2>5. off[h] \in Nat
    BY <1>1, <1>4 DEF InOrder, Offsets
  <2>6. (off[(h + 1) - 1] - off[h]) + (k + 1) = k + 1
    BY <2>2, <2>4, <2>5
  <2>7. Unread(k + 1) = Bytes(h + 1)[k + 1]
    BY <2>3, <2>6
  <2>8. Unread(k + 1) = mem[client.buf][client.start + (k + 1) - 1]
    BY <2>2 DEF Unread
  <2>9. client.start + (k + 1) - 1 = client.start + k
    BY <1>2, <2>2
  <2>10. Data(client)[k] = mem[client.buf][client.start + k]
    BY <1>5 DEF Data
  <2> QED
    BY <2>7, <2>8, <2>9, <2>10
<1> QED
  BY <1>4, <1>5 DEF Starts, Bytes

(* The packet at the cursor is handled, and the cursor goes on behind it. *)
LEMMA StreamConsumed ==
  ASSUME TypeOK, RequestOK, HandledOK, Stream, Len(handled) + 1 \in 1 .. Len(sent),
         sent' = sent, Len(handled') = Len(handled) + 1,
         NEW l, l = Len(Bytes(Len(handled) + 1)), UnreadLen' = UnreadLen - l,
         \A k \in 1 .. UnreadLen - l : Unread(k)' = Unread(k + l)
  PROVE  Stream'
<1>1. PICK off : InOrder(off)
  BY DEF Stream
<1>0. PICK h, n, u : h = Len(handled) /\ n = Len(sent) /\ u = UnreadLen
  OBVIOUS
<1>2. /\ h \in Nat /\ n \in Nat /\ h + 1 \in 1 .. n /\ h \in 0 .. n /\ u \in Nat
      /\ h + 1 \in 0 .. n /\ n \in 0 .. n
  BY <1>0, Sizes
<1>3. l \in Nat
  BY <1>0, <1>2, SentTypes
<1>4. /\ Offsets(off) /\ off[h] \in Nat /\ off[h + 1] \in Nat /\ off[h + 1] = off[h] + l
      /\ off[n] \in Nat /\ off[n] = off[h] + u
  <2>1. Offsets(off)
    BY <1>1 DEF InOrder
  <2>2. off[h + 1] = off[(h + 1) - 1] + l /\ (h + 1) - 1 = h
    BY <1>0, <1>2, <2>1 DEF Offsets
  <2> QED
    BY <1>0, <1>2, <2>1, <2>2 DEF Offsets
<1>5. \A i : Bytes(i)' = Bytes(i)
  BY DEF Bytes
<1>6. Offsets(off)'
  <2>1. off[n] = off[h + 1] + (u - l)
    <3> DEFINE a == off[h]
               b == off[n]
               c == off[h + 1]
    <3>1. a \in Nat /\ c = a + l /\ b = a + u
      BY <1>4
    <3> HIDE DEF a, b, c
    <3>2. b = c + (u - l)
      BY <1>2, <1>3, <3>1
    <3> QED
      BY <3>2 DEF b, c
  <2>2. Len(sent') = n /\ Len(handled') = h + 1 /\ UnreadLen' = u - l
    BY <1>0
  <2> QED
    BY <1>0, <1>4, <1>5, <2>1, <2>2 DEF Offsets
<1>7. ASSUME NEW i \in (h + 1) + 1 .. n, NEW k \in 1 .. Len(Bytes(i))
      PROVE  Unread((off[i - 1] - off[h + 1]) + k)' = Bytes(i)[k]
  <2>1. i \in h + 1 .. n /\ i - 1 \in 0 .. n /\ h + 1 <= i - 1 /\ i \in 1 .. n
    BY <1>2
  <2>2. (off[i - 1] - off[h]) + k \in 1 .. u
    BY <1>0, <1>1, <2>1, Within
  <2>3. off[i - 1] \in Nat /\ off[h + 1] <= off[i - 1]
    BY <1>0, <1>2, <1>4, <2>1 DEF Offsets
  <2>4. Unread((off[i - 1] - off[h]) + k) = Bytes(i)[k]
    BY <1>0, <1>1, <2>1 DEF InOrder
  <2>5. k \in Nat /\ k >= 1
    BY <1>0, <2>1, SentTypes
  <2>6. PICK x : x = (off[i - 1] - off[h + 1]) + k
    OBVIOUS
  <2>7. x + l = (off[i - 1] - off[h]) + k /\ x \in 1 .. u - l
    <3> DEFINE a == off[i - 1]
               b == off[h]
               c == off[h + 1]
    <3>1. /\ a \in Nat /\ b \in Nat /\ c \in Nat /\ c = b + l /\ c <= a
          /\ (a - b) + k \in 1 .. u /\ x = (a - c) + k
      BY <1>4, <2>2, <2>3, <2>6
    <3> HIDE DEF a, b, c
    <3>2. x + l = (a - b) + k /\ x \in 1 .. u - l
      BY <1>2, <1>3, <2>5, <3>1
    <3> QED
      BY <3>2 DEF a, b
  <2>8. Unread(x)' = Unread(x + l)
    BY <1>0, <2>7
  <2> QED
    BY <2>4, <2>6, <2>7, <2>8
<1>8. InOrder(off)'
  BY <1>0, <1>5, <1>6, <1>7 DEF InOrder
<1> QED
  BY <1>8 DEF Stream

(* A packet is sent behind the others. *)
LEMMA StreamSent ==
  ASSUME TypeOK, RequestOK, HandledOK, Stream, NEW p \in Packets, Send(p)
  PROVE  Stream'
<1>1. PICK off : InOrder(off)
  BY DEF Stream
<1>0. PICK h, n, u, b, l, w : /\ h = Len(handled) /\ n = Len(sent) /\ u = UnreadLen
                              /\ b = InBuffer /\ l = Len(wire) /\ w = OnWire(p, n + 1)
  OBVIOUS
<1>2. /\ h \in Nat /\ n \in Nat /\ h <= n /\ u \in Nat /\ b \in Nat /\ u = b + l /\ l \in Nat
      /\ n + 1 \in 0 .. MaxPackets
  <2>1. n < MaxPackets /\ MaxPackets \in Nat
    BY <1>0, Sizes DEF Send
  <2>2. h \in Nat /\ n \in Nat /\ u \in Nat /\ b \in Nat /\ u = b + l /\ l \in Nat
    BY <1>0, Sizes
  <2>3. h <= n
    BY <1>0 DEF HandledOK
  <2>4. n + 1 \in 0 .. MaxPackets
    BY <2>1, <2>2
  <2> QED
    BY <2>2, <2>3, <2>4
<1>3. w \in Seq(Byte) /\ Len(w) \in Nat /\ wire \in Seq(Byte)
  <2>1. p \in PacketTypes
    BY PacketsAssumption DEF PacketTypes
  <2>2. w \in Seq(Byte)
    BY <1>0, <1>2, <2>1, OnWireLemma
  <2> QED
    BY <2>2 DEF TypeOK
<1>4. /\ sent' = Append(sent, p) /\ wire' = wire \o w /\ handled' = handled /\ client' = client
      /\ mem' = mem /\ request' = request
  BY <1>0 DEF Send
<1>5. Len(sent') = n + 1 /\ sent'[n + 1] = p /\ \A i \in 1 .. n : sent'[i] = sent[i]
  BY <1>0, <1>4 DEF TypeOK
<1>6. (\A i \in 1 .. n : Bytes(i)' = Bytes(i)) /\ Bytes(n + 1)' = w
  BY <1>0, <1>5 DEF Bytes
<1>7. /\ Len(wire') = l + Len(w)
      /\ \A k \in 1 .. l : wire'[k] = wire[k]
      /\ \A k \in 1 .. Len(w) : wire'[l + k] = w[k]
  BY <1>0, <1>3, <1>4, ConcatLemma
<1>8. InBuffer' = b /\ UnreadLen' = u + Len(w)
  <2>1. InBuffer' = b
    BY <1>0, <1>4 DEF InBuffer
  <2> QED
    BY <1>2, <1>3, <1>7, <2>1 DEF UnreadLen
<1>9. ASSUME NEW k \in 1 .. u PROVE Unread(k)' = Unread(k)
  <2>1. CASE k <= b
    BY <1>0, <1>4, <1>8, <2>1 DEF Unread
  <2>2. CASE ~(k <= b)
    <3>1. k - b \in 1 .. l
      BY <1>2, <2>2
    <3> QED
      BY <1>0, <1>7, <1>8, <2>2, <3>1 DEF Unread
  <2> QED
    BY <2>1, <2>2
<1>10. ASSUME NEW k \in 1 .. Len(w) PROVE Unread(u + k)' = w[k]
  <2>1. ~(u + k <= b) /\ (u + k) - b = l + k
    BY <1>2, <1>3
  <2> QED
    BY <1>7, <1>8, <2>1 DEF Unread
<1> DEFINE off2 == [i \in 0 .. n + 1 |-> IF i = n + 1 THEN off[n] + Len(w) ELSE off[i]]
<1>11. Offsets(off) /\ n \in 0 .. n /\ h \in 0 .. n /\ off \in [0 .. n -> Nat]
       /\ off[n] = off[h] + u /\ off[h] \in Nat
  BY <1>0, <1>1, <1>2 DEF InOrder, Offsets
<1>12. /\ off2 \in [0 .. n + 1 -> Nat] /\ off2[n + 1] = off[n] + Len(w)
       /\ \A i \in 0 .. n : off2[i] = off[i]
  <2>1. off[n] \in Nat
    BY <1>11
  <2> QED
    BY <1>2, <1>3, <1>11, <2>1
<1> HIDE DEF off2
<1>13. Offsets(off2)'
  <2>1. \A i, j \in 0 .. n + 1 : i <= j => off2[i] <= off2[j]
    <3> SUFFICES ASSUME NEW i \in 0 .. n + 1, NEW j \in 0 .. n + 1, i <= j
                 PROVE  off2[i] <= off2[j]
      OBVIOUS
    <3>1. CASE j \in 0 .. n
      <4>1. i \in 0 .. n
        BY <1>2, <3>1
      <4> QED
        BY <1>0, <1>11, <1>12, <3>1, <4>1 DEF Offsets
    <3>2. CASE j = n + 1 /\ i \in 0 .. n
      <4>1. off[i] <= off[n] /\ off[i] \in Nat /\ off[n] \in Nat
        <5>1. i \in 0 .. n /\ n \in 0 .. n /\ i <= n
          BY <1>2, <3>2
        <5>2. \A x, y \in 0 .. n : x <= y => off[x] <= off[y]
          BY <1>0, <1>11 DEF Offsets
        <5> QED
          BY <1>11, <5>1, <5>2
      <4> QED
        BY <1>3, <1>12, <3>2, <4>1
    <3>3. CASE j = n + 1 /\ i = n + 1
      BY <1>12, <3>3
    <3> QED
      BY <1>2, <3>1, <3>2, <3>3
  <2>2. \A i \in 1 .. n + 1 : off2[i] = off2[i - 1] + Len(Bytes(i)')
    <3> SUFFICES ASSUME NEW i \in 1 .. n + 1 PROVE off2[i] = off2[i - 1] + Len(Bytes(i)')
      OBVIOUS
    <3>1. CASE i \in 1 .. n
      <4>1. i - 1 \in 0 .. n /\ i \in 0 .. n
        BY <1>2, <3>1
      <4> QED
        BY <1>0, <1>6, <1>11, <1>12, <3>1, <4>1 DEF Offsets
    <3>2. CASE i = n + 1
      <4>1. i - 1 = n
        BY <1>2, <3>2
      <4> QED
        BY <1>6, <1>11, <1>12, <3>2, <4>1
    <3> QED
      BY <1>2, <3>1, <3>2
  <2>3. off2[n + 1] = off2[h] + UnreadLen'
    <3>1. off2[h] = off[h] /\ off2[n + 1] = (off[h] + u) + Len(w)
      BY <1>11, <1>12
    <3> QED
      BY <1>2, <1>3, <1>8, <1>11, <3>1
  <2>4. Len(handled') = h
    BY <1>0, <1>4
  <2> QED
    BY <1>5, <1>12, <2>1, <2>2, <2>3, <2>4 DEF Offsets
<1>14. ASSUME NEW i \in h + 1 .. n + 1, NEW k \in 1 .. Len(Bytes(i)')
       PROVE  Unread((off2[i - 1] - off2[h]) + k)' = Bytes(i)'[k]
  <2>1. CASE i \in h + 1 .. n
    <3>1. i - 1 \in 0 .. n /\ i \in 1 .. n /\ k \in 1 .. Len(Bytes(i))
      BY <1>2, <1>6, <2>1
    <3>2. (off[i - 1] - off[h]) + k \in 1 .. u
      BY <1>0, <1>1, <2>1, <3>1, Within
    <3>3. Unread((off[i - 1] - off[h]) + k) = Bytes(i)[k]
      BY <1>0, <1>1, <2>1, <3>1 DEF InOrder
    <3>4. Unread((off[i - 1] - off[h]) + k)' = Unread((off[i - 1] - off[h]) + k)
      BY <1>9, <3>2
    <3>5. off2[i - 1] = off[i - 1] /\ off2[h] = off[h]
      BY <1>11, <1>12, <3>1
    <3> QED
      BY <1>6, <3>1, <3>3, <3>4, <3>5
  <2>2. CASE i = n + 1
    <3>1. i - 1 = n /\ k \in 1 .. Len(w)
      BY <1>2, <1>6, <2>2
    <3>2. (off2[i - 1] - off2[h]) + k = u + k
      <4>1. off2[i - 1] = off[n] /\ off2[h] = off[h]
        BY <1>11, <1>12, <3>1
      <4>2. \A a \in Nat : (a + u) - a = u
        BY <1>2
      <4> QED
        BY <1>11, <4>1, <4>2
    <3> QED
      BY <1>6, <1>10, <2>2, <3>1, <3>2
  <2> QED
    BY <1>2, <2>1, <2>2
<1>15. InOrder(off2)'
  BY <1>0, <1>4, <1>5, <1>13, <1>14 DEF InOrder
<1> QED
  BY <1>15 DEF Stream

-------------------------------------------------------------------------------
(* A packet is handled.                                                        *)

ClientTypes == [state : {"ACTIVE", "CLOSING"}, connected : BOOLEAN, buf : Bufs,
                start : 0 .. BufSize, len : 0 .. BufSize]

LEMMA FrontRead ==
  ASSUME IInv, client.len > 0
  PROVE  /\ Len(handled) + 1 \in 1 .. Len(sent) /\ sent[Len(handled) + 1] \in PacketTypes
         /\ ReadOf(Packet, sent[Len(handled) + 1])
         /\ Packet.result = "OK" => TotalLen(sent[Len(handled) + 1]) <= client.len
         /\ Packet.result = "INCOMPLETE" => \/ TooLong(sent[Len(handled) + 1].len)
                                            \/ client.len < TotalLen(sent[Len(handled) + 1])
<1> DEFINE i == Len(handled) + 1
<1>1. i \in 1 .. Len(sent) /\ Starts(Data(client), client.len, sent[i], i)
  BY FrontIs DEF IInv
<1>2. sent[i] \in PacketTypes /\ i \in 0 .. MaxPackets
  BY <1>1, SentTypes DEF IInv
<1>3. client.len \in Nat \ {0}
  BY Sizes DEF IInv
<1> HIDE DEF i
<1>4. /\ ReadOf(Front(client), sent[i])
      /\ Front(client).result = "OK" => TotalLen(sent[i]) <= client.len
      /\ Front(client).result = "INCOMPLETE" =>
           TooLong(sent[i].len) \/ client.len < TotalLen(sent[i])
  BY <1>1, <1>2, <1>3, FrontLemma
<1> QED
  BY <1>1, <1>2, <1>4 DEF Packet, i

LEMMA EmptyFront ==
  ASSUME TypeOK, ~(client.len > 0)
  PROVE  Packet.result = "INCOMPLETE"
<1>1. client.len = 0
  BY BufSizeAssumption DEF TypeOK
<1>2. Packet = [result |-> "INCOMPLETE"]
  BY <1>1 DEF Packet, Front
<1> QED
  BY <1>2

LEMMA Processing ==
  ASSUME IInv, processing
  PROVE  request = NoRequest /\ client.state = "ACTIVE" /\ InBuffer = client.len
<1>1. request = NoRequest
  BY DEF IInv, RequestOK
<1>2. client.state = "ACTIVE"
  BY DEF IInv, TypeOK, ClosedOK
<1>3. client.len \in Nat
  BY Sizes DEF IInv
<1> QED
  BY <1>1, <1>2, <1>3 DEF InBuffer, NoRequest

LEMMA AtFront ==
  ASSUME IInv, AtPacket
  PROVE  /\ Len(handled) + 1 \in 1 .. Len(sent)
         /\ Total \in Nat \ {0} /\ Total <= client.len /\ Total = Len(Bytes(Len(handled) + 1))
         /\ Packet.type = sent[Len(handled) + 1].type
         /\ [k \in 1 .. Total |-> Data(client)[k - 1]]
              = Encode(sent[Len(handled) + 1], Len(handled) + 1)
         /\ Encode(sent[Len(handled) + 1], Len(handled) + 1) \in Seq(Byte)
<1> DEFINE i == Len(handled) + 1
           p == sent[i]
           e == Encode(p, i)
<1>1. Packet.result = "OK" /\ client.len > 0
  BY EmptyFront DEF IInv, AtPacket
<1>2. /\ i \in 1 .. Len(sent) /\ p \in PacketTypes /\ ReadOf(Packet, p)
      /\ TotalLen(p) <= client.len
  BY <1>1, FrontRead
<1>3. /\ ~TooLong(p.len) /\ Packet.type = p.type /\ Packet.header_len = 1 + VbiLen(p.len)
      /\ Packet.remaining_len = p.len
  BY <1>1, <1>2 DEF ReadOf
<1>4. i \in 0 .. MaxPackets /\ Starts(Data(client), client.len, p, i) /\ client.len \in Nat
  BY <1>1, <1>2, SentTypes, FrontIs, Sizes DEF IInv
<1> HIDE DEF i
<1> HIDE DEF p
<1>5. /\ TotalLen(p) = 1 + VbiLen(p.len) + p.len /\ OnWire(p, i) = e
      /\ e \in Seq(Byte) /\ Len(e) = 1 + VbiLen(p.len) + p.len
  BY <1>2, <1>3, <1>4, OnWireLemma, EncodeLemma DEF OnWire
<1>6. VbiLen(p.len) \in Nat /\ p.len \in Nat
  <2>1. p.len \in Nat
    BY <1>2 DEF PacketTypes
  <2>2. VbiLen(p.len) \in 1 .. VbiMaxBytes + 1
    BY <2>1, VbiLenLemma
  <2> QED
    BY <2>1, <2>2, VbiAssumption
<1>7. Total = Len(e) /\ Total \in Nat \ {0} /\ Total <= client.len
  BY <1>2, <1>3, <1>5, <1>6 DEF Total
<1> HIDE DEF e
<1>8. \A k \in 1 .. Total : Data(client)[k - 1] = e[k]
  <2> SUFFICES ASSUME NEW k \in 1 .. Total PROVE Data(client)[k - 1] = e[k]
    OBVIOUS
  <2>1. k - 1 \in 0 .. client.len - 1 /\ k - 1 < Len(e) /\ (k - 1) + 1 = k
    BY <1>4, <1>7
  <2> QED
    BY <1>4, <1>5, <2>1 DEF Starts
<1>9. e = [k \in 1 .. Total |-> e[k]]
  BY <1>5, <1>7
<1>10. [k \in 1 .. Total |-> Data(client)[k - 1]] = e
  BY <1>8, <1>9
<1> QED
  BY <1>2, <1>3, <1>5, <1>7, <1>10 DEF i, p, e, Bytes

LEMMA ConsumedLemma ==
  ASSUME IInv, AtPacket
  PROVE  /\ Consumed \in ClientTypes /\ Consumed.buf = client.buf /\ Consumed.state = "ACTIVE"
         /\ Consumed.start = client.start + Total /\ Consumed.len = client.len - Total
         /\ Consumed.start + Consumed.len <= BufSize
         /\ Consumed.connected <=> client.connected \/ Packet.type = "CONNECT"
<1>1. /\ client \in ClientTypes /\ client.start + client.len <= BufSize /\ BufSize \in Nat
      /\ client.start \in Nat /\ client.len \in Nat /\ Total \in Nat /\ Total <= client.len
  BY AtFront, Sizes DEF IInv, TypeOK, ClientTypes
<1>2. client.state = "ACTIVE"
  BY Processing DEF AtPacket
<1>3. client.start + Total \in 0 .. BufSize /\ client.len - Total \in 0 .. BufSize
      /\ (client.start + Total) + (client.len - Total) <= BufSize
  BY <1>1
<1> QED
  BY <1>1, <1>2, <1>3 DEF Consumed, ClientTypes

(* What the handler leaves, wherever the rest of the data lies. *)
LEMMA HandleStep ==
  ASSUME IInv, AtPacket, Handle, UNCHANGED <<sent, wire, request>>,
         client'.len = client.len - Total, client'.connected = Consumed.connected,
         \A k \in 1 .. client.len - Total :
           mem'[client'.buf][client'.start + k - 1]
             = mem[client.buf][client.start + Total + k - 1]
  PROVE  /\ handled' \in Seq(Seq(Byte)) /\ Len(handled') = Len(handled) + 1
         /\ \A i \in 1 .. Len(handled) : handled'[i] = handled[i]
         /\ handled'[Len(handled) + 1] = [k \in 1 .. Total |-> Data(client)[k - 1]]
         /\ Stream' /\ HandledOK' /\ ConnectedOK'
<1>0. PICK h, l, c, s : /\ h = Len(handled) /\ l = Total /\ c = client.len /\ s = client.start
  OBVIOUS
<1> DEFINE e == Encode(sent[h + 1], h + 1)
<1>1. /\ h + 1 \in 1 .. Len(sent) /\ l \in Nat \ {0} /\ l <= c /\ l = Len(Bytes(h + 1))
      /\ Packet.type = sent[h + 1].type
      /\ [k \in 1 .. Total |-> Data(client)[k - 1]] = e /\ e \in Seq(Byte)
  BY <1>0, AtFront
<1>2. /\ h \in Nat /\ Len(sent) \in Nat /\ h <= Len(sent) /\ c \in Nat /\ s \in Nat
      /\ UnreadLen \in Nat /\ UnreadLen = c + Len(wire) /\ InBuffer = c /\ Len(wire) \in Nat
      /\ request = NoRequest
  BY <1>0, Sizes, Processing DEF IInv, HandledOK, AtPacket
<1> HIDE DEF e
<1>3. handled' = Append(handled, e) /\ handled \in Seq(Seq(Byte))
  BY <1>1 DEF Handle, IInv, TypeOK
<1>4. /\ handled' \in Seq(Seq(Byte)) /\ Len(handled') = h + 1
      /\ \A i \in 1 .. h : handled'[i] = handled[i]
      /\ handled'[h + 1] = e
  BY <1>0, <1>1, <1>3
<1>5. HandledOK'
  <2> SUFFICES ASSUME NEW i \in 1 .. h + 1 PROVE handled'[i] = Encode(sent[i], i)
    BY <1>1, <1>2, <1>4 DEF HandledOK
  <2>1. CASE i \in 1 .. h
    BY <1>0, <1>4, <2>1 DEF IInv, HandledOK
  <2>2. CASE i = h + 1
    BY <1>4, <2>2 DEF e
  <2> QED
    BY <1>2, <2>1, <2>2
<1>6. ConnectedOK'
  <2>1. client'.connected <=> client.connected \/ sent[h + 1].type = "CONNECT"
    BY <1>1, ConsumedLemma
  <2>2. client.connected <=> \E j \in 1 .. (h + 1) - 1 : sent[j].type = "CONNECT"
    BY <1>0 DEF IInv, ConnectedOK, ConnectedBefore
  <2>3. (\E j \in 1 .. ((h + 1) + 1) - 1 : sent[j].type = "CONNECT")
          <=> (\E j \in 1 .. (h + 1) - 1 : sent[j].type = "CONNECT")
                \/ sent[h + 1].type = "CONNECT"
    BY <1>2
  <2> QED
    BY <1>4, <2>1, <2>2, <2>3 DEF ConnectedOK, ConnectedBefore
<1>7. InBuffer' = c - l /\ UnreadLen' = UnreadLen - l
  <2>1. InBuffer' = c - l
    BY <1>0, <1>1, <1>2 DEF InBuffer, NoRequest
  <2> QED
    BY <1>1, <1>2, <2>1 DEF UnreadLen
<1>8. ASSUME NEW k \in 1 .. UnreadLen - l PROVE Unread(k)' = Unread(k + l)
  <2>1. CASE k <= c - l
    <3>1. k \in 1 .. c - l /\ k + l <= c
      BY <1>1, <1>2, <2>1
    <3>2. Unread(k)' = mem[client.buf][s + l + k - 1]
      BY <1>0, <1>7, <2>1, <3>1 DEF Unread
    <3>3. Unread(k + l) = mem[client.buf][s + (k + l) - 1]
      BY <1>0, <1>2, <3>1 DEF Unread
    <3>4. s + l + k - 1 = s + (k + l) - 1
      BY <1>1, <1>2, <3>1
    <3> QED
      BY <3>2, <3>3, <3>4
  <2>2. CASE ~(k <= c - l)
    <3>1. ~(k + l <= c) /\ k - (c - l) = (k + l) - c
      BY <1>1, <1>2, <2>2
    <3>2. Unread(k)' = wire[k - (c - l)]
      BY <1>7, <2>2 DEF Unread
    <3>3. Unread(k + l) = wire[(k + l) - c]
      BY <1>2, <3>1 DEF Unread
    <3> QED
      BY <3>1, <3>2, <3>3
  <2> QED
    BY <2>1, <2>2
<1>9. Stream'
  BY <1>0, <1>1, <1>4, <1>7, <1>8, StreamConsumed DEF IInv
<1> QED
  BY <1>0, <1>1, <1>4, <1>5, <1>6, <1>9

-------------------------------------------------------------------------------
(* One lemma per action.                                                       *)

LEMMA InitIInv == Init => IInv
<1> SUFFICES ASSUME Init PROVE IInv
  OBVIOUS
<1>1. /\ sent = << >> /\ wire = << >> /\ handled = << >> /\ processing = FALSE /\ kept = {}
      /\ request = NoRequest /\ mem = [b \in Bufs |-> [a \in Addresses |-> Blank]]
  BY DEF Init
<1>2. PICK b \in Bufs :
        /\ free = Bufs \ {b}
        /\ client = [state |-> "ACTIVE", connected |-> FALSE, buf |-> b, start |-> 0, len |-> 0]
  BY DEF Init
<1>3. client \in ClientTypes /\ client.buf = b /\ client.start = 0 /\ client.len = 0
      /\ client.connected = FALSE /\ client.state = "ACTIVE"
  <2>1. 0 \in 0 .. BufSize
    BY BufSizeAssumption
  <2> QED
    BY <1>2, <2>1 DEF ClientTypes
<1>4. Blank \in Byte
  <2>1. 0 \in 0 .. VbiBase - 1 /\ 0 \in 0 .. MaxPackets
    BY VbiAssumption, PacketsAssumption
  <2> QED
    BY <2>1 DEF Byte, Blank
<1>5. TypeOK
  <2>1. mem \in [Bufs -> [Addresses -> Byte]]
    BY <1>1, <1>4
  <2>2. client.start + client.len <= BufSize /\ request.at + request.space <= BufSize
    BY <1>1, <1>3, BufSizeAssumption DEF NoRequest
  <2>3. sent \in Seq(Packets) /\ wire \in Seq(Byte) /\ handled \in Seq(Seq(Byte))
        /\ Len(sent) <= MaxPackets
    BY <1>1, PacketsAssumption
  <2> QED
    BY <1>1, <1>2, <1>3, <2>1, <2>2, <2>3 DEF TypeOK, ClientTypes
<1>6. RequestOK /\ ClosedOK /\ CloseJustified /\ KeptOK
  BY <1>1, <1>3 DEF RequestOK, ClosedOK, CloseJustified, KeptOK
<1>7. FrontOK
  BY <1>3 DEF FrontOK
<1>8. Len(sent) = 0 /\ Len(handled) = 0
  BY <1>1
<1>9. HandledOK /\ ConnectedOK
  BY <1>3, <1>8 DEF HandledOK, ConnectedOK, ConnectedBefore
<1>10. Stream
  <2> DEFINE off == [i \in 0 .. 0 |-> 0]
  <2>1. UnreadLen = 0
    BY <1>1, <1>3 DEF UnreadLen, InBuffer, NoRequest
  <2>2. Offsets(off)
    BY <1>8, <2>1 DEF Offsets
  <2>3. InOrder(off)
    BY <1>8, <2>2 DEF InOrder
  <2> QED
    BY <2>3 DEF Stream
<1> QED
  BY <1>5, <1>6, <1>7, <1>9, <1>10 DEF IInv

(* Messages are kept where nobody writes. *)
LEMMA KeptStays ==
  ASSUME IInv, kept' \subseteq kept, client'.buf = client.buf, free' = free,
         \A m \in kept : mem'[m.buf] = mem[m.buf], handled' = handled
  PROVE  KeptOK'
<1> SUFFICES ASSUME NEW m \in kept
             PROVE  /\ m.buf \in Bufs /\ m.buf # client.buf /\ m.buf \notin free
                    /\ \A n \in kept : n.buf = m.buf => n = m
                    /\ m.off \in Nat /\ m.len \in Nat /\ m.off + m.len <= BufSize
                    /\ m.no \in 1 .. Len(handled)
                    /\ \A k \in 1 .. m.len : mem'[m.buf][m.off + k - 1] = handled[m.no][k]
  BY DEF KeptOK
<1>1. mem'[m.buf] = mem[m.buf]
  OBVIOUS
<1>2. KeptOK
  BY DEF IInv
<1> QED
  BY <1>1, <1>2 DEF KeptOK

LEMMA UnacceptableStays ==
  ASSUME TypeOK, NEW p, sent' = Append(sent, p), NEW i \in 1 .. Len(sent)
  PROVE  (Unacceptable(i)' <=> Unacceptable(i)) /\ sent'[i] = sent[i]
<1>1. \A j \in 1 .. Len(sent) : sent'[j] = sent[j]
  BY DEF TypeOK
<1>2. \A j \in 1 .. i - 1 : j \in 1 .. Len(sent)
  BY Sizes DEF TypeOK
<1>3. ConnectedBefore(i)' <=> ConnectedBefore(i)
  BY <1>1, <1>2 DEF ConnectedBefore
<1> QED
  BY <1>1, <1>3 DEF Unacceptable, Rejects

LEMMA SendStep ==
  ASSUME IInv, NEW p \in Packets, Send(p)
  PROVE  IInv'
<1>0. PICK h, n : h = Len(handled) /\ n = Len(sent)
  OBVIOUS
<1>1. /\ sent' = Append(sent, p) /\ wire' = wire \o OnWire(p, Len(sent) + 1) /\ n < MaxPackets
      /\ UNCHANGED <<mem, free, client, request, processing, kept, handled>>
  BY <1>0 DEF Send
<1>2. h \in Nat /\ n \in Nat /\ h <= n /\ MaxPackets \in Nat
  BY <1>0, Sizes DEF IInv, HandledOK
<1>3. /\ sent' \in Seq(Packets) /\ Len(sent') = n + 1 /\ \A i \in 1 .. n : sent'[i] = sent[i]
  BY <1>0, <1>1 DEF IInv, TypeOK
<1>4. wire' \in Seq(Byte)
  <2>1. p \in PacketTypes /\ Len(sent) + 1 \in 0 .. MaxPackets
    BY <1>0, <1>1, <1>2, PacketsAssumption DEF PacketTypes
  <2>2. OnWire(p, Len(sent) + 1) \in Seq(Byte) /\ wire \in Seq(Byte)
    BY <2>1, OnWireLemma DEF IInv, TypeOK
  <2> QED
    BY <1>1, <2>2, ConcatLemma
<1>5. TypeOK'
  <2>1. Len(sent') <= MaxPackets
    BY <1>1, <1>2, <1>3
  <2> QED
    BY <1>1, <1>3, <1>4, <2>1 DEF IInv, TypeOK
<1>6. Stream'
  BY StreamSent DEF IInv
<1>7. RequestOK' /\ ClosedOK' /\ KeptOK'
  BY <1>1 DEF IInv, RequestOK, ClosedOK, KeptOK
<1>8. HandledOK'
  BY <1>0, <1>1, <1>2, <1>3 DEF IInv, HandledOK
<1>9. ConnectedOK'
  BY <1>0, <1>1, <1>2, <1>3 DEF IInv, ConnectedOK, ConnectedBefore
<1>10. ASSUME h + 1 \in 1 .. n
       PROVE  (Unacceptable(h + 1)' <=> Unacceptable(h + 1)) /\ sent'[h + 1] = sent[h + 1]
  BY <1>0, <1>1, <1>10, UnacceptableStays DEF IInv
<1>11. FrontOK'
  <2> SUFFICES ASSUME ~processing, client.len > 0
               PROVE  Unacceptable(h + 1)' \/ client.len < TotalLen(sent'[h + 1])
    BY <1>0, <1>1 DEF FrontOK
  <2>1. h + 1 \in 1 .. n
    BY <1>0, FrontRead
  <2> QED
    BY <1>0, <1>10, <2>1 DEF IInv, FrontOK
<1>12. CloseJustified'
  <2> SUFFICES ASSUME client.state = "CLOSING"
               PROVE  h < n + 1 /\ Unacceptable(h + 1)'
    BY <1>0, <1>1, <1>3 DEF CloseJustified
  <2>1. h < n /\ Unacceptable(h + 1)
    BY <1>0 DEF IInv, CloseJustified
  <2> QED
    BY <1>2, <1>10, <2>1
<1> QED
  BY <1>5, <1>6, <1>7, <1>8, <1>9, <1>11, <1>12 DEF IInv

(* What does not touch the packets, or what is decided about them. *)
LEMMA PacketsStay ==
  ASSUME IInv, UNCHANGED <<sent, handled>>, client'.connected = client.connected
  PROVE  /\ HandledOK' /\ ConnectedOK' /\ \A i : Unacceptable(i)' <=> Unacceptable(i)
BY DEF IInv, HandledOK, ConnectedOK, ConnectedBefore, Unacceptable, Rejects

LEMMA KernelRecvStep ==
  ASSUME IInv, NEW n \in 1 .. BufSize, KernelRecv(n)
  PROVE  IInv'
<1>0. PICK b, s, c : b = client.buf /\ s = client.start /\ c = client.len
  OBVIOUS
<1>1. /\ request # NoRequest /\ request.res = 0 /\ n <= request.space /\ n <= Len(wire)
      /\ mem' = [mem EXCEPT ![request.buf] =
                   [a \in Addresses |-> IF a \in request.at .. request.at + n - 1
                                        THEN wire[a - request.at + 1] ELSE @[a]]]
      /\ wire' = SubSeq(wire, n + 1, Len(wire))
      /\ request' = [request EXCEPT !.res = n]
      /\ UNCHANGED <<sent, free, client, processing, kept, handled>>
  BY DEF KernelRecv
<1>2. /\ client.state = "ACTIVE" /\ ~processing
      /\ request \in [buf : {b}, at : {s + c}, space : Nat, res : Nat]
      /\ request.buf = b /\ request.at = s + c /\ (s + c) + request.space = BufSize
      /\ request.space \in Nat
  BY <1>0, <1>1 DEF IInv, RequestOK
<1>3. /\ n \in Nat /\ n >= 1 /\ s \in Nat /\ c \in Nat /\ Len(wire) \in Nat /\ BufSize \in Nat
      /\ InBuffer = c /\ UnreadLen = c + Len(wire) /\ b \in Bufs /\ wire \in Seq(Byte)
      /\ mem \in [Bufs -> [Addresses -> Byte]]
  BY <1>0, <1>1, Sizes DEF IInv, TypeOK
<1>4. /\ request' \in [buf : {b}, at : {s + c}, space : Nat, res : Nat] /\ request'.res = n
      /\ request'.at = request.at /\ request'.space = request.space
  BY <1>1, <1>2, <1>3
<1>5. \A a \in 0 .. BufSize - 1 :
        mem'[b][a] = IF a \in s + c .. s + c + n - 1 THEN wire[a - (s + c) + 1] ELSE mem[b][a]
  BY <1>1, <1>2, <1>3 DEF Addresses
<1>6. mem' \in [Bufs -> [Addresses -> Byte]]
  <2> DEFINE row == [a \in Addresses |-> IF a \in s + c .. s + c + n - 1
                                         THEN wire[a - (s + c) + 1] ELSE mem[b][a]]
  <2>1. row \in [Addresses -> Byte]
    <3> SUFFICES ASSUME NEW a \in Addresses
                 PROVE  (IF a \in s + c .. s + c + n - 1 THEN wire[a - (s + c) + 1]
                         ELSE mem[b][a]) \in Byte
      OBVIOUS
    <3>1. CASE a \in s + c .. s + c + n - 1
      <4>1. a - (s + c) + 1 \in 1 .. Len(wire)
        BY <1>1, <1>3, <3>1
      <4> QED
        BY <1>3, <3>1, <4>1
    <3> QED
      BY <1>3, <3>1
  <2>2. mem' = [mem EXCEPT ![b] = row]
    BY <1>1, <1>2
  <2> HIDE DEF row
  <2> QED
    BY <1>3, <2>1, <2>2
<1>7. /\ wire' \in Seq(Byte) /\ Len(wire') = Len(wire) - n
      /\ \A k \in 1 .. Len(wire) - n : wire'[k] = wire[k + n]
  BY <1>1, <1>3
<1>8. TypeOK'
  BY <1>1, <1>4, <1>6, <1>7 DEF IInv, TypeOK
<1>9. RequestOK'
  BY <1>0, <1>1, <1>2, <1>4 DEF RequestOK
<1>10. InBuffer' = c + n /\ UnreadLen' = UnreadLen
  <2>1. InBuffer' = c + n
    BY <1>0, <1>1, <1>4 DEF InBuffer
  <2> QED
    BY <1>3, <1>7, <2>1 DEF UnreadLen
<1>11. ASSUME NEW k \in 1 .. UnreadLen PROVE Unread(k)' = Unread(k)
  <2>1. CASE k <= c
    <3>1. s + k - 1 \in 0 .. BufSize - 1 /\ s + k - 1 \notin s + c .. s + c + n - 1
      BY <1>2, <1>3, <2>1
    <3>2. Unread(k)' = mem'[b][s + k - 1] /\ Unread(k) = mem[b][s + k - 1]
      BY <1>0, <1>1, <1>3, <1>10, <2>1 DEF Unread
    <3> QED
      BY <1>5, <3>1, <3>2
  <2>2. CASE ~(k <= c) /\ k <= c + n
    <3> DEFINE space == request.space
    <3>0. k \in Nat /\ space \in Nat /\ n <= space /\ (s + c) + space = BufSize
      BY <1>1, <1>2, <1>3
    <3> HIDE DEF space
    <3>1. s + k - 1 \in 0 .. BufSize - 1 /\ s + k - 1 \in s + c .. s + c + n - 1
          /\ (s + k - 1) - (s + c) + 1 = k - c
      BY <1>3, <2>2, <3>0
    <3>2. Unread(k)' = mem'[b][s + k - 1] /\ Unread(k) = wire[k - c]
      BY <1>0, <1>1, <1>3, <1>10, <2>2 DEF Unread
    <3> QED
      BY <1>5, <3>1, <3>2
  <2>3. CASE ~(k <= c + n)
    <3>1. k - (c + n) \in 1 .. Len(wire) - n /\ (k - (c + n)) + n = k - c /\ ~(k <= c)
      BY <1>1, <1>3, <2>3
    <3>2. Unread(k)' = wire'[k - (c + n)] /\ Unread(k) = wire[k - c]
      BY <1>3, <1>10, <2>3, <3>1 DEF Unread
    <3> QED
      BY <1>7, <3>1, <3>2
  <2> QED
    BY <1>3, <2>1, <2>2, <2>3
<1>12. Stream'
  BY <1>1, <1>10, <1>11, StreamKept DEF IInv
<1>13. KeptOK'
  <2>1. \A m \in kept : mem'[m.buf] = mem[m.buf]
    <3>1. \A m \in kept : m.buf \in Bufs /\ m.buf # b
      BY <1>0 DEF IInv, KeptOK
    <3> QED
      BY <1>1, <1>2, <1>3, <3>1
  <2> QED
    BY <1>1, <2>1, KeptStays
<1>14. HandledOK' /\ ConnectedOK' /\ \A i : Unacceptable(i)' <=> Unacceptable(i)
  BY <1>1, PacketsStay
<1>15. FrontOK' /\ ClosedOK' /\ CloseJustified'
  BY <1>1, <1>2, <1>14 DEF IInv, FrontOK, ClosedOK, CloseJustified
<1> QED
  BY <1>8, <1>9, <1>12, <1>13, <1>14, <1>15 DEF IInv

(* Compaction moves the data to the beginning, or leaves it where it is; and    *)
(* there is room behind it then unless it fills the buffer.                    *)
LEMMA CompactedLemma ==
  ASSUME TypeOK
  PROVE  /\ Compacted(client) \in ClientTypes
         /\ Compacted(client).buf = client.buf /\ Compacted(client).len = client.len
         /\ Compacted(client).state = client.state
         /\ Compacted(client).connected = client.connected
         /\ Compacted(client).start + client.len <= BufSize
         /\ Space(Compacted(client)) \in Nat
         /\ (Compacted(client).start + client.len) + Space(Compacted(client)) = BufSize
         /\ Space(Compacted(client)) = 0 => client.len = BufSize /\ client.len > 0
         /\ CompactedData(client) \in [Bufs -> [Addresses -> Byte]]
         /\ \A b \in Bufs : b # client.buf => CompactedData(client)[b] = mem[b]
         /\ \A k \in 1 .. client.len :
              CompactedData(client)[client.buf][Compacted(client).start + k - 1]
                = mem[client.buf][client.start + k - 1]
<1>0. PICK b, s, c : b = client.buf /\ s = client.start /\ c = client.len
  OBVIOUS
<1> DEFINE cl == Compacted(client)
           at == cl.start
<1>1. /\ client \in ClientTypes /\ s \in Nat /\ c \in Nat /\ s + c <= BufSize /\ BufSize \in Nat
      /\ s \in 0 .. BufSize /\ 0 \in 0 .. BufSize /\ BufSize >= 4 /\ b \in Bufs
      /\ mem \in [Bufs -> [Addresses -> Byte]]
  BY <1>0, BufSizeAssumption DEF TypeOK, ClientTypes
<1>2. /\ cl \in ClientTypes /\ cl.buf = b /\ cl.len = c /\ cl.state = client.state
      /\ cl.connected = client.connected
      /\ at = IF c = 0 \/ NeedsCompact(client) THEN 0 ELSE s
  BY <1>0, <1>1 DEF Compacted, ClientTypes
<1>3. at \in Nat /\ at + c <= BufSize
  BY <1>1, <1>2
<1>4. Space(cl) = BufSize - at - c
  BY <1>2 DEF Space
<1> HIDE DEF cl
<1>5. Space(cl) \in Nat /\ (at + c) + Space(cl) = BufSize
  <2> HIDE DEF at
  <2> QED
    BY <1>1, <1>3, <1>4
<1>6. Space(cl) = 0 => c = BufSize
  <2> SUFFICES ASSUME Space(cl) = 0, ~(c = 0 \/ NeedsCompact(client)) PROVE FALSE
    BY <1>1, <1>2, <1>5
  <2>1. at = s /\ Space(client) = BufSize - s - c
    BY <1>0, <1>2 DEF Space
  <2>2. Space(client) = 0
    BY <1>4, <2>1
  <2>3. 0 < BufSize \div 4
    BY <1>1
  <2>4. Space(client) < BufSize \div 4
    BY <2>2, <2>3
  <2> QED
    BY <2>4 DEF NeedsCompact
<1>7. /\ CompactedData(client) \in [Bufs -> [Addresses -> Byte]]
      /\ \A x \in Bufs : x # b => CompactedData(client)[x] = mem[x]
      /\ \A k \in 1 .. c : CompactedData(client)[b][at + k - 1] = mem[b][s + k - 1]
  <2>1. CASE c # 0 /\ NeedsCompact(client)
    <3> DEFINE row == Moved(mem[b], s, c)
    <3>1. \A a \in Addresses : row[a] = IF a < c THEN mem[b][s + a] ELSE mem[b][a]
      BY DEF Moved
    <3>2. row \in [Addresses -> Byte]
      <4> SUFFICES ASSUME NEW a \in Addresses
                   PROVE  (IF a < c THEN mem[b][s + a] ELSE mem[b][a]) \in Byte
        BY DEF Moved
      <4>1. a < c => s + a \in Addresses
        BY <1>1 DEF Addresses
      <4> QED
        BY <1>1, <4>1
    <3> HIDE DEF row
    <3>3. CompactedData(client) = [mem EXCEPT ![b] = row]
      BY <1>0, <2>1 DEF CompactedData, row
    <3>4. ASSUME NEW k \in 1 .. c PROVE CompactedData(client)[b][at + k - 1] = mem[b][s + k - 1]
      <4>1. at + k - 1 = k - 1 /\ k - 1 \in Addresses /\ k - 1 < c /\ s + (k - 1) = s + k - 1
        BY <1>1, <1>2, <2>1 DEF Addresses
      <4> QED
        BY <1>1, <3>1, <3>3, <4>1
    <3> QED
      BY <1>1, <3>2, <3>3, <3>4
  <2>2. CASE ~(c # 0 /\ NeedsCompact(client))
    <3>1. CompactedData(client) = mem
      BY <1>0, <2>2 DEF CompactedData
    <3>2. ASSUME NEW k \in 1 .. c PROVE at = s
      BY <1>1, <1>2, <2>2
    <3> QED
      BY <1>1, <3>1, <3>2
  <2> QED
    BY <2>1, <2>2
<1> QED
  BY <1>0, <1>1, <1>2, <1>3, <1>5, <1>6, <1>7 DEF cl

LEMMA SubmitRecvStep ==
  ASSUME IInv, SubmitRecv
  PROVE  IInv'
<1>0. PICK b, s, c, h : b = client.buf /\ s = client.start /\ c = client.len /\ h = Len(handled)
  OBVIOUS
<1>1. PICK cl, room : cl = Compacted(client) /\ room = Space(cl)
  OBVIOUS
<1>2. /\ client.state = "ACTIVE" /\ ~processing /\ request = NoRequest
      /\ mem' = CompactedData(client)
      /\ UNCHANGED <<sent, wire, free, processing, kept, handled>>
  BY DEF SubmitRecv
<1>3. \/ room = 0 /\ client' = [cl EXCEPT !.state = "CLOSING"] /\ request' = request
      \/ /\ room # 0 /\ client' = cl
         /\ request' = [buf |-> cl.buf, at |-> cl.start + cl.len, space |-> room, res |-> 0]
  BY <1>1 DEF SubmitRecv
<1>4. TypeOK /\ RequestOK /\ HandledOK /\ Stream /\ FrontOK
  BY DEF IInv
<1>5. /\ cl \in ClientTypes /\ cl.buf = b /\ cl.len = c /\ cl.state = "ACTIVE"
      /\ cl.connected = client.connected /\ room \in Nat /\ (cl.start + c) + room = BufSize
      /\ cl.start + c <= BufSize
      /\ room = 0 => c = BufSize /\ c > 0
      /\ mem' \in [Bufs -> [Addresses -> Byte]]
      /\ \A x \in Bufs : x # b => mem'[x] = mem[x]
      /\ \A k \in 1 .. c : mem'[b][cl.start + k - 1] = mem[b][s + k - 1]
  BY <1>0, <1>1, <1>2, <1>4, CompactedLemma
<1>6. /\ client' \in ClientTypes /\ client'.buf = b /\ client'.len = c
      /\ client'.start = cl.start /\ client'.connected = client.connected
  BY <1>3, <1>5 DEF ClientTypes
<1>7. /\ s \in Nat /\ c \in Nat /\ BufSize \in Nat /\ InBuffer = c /\ b \in Bufs
      /\ Len(wire) \in Nat /\ UnreadLen = c + Len(wire)
  <2>1. request.res = 0
    BY <1>2 DEF NoRequest
  <2> QED
    BY <1>0, <1>4, <2>1, Sizes DEF TypeOK
<1>8. cl.start \in Nat
  BY <1>5, <1>7 DEF ClientTypes
<1>9. request'.res = 0 /\ request'.at + request'.space <= BufSize
  <2>1. CASE request' = request
    BY <1>2, <1>7, <2>1 DEF NoRequest
  <2>2. CASE request' = [buf |-> cl.buf, at |-> cl.start + cl.len, space |-> room, res |-> 0]
    <3>1. request'.at = cl.start + c /\ request'.space = room /\ request'.res = 0
      BY <1>5, <2>2
    <3> QED
      BY <1>5, <1>7, <1>8, <3>1
  <2> QED
    BY <1>3, <2>1, <2>2
<1>10. TypeOK'
  <2>1. client'.start + client'.len <= BufSize
    BY <1>5, <1>6
  <2>2. free' \subseteq Bufs \ {client'.buf}
    BY <1>0, <1>2, <1>4, <1>6 DEF TypeOK
  <2> QED
    BY <1>2, <1>4, <1>5, <1>6, <1>9, <2>1, <2>2 DEF TypeOK, ClientTypes
<1>11. RequestOK' /\ ClosedOK'
  <2>1. CASE room = 0
    BY <1>2, <1>3, <2>1 DEF RequestOK, ClosedOK
  <2>2. CASE room # 0
    <3>1. client' = cl
          /\ request' = [buf |-> b, at |-> cl.start + c, space |-> room, res |-> 0]
      BY <1>3, <1>5, <2>2
    <3>2. client'.state = "ACTIVE" /\ client'.buf = b /\ client'.start + client'.len = cl.start + c
      BY <1>5, <3>1
    <3>3. request' \in [buf : {b}, at : {cl.start + c}, space : Nat, res : Nat]
      BY <1>5, <3>1
    <3>4. request'.at + request'.space = BufSize /\ request'.res <= request'.space
      BY <1>5, <3>1
    <3> QED
      BY <1>2, <3>2, <3>3, <3>4 DEF RequestOK, ClosedOK
  <2> QED
    BY <2>1, <2>2
<1>12. InBuffer' = c /\ UnreadLen' = UnreadLen
  <2>1. InBuffer' = c
    BY <1>6, <1>7, <1>9 DEF InBuffer
  <2> QED
    BY <1>2, <1>7, <2>1 DEF UnreadLen
<1>13. ASSUME NEW k \in 1 .. UnreadLen PROVE Unread(k)' = Unread(k)
  <2>1. CASE k <= c
    <3>1. k \in 1 .. c
      BY <1>7, <2>1
    <3>2. Unread(k)' = mem'[b][cl.start + k - 1] /\ Unread(k) = mem[b][s + k - 1]
      BY <1>0, <1>6, <1>7, <1>12, <2>1 DEF Unread
    <3> QED
      BY <1>5, <3>1, <3>2
  <2>2. CASE ~(k <= c)
    BY <1>2, <1>7, <1>12, <2>2 DEF Unread
  <2> QED
    BY <2>1, <2>2
<1>14. Stream'
  BY <1>2, <1>4, <1>12, <1>13, StreamKept
<1>15. KeptOK'
  <2>1. \A m \in kept : mem'[m.buf] = mem[m.buf]
    BY <1>0, <1>5 DEF IInv, KeptOK
  <2> QED
    BY <1>0, <1>2, <1>6, <2>1, KeptStays
<1>16. HandledOK' /\ ConnectedOK' /\ \A i : Unacceptable(i)' <=> Unacceptable(i)
  BY <1>2, <1>6, PacketsStay
<1>17. FrontOK'
  BY <1>0, <1>2, <1>4, <1>6, <1>16 DEF FrontOK
<1>18. CloseJustified'
  <2>1. CASE room = 0
    <3>1. c = BufSize /\ c > 0
      BY <1>5, <2>1
    <3>2. h + 1 \in 1 .. Len(sent) /\ h \in Nat /\ Len(sent) \in Nat
          /\ sent[h + 1] \in PacketTypes
      BY <1>0, <1>4, <3>1, FrontRead, Sizes
    <3>3. TotalLen(sent[h + 1]) \in Nat
      BY <3>2, TotalNat
    <3>4. Unacceptable(h + 1) \/ BufSize < TotalLen(sent[h + 1])
      BY <1>0, <1>2, <1>4, <3>1 DEF FrontOK
    <3>5. Unacceptable(h + 1)
      BY <1>7, <3>3, <3>4 DEF Unacceptable
    <3> QED
      BY <1>0, <1>2, <1>16, <3>2, <3>5 DEF CloseJustified
  <2>2. CASE room # 0
    BY <1>3, <1>5, <2>2 DEF CloseJustified
  <2> QED
    BY <2>1, <2>2
<1> QED
  BY <1>10, <1>11, <1>14, <1>15, <1>16, <1>17, <1>18 DEF IInv

(* What a completed receive has put behind the data counts as data.            *)
LEMMA RecvDataStep ==
  ASSUME IInv, RecvData
  PROVE  IInv'
<1>0. PICK b, s, c, r : /\ b = client.buf /\ s = client.start /\ c = client.len
                        /\ r = request.res
  OBVIOUS
<1>1. /\ request # NoRequest /\ r > 0 /\ client' = [client EXCEPT !.len = c + r]
      /\ request' = NoRequest /\ processing' = TRUE
      /\ UNCHANGED <<sent, wire, mem, free, kept, handled>>
  BY <1>0 DEF RecvData
<1>2. /\ client \in ClientTypes /\ s \in Nat /\ c \in Nat /\ r \in Nat /\ s + c + r <= BufSize
      /\ BufSize \in Nat /\ InBuffer = c + r /\ UnreadLen = InBuffer + Len(wire)
      /\ client.state = "ACTIVE"
  BY <1>0, <1>1, Sizes DEF IInv, RequestOK, TypeOK, ClientTypes
<1>3. c + r \in 0 .. BufSize
  BY <1>2
<1>4. /\ client' \in ClientTypes /\ client'.buf = b /\ client'.len = c + r /\ client'.start = s
      /\ client'.connected = client.connected /\ client'.state = "ACTIVE"
  BY <1>0, <1>1, <1>2, <1>3 DEF ClientTypes
<1>5. request'.res = 0 /\ request'.at = 0 /\ request'.space = 0
  BY <1>1 DEF NoRequest
<1>6. TypeOK'
  <2>1. client'.start + client'.len <= BufSize /\ request'.at + request'.space <= BufSize
    BY <1>2, <1>4, <1>5
  <2>2. free' \subseteq Bufs \ {client'.buf}
    BY <1>0, <1>1, <1>4 DEF IInv, TypeOK
  <2> QED
    BY <1>1, <1>4, <2>1, <2>2 DEF IInv, TypeOK, ClientTypes
<1>7. InBuffer' = InBuffer /\ UnreadLen' = UnreadLen
  <2>1. InBuffer' = InBuffer
    BY <1>2, <1>4, <1>5 DEF InBuffer
  <2> QED
    BY <1>1, <1>2, <2>1 DEF UnreadLen
<1>8. \A k \in 1 .. UnreadLen : Unread(k)' = Unread(k)
  BY <1>0, <1>1, <1>4, <1>7 DEF Unread
<1>9. Stream'
  BY <1>1, <1>7, <1>8, StreamKept DEF IInv
<1>10. KeptOK'
  BY <1>0, <1>1, <1>4, KeptStays
<1>11. HandledOK' /\ ConnectedOK'
  BY <1>1, <1>4, PacketsStay
<1>12. RequestOK' /\ FrontOK' /\ ClosedOK' /\ CloseJustified'
  BY <1>1, <1>4 DEF RequestOK, FrontOK, ClosedOK, CloseJustified
<1> QED
  BY <1>6, <1>9, <1>10, <1>11, <1>12 DEF IInv

LEMMA PacketHandledStep ==
  ASSUME IInv, PacketHandled
  PROVE  IInv'
<1>0. PICK b, s, c, h, l : /\ b = client.buf /\ s = client.start /\ c = client.len
                           /\ h = Len(handled) /\ l = Total
  OBVIOUS
<1>1. /\ AtPacket /\ Handle /\ client' = Consumed
      /\ UNCHANGED <<sent, wire, mem, free, request, processing, kept>>
  BY DEF PacketHandled
<1>2. /\ client' \in ClientTypes /\ client'.buf = b /\ client'.state = "ACTIVE"
      /\ client'.start = s + l /\ client'.len = c - l
      /\ client'.start + client'.len <= BufSize /\ client'.connected = Consumed.connected
  BY <1>0, <1>1, ConsumedLemma
<1>3. processing /\ request = NoRequest /\ h \in Nat /\ s \in Nat /\ c \in Nat
  BY <1>0, <1>1, Processing, Sizes DEF IInv, AtPacket
<1>4. /\ handled' \in Seq(Seq(Byte)) /\ Len(handled') = h + 1
      /\ \A i \in 1 .. h : handled'[i] = handled[i]
      /\ Stream' /\ HandledOK' /\ ConnectedOK'
  <2>1. \A k \in 1 .. client.len - Total :
          mem'[client'.buf][client'.start + k - 1] = mem[client.buf][client.start + Total + k - 1]
    BY <1>0, <1>1, <1>2
  <2> QED
    BY <1>0, <1>1, <1>2, <2>1, HandleStep
<1>5. TypeOK'
  <2>1. free' \subseteq Bufs \ {client'.buf}
    BY <1>0, <1>1, <1>2 DEF IInv, TypeOK
  <2> QED
    BY <1>1, <1>2, <1>4, <2>1 DEF IInv, TypeOK, ClientTypes
<1>6. KeptOK'
  <2> SUFFICES ASSUME NEW m \in kept
               PROVE  /\ m.buf \in Bufs /\ m.buf # b /\ m.buf \notin free
                      /\ \A n \in kept : n.buf = m.buf => n = m
                      /\ m.off \in Nat /\ m.len \in Nat /\ m.off + m.len <= BufSize
                      /\ m.no \in 1 .. h + 1
                      /\ \A k \in 1 .. m.len : mem[m.buf][m.off + k - 1] = handled'[m.no][k]
    BY <1>1, <1>2, <1>4 DEF KeptOK
  <2>1. m.no \in 1 .. h
    BY <1>0 DEF IInv, KeptOK
  <2>2. handled'[m.no] = handled[m.no] /\ m.no \in 1 .. h + 1
    BY <1>3, <1>4, <2>1
  <2> QED
    BY <1>0, <2>2 DEF IInv, KeptOK
<1>7. RequestOK' /\ FrontOK' /\ ClosedOK' /\ CloseJustified'
  BY <1>1, <1>2, <1>3 DEF RequestOK, FrontOK, ClosedOK, CloseJustified
<1> QED
  BY <1>4, <1>5, <1>6, <1>7 DEF IInv

(* The message stays where it is; the rest of the data goes to another buffer. *)
LEMMA PublishStep ==
  ASSUME IInv, NEW keep \in BOOLEAN, Publish(keep)
  PROVE  IInv'
<1>0. PICK b, s, c, h, l : /\ b = client.buf /\ s = client.start /\ c = client.len
                           /\ h = Len(handled) /\ l = Total
  OBVIOUS
<1> DEFINE new == [buf |-> b, off |-> s, len |-> l, no |-> h + 1]
<1>1. PICK buf \in free :
        /\ mem' = Copied(buf)
        /\ client' = Stolen(Consumed, buf)
        /\ free' = (free \ {buf}) \cup (IF keep THEN {} ELSE {b})
  BY <1>0 DEF Publish
<1>2. /\ AtPacket /\ Handle /\ UNCHANGED <<sent, wire, request, processing>>
      /\ kept' = kept \cup (IF keep THEN {new} ELSE {})
  BY <1>0 DEF Publish
<1>3. /\ Consumed \in ClientTypes /\ Consumed.state = "ACTIVE" /\ Consumed.start = s + l
      /\ Consumed.len = c - l /\ Consumed.start + Consumed.len <= BufSize
  BY <1>0, <1>2, ConsumedLemma
<1>4. /\ processing /\ request = NoRequest /\ h \in Nat /\ s \in Nat /\ c \in Nat
      /\ BufSize \in Nat /\ s + c <= BufSize /\ l \in Nat \ {0} /\ l <= c
      /\ b \in Bufs /\ buf \in Bufs /\ buf # b /\ b \notin free
      /\ mem \in [Bufs -> [Addresses -> Byte]]
  <2>1. processing /\ request = NoRequest
    BY <1>2, Processing DEF AtPacket
  <2>2. l \in Nat \ {0} /\ l <= c
    BY <1>0, <1>2, AtFront
  <2>3. /\ b \in Bufs /\ free \subseteq Bufs \ {b} /\ s + c <= BufSize
        /\ mem \in [Bufs -> [Addresses -> Byte]]
    BY <1>0 DEF IInv, TypeOK
  <2> QED
    BY <1>0, <1>1, <2>1, <2>2, <2>3, Sizes DEF IInv
<1>5. /\ client' \in ClientTypes /\ client'.buf = buf /\ client'.state = "ACTIVE"
      /\ client'.start = 0 /\ client'.len = c - l /\ client'.connected = Consumed.connected
  <2>1. 0 \in 0 .. BufSize
    BY <1>4
  <2> QED
    BY <1>1, <1>3, <1>4, <2>1 DEF Stolen, ClientTypes
<1> DEFINE row == [a \in Addresses |-> IF a < c - l THEN mem[b][(s + l) + a] ELSE mem[buf][a]]
<1>6. mem' = [mem EXCEPT ![buf] = row]
  BY <1>0, <1>1, <1>3 DEF Copied
<1>7. row \in [Addresses -> Byte]
  <2> SUFFICES ASSUME NEW a \in Addresses
               PROVE  (IF a < c - l THEN mem[b][(s + l) + a] ELSE mem[buf][a]) \in Byte
    OBVIOUS
  <2>1. a < c - l => (s + l) + a \in Addresses
    BY <1>4 DEF Addresses
  <2> QED
    BY <1>4, <2>1
<1>8. \A a \in Addresses : row[a] = IF a < c - l THEN mem[b][(s + l) + a] ELSE mem[buf][a]
  OBVIOUS
<1> HIDE DEF row
<1>9. /\ mem' \in [Bufs -> [Addresses -> Byte]] /\ mem'[buf] = row
      /\ \A x \in Bufs : x # buf => mem'[x] = mem[x]
  BY <1>4, <1>6, <1>7
<1>10. \A k \in 1 .. client.len - Total :
         mem'[client'.buf][client'.start + k - 1] = mem[client.buf][client.start + Total + k - 1]
  <2> SUFFICES ASSUME NEW k \in 1 .. c - l
               PROVE  mem'[buf][0 + k - 1] = mem[b][s + l + k - 1]
    BY <1>0, <1>5
  <2>1. /\ 0 + k - 1 \in Addresses /\ 0 + k - 1 < c - l
        /\ (s + l) + (0 + k - 1) = s + l + k - 1
    BY <1>4 DEF Addresses
  <2> QED
    BY <1>8, <1>9, <2>1
<1>11. /\ handled' \in Seq(Seq(Byte)) /\ Len(handled') = h + 1
       /\ \A i \in 1 .. h : handled'[i] = handled[i]
       /\ handled'[h + 1] = [k \in 1 .. l |-> Data(client)[k - 1]]
       /\ Stream' /\ HandledOK' /\ ConnectedOK'
  BY <1>0, <1>2, <1>5, <1>10, HandleStep
<1>12. TypeOK'
  <2>1. free' \subseteq Bufs \ {client'.buf}
    BY <1>0, <1>1, <1>4, <1>5 DEF IInv, TypeOK
  <2>2. client'.start + client'.len <= BufSize
    BY <1>4, <1>5
  <2> QED
    BY <1>2, <1>5, <1>9, <1>11, <2>1, <2>2 DEF IInv, TypeOK, ClientTypes
<1>13. ASSUME NEW m \in kept
       PROVE  /\ m.buf \in Bufs /\ m.buf # buf /\ m.buf # b /\ m.buf \notin free'
              /\ \A n \in kept : n.buf = m.buf => n = m
              /\ m.off \in Nat /\ m.len \in Nat /\ m.off + m.len <= BufSize
              /\ m.no \in 1 .. h + 1
              /\ \A k \in 1 .. m.len : mem'[m.buf][m.off + k - 1] = handled'[m.no][k]
  <2>1. /\ m.buf \in Bufs /\ m.buf # b /\ m.buf \notin free /\ m.no \in 1 .. h
        /\ \A n \in kept : n.buf = m.buf => n = m
        /\ m.off \in Nat /\ m.len \in Nat /\ m.off + m.len <= BufSize
        /\ \A k \in 1 .. m.len : mem[m.buf][m.off + k - 1] = handled[m.no][k]
    BY <1>0 DEF IInv, KeptOK
  <2>2. m.buf # buf /\ m.buf \notin free' /\ mem'[m.buf] = mem[m.buf]
    BY <1>1, <1>9, <2>1
  <2>3. handled'[m.no] = handled[m.no] /\ m.no \in 1 .. h + 1
    BY <1>4, <1>11, <2>1
  <2> QED
    BY <2>1, <2>2, <2>3
<1>14. /\ new.buf = b /\ new.off = s /\ new.len = l /\ new.no = h + 1
       /\ s + l <= BufSize /\ h + 1 \in 1 .. h + 1
       /\ \A k \in 1 .. l : mem'[b][s + k - 1] = handled'[h + 1][k]
  <2> SUFFICES ASSUME NEW k \in 1 .. l PROVE mem'[b][s + k - 1] = handled'[h + 1][k]
    BY <1>4
  <2>1. k - 1 \in 0 .. c - 1 /\ s + (k - 1) = s + k - 1
    BY <1>4
  <2>2. Data(client)[k - 1] = mem[b][s + (k - 1)]
    BY <1>0, <2>1 DEF Data
  <2> QED
    BY <1>4, <1>9, <1>11, <2>1, <2>2
<1> HIDE DEF new
<1>15. KeptOK'
  <2>1. CASE ~keep
    <3>1. kept' = kept
      BY <1>2, <2>1
    <3> QED
      BY <1>5, <1>11, <1>13, <3>1 DEF KeptOK
  <2>2. CASE keep
    <3>1. kept' = kept \cup {new} /\ free' = free \ {buf}
      BY <1>1, <1>2, <2>2
    <3> SUFFICES ASSUME NEW m \in kept \cup {new}
                 PROVE  /\ m.buf \in Bufs /\ m.buf # buf /\ m.buf \notin free'
                        /\ \A n \in kept \cup {new} : n.buf = m.buf => n = m
                        /\ m.off \in Nat /\ m.len \in Nat /\ m.off + m.len <= BufSize
                        /\ m.no \in 1 .. h + 1
                        /\ \A k \in 1 .. m.len : mem'[m.buf][m.off + k - 1] = handled'[m.no][k]
      BY <1>5, <1>11, <3>1 DEF KeptOK
    <3>2. CASE m \in kept
      BY <1>13, <1>14, <3>2
    <3>3. CASE m = new
      <4>1. \A n \in kept \cup {new} : n.buf = b => n = new
        BY <1>13
      <4>2. b \notin free'
        BY <1>4, <3>1
      <4> QED
        BY <1>4, <1>14, <3>3, <4>1, <4>2
    <3> QED
      BY <3>2, <3>3
  <2> QED
    BY <2>1, <2>2
<1>16. RequestOK' /\ FrontOK' /\ ClosedOK' /\ CloseJustified'
  BY <1>2, <1>4, <1>5 DEF RequestOK, FrontOK, ClosedOK, CloseJustified
<1> QED
  BY <1>11, <1>12, <1>15, <1>16 DEF IInv

(* What a step leaves alone that changes no byte and no buffer. *)
LEMMA BytesStay ==
  ASSUME IInv, UNCHANGED <<sent, wire, mem, request, handled>>, client'.buf = client.buf,
         client'.start = client.start, client'.len = client.len
  PROVE  Stream'
<1>1. InBuffer' = InBuffer /\ UnreadLen' = UnreadLen
  BY DEF InBuffer, UnreadLen
<1>2. \A k \in 1 .. UnreadLen : Unread(k)' = Unread(k)
  BY <1>1 DEF Unread
<1> QED
  BY <1>1, <1>2, StreamKept DEF IInv

LEMMA PacketErrorStep ==
  ASSUME IInv, PacketError
  PROVE  IInv'
<1>0. PICK h : h = Len(handled)
  OBVIOUS
<1>1. /\ processing /\ client' = [client EXCEPT !.state = "CLOSING"] /\ processing' = FALSE
      /\ UNCHANGED <<sent, wire, mem, free, request, kept, handled>>
      /\ \/ Packet.result = "MALFORMED"
         \/ /\ Packet.result = "OK"
            /\ Rejects(Packet.type, Packet.remaining_len, client.connected)
  BY DEF PacketError
<1>2. client \in ClientTypes /\ request = NoRequest
  BY <1>1, Processing DEF IInv, TypeOK, ClientTypes
<1>3. /\ client' \in ClientTypes /\ client'.buf = client.buf /\ client'.start = client.start
      /\ client'.len = client.len /\ client'.connected = client.connected
  BY <1>1, <1>2 DEF ClientTypes
<1>4. client.len > 0
  BY <1>1, EmptyFront DEF IInv
<1>5. h + 1 \in 1 .. Len(sent) /\ ReadOf(Packet, sent[h + 1])
  BY <1>0, <1>4, FrontRead
<1>6. Unacceptable(h + 1)
  <2>1. CASE Packet.result = "MALFORMED"
    BY <1>5, <2>1 DEF ReadOf, Unacceptable
  <2>2. CASE Packet.result = "OK" /\ Rejects(Packet.type, Packet.remaining_len, client.connected)
    <3>1. Packet.type = sent[h + 1].type /\ Packet.remaining_len = sent[h + 1].len
      BY <1>5, <2>2 DEF ReadOf
    <3>2. client.connected <=> ConnectedBefore(h + 1)
      BY <1>0 DEF IInv, ConnectedOK
    <3>3. Rejects(sent[h + 1].type, sent[h + 1].len, ConnectedBefore(h + 1))
      BY <2>2, <3>1, <3>2 DEF Rejects
    <3> QED
      BY <3>3 DEF Unacceptable
  <2> QED
    BY <1>1, <2>1, <2>2
<1>7. HandledOK' /\ ConnectedOK' /\ \A i : Unacceptable(i)' <=> Unacceptable(i)
  BY <1>1, <1>3, PacketsStay
<1>8. TypeOK'
  BY <1>1, <1>3 DEF IInv, TypeOK, ClientTypes
<1>9. Stream' /\ KeptOK'
  BY <1>1, <1>3, BytesStay, KeptStays
<1>10. h < Len(sent)
  BY <1>0, <1>5, Sizes DEF IInv
<1>11. RequestOK' /\ FrontOK' /\ ClosedOK' /\ CloseJustified'
  BY <1>0, <1>1, <1>2, <1>6, <1>7, <1>10 DEF RequestOK, FrontOK, ClosedOK, CloseJustified
<1> QED
  BY <1>7, <1>8, <1>9, <1>11 DEF IInv

LEMMA BufferDoneStep ==
  ASSUME IInv, BufferDone
  PROVE  IInv'
<1>0. PICK h : h = Len(handled)
  OBVIOUS
<1>1. /\ processing /\ Packet.result = "INCOMPLETE" /\ processing' = FALSE
      /\ UNCHANGED <<sent, wire, mem, free, client, request, kept, handled>>
  BY DEF BufferDone
<1>2. request = NoRequest /\ client.state = "ACTIVE"
  BY <1>1, Processing
<1>3. HandledOK' /\ ConnectedOK' /\ \A i : Unacceptable(i)' <=> Unacceptable(i)
  BY <1>1, PacketsStay
<1>4. FrontOK'
  <2> SUFFICES ASSUME client.len > 0
               PROVE  Unacceptable(h + 1) \/ client.len < TotalLen(sent[h + 1])
    BY <1>0, <1>1, <1>3 DEF FrontOK
  <2>1. TooLong(sent[h + 1].len) \/ client.len < TotalLen(sent[h + 1])
    BY <1>0, <1>1, FrontRead
  <2> QED
    BY <2>1 DEF Unacceptable
<1>5. TypeOK' /\ Stream' /\ KeptOK'
  BY <1>1, BytesStay, KeptStays DEF IInv, TypeOK
<1>6. RequestOK' /\ ClosedOK' /\ CloseJustified'
  BY <1>1, <1>2 DEF RequestOK, ClosedOK, CloseJustified
<1> QED
  BY <1>3, <1>4, <1>5, <1>6 DEF IInv

LEMMA MessageDoneStep ==
  ASSUME IInv, NEW m \in kept, MessageDone(m)
  PROVE  IInv'
<1>1. /\ kept' = kept \ {m} /\ free' = free \cup {m.buf}
      /\ UNCHANGED <<sent, wire, mem, client, request, processing, handled>>
  BY DEF MessageDone
<1>2. m.buf \in Bufs /\ m.buf # client.buf
  BY DEF IInv, KeptOK
<1>3. TypeOK'
  BY <1>1, <1>2 DEF IInv, TypeOK
<1>4. KeptOK'
  <2> SUFFICES ASSUME NEW n \in kept, n # m
               PROVE  /\ n.buf \in Bufs /\ n.buf # client.buf /\ n.buf \notin free \cup {m.buf}
                      /\ \A o \in kept \ {m} : o.buf = n.buf => o = n
                      /\ n.off \in Nat /\ n.len \in Nat /\ n.off + n.len <= BufSize
                      /\ n.no \in 1 .. Len(handled)
                      /\ \A k \in 1 .. n.len : mem[n.buf][n.off + k - 1] = handled[n.no][k]
    BY <1>1 DEF KeptOK
  <2>1. n.buf # m.buf
    BY DEF IInv, KeptOK
  <2> QED
    BY <2>1 DEF IInv, KeptOK
<1>5. HandledOK' /\ ConnectedOK' /\ \A i : Unacceptable(i)' <=> Unacceptable(i)
  BY <1>1, PacketsStay
<1>6. Stream'
  BY <1>1, BytesStay
<1>7. RequestOK' /\ FrontOK' /\ ClosedOK' /\ CloseJustified'
  BY <1>1, <1>5 DEF IInv, RequestOK, FrontOK, ClosedOK, CloseJustified
<1> QED
  BY <1>3, <1>4, <1>5, <1>6, <1>7 DEF IInv

LEMMA NextIInv == IInv /\ [Next]_vars => IInv'
<1> SUFFICES ASSUME IInv, [Next]_vars PROVE IInv'
  OBVIOUS
<1>1. CASE UNCHANGED vars
  <2>1. UNCHANGED <<sent, wire, mem, free, client, request, processing, kept, handled>>
    BY <1>1 DEF vars
  <2>2. HandledOK' /\ ConnectedOK' /\ \A i : Unacceptable(i)' <=> Unacceptable(i)
    BY <2>1, PacketsStay
  <2>3. TypeOK' /\ RequestOK' /\ Stream' /\ KeptOK'
    BY <2>1, BytesStay, KeptStays DEF IInv, TypeOK, RequestOK
  <2>4. FrontOK' /\ ClosedOK' /\ CloseJustified'
    BY <2>1, <2>2 DEF IInv, FrontOK, ClosedOK, CloseJustified
  <2> QED
    BY <2>2, <2>3, <2>4 DEF IInv
<1>2. CASE SubmitRecv
  BY <1>2, SubmitRecvStep
<1>3. CASE RecvData
  BY <1>3, RecvDataStep
<1>4. CASE PacketHandled
  BY <1>4, PacketHandledStep
<1>5. CASE PacketError
  BY <1>5, PacketErrorStep
<1>6. CASE BufferDone
  BY <1>6, BufferDoneStep
<1>7. ASSUME NEW p \in Packets, Send(p) PROVE IInv'
  BY <1>7, SendStep
<1>8. ASSUME NEW n \in 1 .. BufSize, KernelRecv(n) PROVE IInv'
  BY <1>8, KernelRecvStep
<1>9. ASSUME NEW keep \in BOOLEAN, Publish(keep) PROVE IInv'
  BY <1>9, PublishStep
<1>10. ASSUME NEW m \in kept, MessageDone(m) PROVE IInv'
  BY <1>10, MessageDoneStep
<1> QED
  BY <1>1, <1>2, <1>3, <1>4, <1>5, <1>6, <1>7, <1>8, <1>9, <1>10 DEF Next, Loop

-------------------------------------------------------------------------------
(* The theorems.                                                               *)

(* The inductive invariant.                                                    *)
THEOREM IInvHolds == Spec => []IInv
<1> QED
  BY InitIInv, NextIInv, PTL DEF Spec

(* The receive buffer's data and the room offered to the kernel never reach     *)
(* past recv_buf_size, and the slot's buffer is never also in the pool.         *)
THEOREM TypeCorrect == Spec => []TypeOK
<1>1. IInv => TypeOK
  BY DEF IInv
<1> QED
  BY <1>1, IInvHolds, PTL

(* process_recv_buffer hands over the packets that were sent, in order and byte *)
(* for byte, whatever pieces they come in, whatever is compacted or stolen.     *)
THEOREM PacketsCorrect == Spec => []PacketsExact
<1>1. IInv => PacketsExact
  <2> SUFFICES ASSUME IInv PROVE PacketsExact
    OBVIOUS
  <2>1. DOMAIN handled = 1 .. Len(handled)
    BY DEF IInv, TypeOK
  <2> QED
    BY <2>1 DEF IInv, HandledOK, PacketsExact
<1> QED
  BY <1>1, IInvHolds, PTL

(* A buffer that steal_recv_buffer gave to a message keeps the bytes that were  *)
(* published, is in nobody else's hands and is not received into.               *)
THEOREM StolenCorrect == Spec => []StolenIntact
<1>1. IInv => StolenIntact
  <2> SUFFICES ASSUME IInv, NEW m \in kept
               PROVE  /\ m.buf \notin free \cup {client.buf, request.buf}
                      /\ \A n \in kept : n.buf = m.buf => n = m
                      /\ \A k \in 1 .. m.len : mem[m.buf][m.off + k - 1] = handled[m.no][k]
    BY DEF StolenIntact
  <2>1. m.buf \in Bufs /\ m.buf # client.buf /\ m.buf \notin free
    BY DEF IInv, KeptOK
  <2>2. request.buf = "none" \/ request.buf = client.buf
    BY DEF IInv, RequestOK, NoRequest
  <2>3. m.buf # "none"
    BY <2>1, BufsAssumption
  <2> QED
    BY <2>1, <2>2, <2>3 DEF IInv, KeptOK
<1> QED
  BY <1>1, IInvHolds, PTL

(* The broker closes a connection of its own accord only over a packet that is  *)
(* wrong where it stands or larger than a buffer: submit_recv_internal never    *)
(* finds the buffer full with a packet in it that would fit.                    *)
THEOREM CloseCorrect == Spec => []CloseJustified
<1>1. IInv => CloseJustified
  BY DEF IInv
<1> QED
  BY <1>1, IInvHolds, PTL

===============================================================================
