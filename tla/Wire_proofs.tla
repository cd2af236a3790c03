---------------------------- MODULE Wire_proofs ----------------------------
(***************************************************************************)
(* Proofs about what one process reads of another: the messages of Codec,  *)
(* for every base of the bytes, every payload and any number of messages;  *)
(* the addresses of Registry, for every set of servers and addresses and   *)
(* every number of changes in etcd.                                        *)
(***************************************************************************)
EXTENDS Codec, Registry, SequenceTheorems, WellFoundedInduction, TLAPS

-----------------------------------------------------------------------------
(* The checksum is a number. *)

(* The library's induction takes an operator; a set of numbers has a least one without it. *)
LEMMA LeastNumber ==
  ASSUME NEW T \in SUBSET Nat, T # {}
  PROVE  \E x \in T : \A y \in T : x <= y
<1> DEFINE R == {ss \in Nat \X Nat : ss[1] < ss[2]}
<1>1. IsWellFoundedOn(R, Nat)
  BY NatLessThanWellFounded DEF OpToRel
<1>2. \A x, y \in Nat : y < x => <<y, x>> \in R
  OBVIOUS
<1> HIDE DEF R
<1>3. PICK x \in T : \A y \in T : ~ (<<y, x>> \in R)
  BY <1>1, WFMin
<1>4. \A y \in T : ~ (y < x)
  BY <1>2, <1>3
<1>5. QED
  BY <1>4

(* g holds the sums of the first words up to m. *)
SumsTo(w, m, g) ==
  /\ g \in [0 .. m -> Int] /\ g[0] = 0
  /\ \A i \in 1 .. m : g[i] = g[i - 1] + w[i]

LEMMA SumsExist ==
  ASSUME NEW n \in Nat, NEW w \in [1 .. n -> Int]
  PROVE  \E g : SumsTo(w, n, g)
<1>1. PICK T \in SUBSET Nat : T = {m \in 0 .. n : ~ \E g : SumsTo(w, m, g)}
  <2>1. {m \in 0 .. n : ~ \E g : SumsTo(w, m, g)} \in SUBSET Nat
    OBVIOUS
  <2>2. QED
    BY <2>1
<1>2. SUFFICES ASSUME T # {} PROVE FALSE
  <2>1. n \in 0 .. n
    OBVIOUS
  <2>2. QED
    BY <1>1, <2>1
<1>3. PICK m \in T : \A y \in T : m <= y
  BY <1>2, LeastNumber
<1>4. m \in 0 .. n /\ ~ \E g : SumsTo(w, m, g)
  BY <1>1
<1>5. CASE m = 0
  <2>1. [i \in 0 .. 0 |-> 0] \in [0 .. 0 -> Int] /\ [i \in 0 .. 0 |-> 0][0] = 0
    OBVIOUS
  <2>2. SumsTo(w, 0, [i \in 0 .. 0 |-> 0])
    BY <2>1 DEF SumsTo
  <2>3. QED
    BY <1>4, <1>5, <2>2
<1>6. CASE m # 0
  <2>1. PICK k \in 0 .. n : k = m - 1 /\ k + 1 = m /\ k \notin T
    BY <1>3, <1>4, <1>6
  <2>2. PICK g : SumsTo(w, k, g)
    BY <1>1, <2>1
  <2>3. PICK h : h = [i \in 0 .. m |-> IF i = m THEN g[k] + w[m] ELSE g[i]]
    OBVIOUS
  <2>4. h[m] = g[k] + w[m] /\ \A i \in 0 .. k : h[i] = g[i]
    BY <2>1, <2>3
  <2>5. w[m] \in Int /\ g[k] \in Int
    BY <1>4, <2>1, <2>2 DEF SumsTo
  <2>6. h \in [0 .. m -> Int]
    BY <2>1, <2>2, <2>3, <2>5 DEF SumsTo
  <2>7. \A i \in 1 .. m : h[i] = h[i - 1] + w[i]
    <3>1. ASSUME NEW i \in 1 .. m
          PROVE  h[i] = h[i - 1] + w[i]
      <4>1. i - 1 \in 0 .. k /\ h[i - 1] = g[i - 1]
        BY <2>1, <2>4
      <4>2. CASE i = m
        <5>1. i - 1 = k
          BY <2>1, <4>2
        <5>2. QED
          BY <2>4, <4>1, <4>2, <5>1
      <4>3. CASE i # m
        <5>1. i \in 1 .. k /\ h[i] = g[i]
          BY <2>1, <2>4, <4>3
        <5>2. QED
          BY <2>2, <4>1, <5>1 DEF SumsTo
      <4>4. QED
        BY <4>2, <4>3
    <3>2. QED
      BY <3>1
  <2>8. SumsTo(w, m, h)
    BY <2>1, <2>2, <2>4, <2>6, <2>7 DEF SumsTo
  <2>9. QED
    BY <1>4, <2>8
<1>7. QED
  BY <1>5, <1>6

LEMMA SumIsInt ==
  ASSUME NEW n \in Nat, NEW w \in [1 .. n -> Int], Len(w) = n
  PROVE  SumOf(w) \in Int
<1>1. PICK g : SumsTo(w, n, g)
  BY SumsExist
<1>2. g = [i \in 0 .. n |-> IF i = 0 THEN 0 ELSE g[i - 1] + w[i]]
  BY <1>1 DEF SumsTo
<1>3. PICK f : f = CHOOSE h : h = [i \in 0 .. n |-> IF i = 0 THEN 0 ELSE h[i - 1] + w[i]]
  OBVIOUS
<1>4. f = [i \in 0 .. n |-> IF i = 0 THEN 0 ELSE f[i - 1] + w[i]]
  BY <1>2, <1>3
<1>5. SumOf(w) = f[n]
  BY <1>3 DEF SumOf
<1>6. PICK T \in SUBSET Nat : T = {i \in 0 .. n : f[i] \notin Int}
  <2>1. {i \in 0 .. n : f[i] \notin Int} \in SUBSET Nat
    OBVIOUS
  <2>2. QED
    BY <2>1
<1>7. T = {}
  <2>1. SUFFICES ASSUME T # {} PROVE FALSE
    OBVIOUS
  <2>2. PICK m \in T : \A y \in T : m <= y
    BY <2>1, LeastNumber
  <2>3. m \in 0 .. n /\ f[m] \notin Int /\ m \in Nat
    BY <1>6
  <2>4. m # 0
    BY <1>4, <2>3
  <2>5. m - 1 \in 0 .. n /\ m - 1 \notin T
    BY <2>2, <2>3, <2>4
  <2>6. f[m - 1] \in Int /\ w[m] \in Int
    BY <1>6, <2>3, <2>4, <2>5
  <2>7. QED
    BY <1>4, <2>3, <2>4, <2>6
<1>8. QED
  BY <1>5, <1>6, <1>7

LEMMA BaseFacts ==
  /\ Base \in Nat \ {0} /\ W \in Nat \ {0} /\ W - 1 \in Nat \ {0}
  /\ Magic \in Int /\ Cmds \subseteq Int /\ Payloads \subseteq Seq(Int)
<1>1. Base \in Nat \ {0, 1}
  BY CodecAssumption
<1>2. Base * Base \in Nat \ {0} /\ Base * Base - 1 \in Nat \ {0}
  BY <1>1
<1>3. Bytes \subseteq Int /\ 0 .. W - 1 \subseteq Int
  BY <1>1, <1>2 DEF Bytes, W
<1>4. Seq(Bytes) \subseteq Seq(Int)
  <2>1. ASSUME NEW s \in Seq(Bytes) PROVE s \in Seq(Int)
    <3>1. s \in [1 .. Len(s) -> Bytes] /\ Len(s) \in Nat
      BY LenProperties
    <3>2. s \in [1 .. Len(s) -> Int]
      BY <1>3, <3>1
    <3>3. QED
      BY <3>1, <3>2, SeqDef
  <2>2. QED
    BY <2>1
<1>5. QED
  BY <1>1, <1>2, <1>3, <1>4, CodecAssumption DEF W

(* The checksum fits its two bytes. *)
LEMMA CheckSumFits ==
  ASSUME NEW len \in Int, NEW cmd \in Int, NEW payload \in Seq(Int)
  PROVE  calculateCheckSum(len, cmd, payload) \in 0 .. W - 1
<1>1. PICK l \in Nat : l = Len(payload)
  BY LenProperties
<1>2. PICK n \in Nat : n = (l + 1) \div 2
  OBVIOUS
<1>3. \A i \in 1 .. n : 2 * i - 1 \in 1 .. l
  BY <1>1, <1>2
<1>4. \A i \in 1 .. l : payload[i] \in Int
  BY <1>1, ElementOfSeq
<1>5. PICK w : w = WordsOf(payload)
  OBVIOUS
<1>6. w = [i \in 1 .. n |-> Base * payload[2 * i - 1] + (IF 2 * i <= l THEN payload[2 * i] ELSE 0)]
  BY <1>1, <1>2, <1>5 DEF WordsOf
<1>7. w \in [1 .. n -> Int]
  <2>1. ASSUME NEW i \in 1 .. n
        PROVE  Base * payload[2 * i - 1] + (IF 2 * i <= l THEN payload[2 * i] ELSE 0) \in Int
    <3>1. payload[2 * i - 1] \in Int
      BY <1>3, <1>4
    <3>2. Base * payload[2 * i - 1] \in Int
      BY <3>1, BaseFacts
    <3>3. (IF 2 * i <= l THEN payload[2 * i] ELSE 0) \in Int
      BY <1>4
    <3>4. QED
      BY <3>2, <3>3
  <2>2. QED
    BY <1>6, <2>1
<1>8. Len(w) = n
  BY <1>7, SeqDef, LenProperties
<1>9. SumOf(w) \in Int
  BY <1>7, <1>8, SumIsInt
<1>10. PICK sum \in Int : sum = (Magic + len + cmd + SumOf(w)) % (W * W)
  <2>1. PICK x \in Int : x = Magic + len + cmd + SumOf(w)
    BY <1>9, BaseFacts
  <2>2. PICK y \in Nat \ {0} : y = W * W
    BY BaseFacts
  <2>3. x % y \in Int
    OBVIOUS
  <2>4. QED
    BY <2>1, <2>2, <2>3
<1>11. PICK v \in Nat \ {0} : v = W - 1
  BY BaseFacts
<1>12. (sum - 1) % v \in 0 .. v - 1
  OBVIOUS
<1>13. calculateCheckSum(len, cmd, payload) = v - (IF sum = 0 THEN 0 ELSE 1 + ((sum - 1) % v))
  BY <1>5, <1>10, <1>11 DEF calculateCheckSum
<1>14. QED
  BY <1>11, <1>12, <1>13

-----------------------------------------------------------------------------
(* A packed message. *)

(* The two bytes of a number are read as the number. *)
LEMMA FieldsAreRead ==
  ASSUME NEW x \in Int
  PROVE  /\ PutUint16(x) \in Seq(Int) /\ Len(PutUint16(x)) = 2
         /\ Base * PutUint16(x)[1] + PutUint16(x)[2] = x
<1>1. PICK b \in Nat \ {0} : b = Base
  BY BaseFacts
<1>2. x \div b \in Int /\ x % b \in Int /\ (b * (x \div b)) + (x % b) = x
  OBVIOUS
<1>3. PutUint16(x) = <<x \div b, x % b>>
  BY <1>1 DEF PutUint16
<1>4. QED
  BY <1>1, <1>2, <1>3

(* The stream or the frame s begins with message m. *)
Starts(s, m) ==
  /\ s \in Seq(Int) /\ Len(s) >= HeaderLen + 2 + Len(m.payload)
  /\ s[1] = Magic
  /\ Uint16(s, 1) = Len(m.payload) % W
  /\ Uint16(s, 3) = calculateCheckSum(Len(m.payload) % W, m.cmd, m.payload)
  /\ Uint16(s, HeaderLen) = m.cmd
  /\ \A j \in 1 .. Len(m.payload) : s[HeaderLen + 2 + j] = m.payload[j]

LEMMA Glued ==
  ASSUME NEW a \in Seq(Int), NEW b \in Seq(Int)
  PROVE  /\ a \o b \in Seq(Int) /\ Len(a \o b) = Len(a) + Len(b)
         /\ Len(a) \in Nat /\ Len(b) \in Nat
         /\ \A i \in 1 .. Len(a) : (a \o b)[i] = a[i]
         /\ \A i \in 1 .. Len(b) : (a \o b)[Len(a) + i] = b[i]
<1>1. /\ a \o b \in Seq(Int) /\ Len(a \o b) = Len(a) + Len(b)
      /\ \A i \in 1 .. Len(a) + Len(b) : (a \o b)[i] = IF i <= Len(a) THEN a[i] ELSE b[i - Len(a)]
  BY ConcatProperties
<1>2. PICK p \in Nat, q \in Nat : p = Len(a) /\ q = Len(b)
  BY LenProperties
<1>3. \A i \in 1 .. p : (a \o b)[i] = a[i]
  BY <1>1, <1>2
<1>4. ASSUME NEW i \in 1 .. q
      PROVE  (a \o b)[p + i] = b[i]
  <2>1. PICK j \in 1 .. p + q : j = p + i /\ ~(j <= p) /\ j - p = i
    OBVIOUS
  <2>2. (a \o b)[j] = b[j - p]
    BY <1>1, <1>2, <2>1
  <2>3. QED
    BY <2>1, <2>2
<1>5. QED
  BY <1>1, <1>2, <1>3, <1>4

LEMMA FieldGlued ==
  ASSUME NEW a \in Seq(Int), NEW b \in Seq(Int), Len(b) = 2
  PROVE  /\ a \o b \in Seq(Int) /\ Len(a \o b) = Len(a) + 2
         /\ (a \o b)[Len(a) + 1] = b[1] /\ (a \o b)[Len(a) + 2] = b[2]
         /\ \A i \in 1 .. Len(a) : (a \o b)[i] = a[i]
<1>1. /\ a \o b \in Seq(Int) /\ Len(a \o b) = Len(a) + Len(b)
      /\ \A i \in 1 .. Len(a) : (a \o b)[i] = a[i]
      /\ \A i \in 1 .. Len(b) : (a \o b)[Len(a) + i] = b[i]
  BY Glued
<1>2. 1 \in 1 .. Len(b) /\ 2 \in 1 .. Len(b)
  OBVIOUS
<1>3. QED
  BY <1>1, <1>2

LEMMA PackStarts ==
  ASSUME NEW m \in Messages
  PROVE  Starts(Pack(m), m) /\ Len(Pack(m)) = HeaderLen + 2 + Len(m.payload)
<1>1. m.cmd \in Int /\ m.payload \in Seq(Int)
  BY BaseFacts DEF Messages
<1>2. PICK len \in Int : len = Len(m.payload) % W
  <2>1. Len(m.payload) \in Nat
    BY <1>1, LenProperties
  <2>2. Len(m.payload) % W \in Int
    BY <2>1, BaseFacts
  <2>3. QED
    BY <2>2
<1>3. PICK sum \in Int : sum = calculateCheckSum(len, m.cmd, m.payload)
  BY <1>1, CheckSumFits
<1>4. PICK l \in Seq(Int) : l = PutUint16(len) /\ Len(l) = 2 /\ Base * l[1] + l[2] = len
  BY FieldsAreRead
<1>5. PICK c \in Seq(Int) : c = PutUint16(sum) /\ Len(c) = 2 /\ Base * c[1] + c[2] = sum
  BY FieldsAreRead
<1>6. PICK d \in Seq(Int) : d = PutUint16(m.cmd) /\ Len(d) = 2 /\ Base * d[1] + d[2] = m.cmd
  BY <1>1, FieldsAreRead
<1>7. PICK h : h = <<Magic>>
  OBVIOUS
<1>8. h \in Seq(Int) /\ Len(h) = 1 /\ h[1] = Magic
  <2>1. Magic \in Int
    BY BaseFacts
  <2>2. QED
    BY <1>7, <2>1
<1>9. PICK p \in Seq(Int) : p = m.payload
  BY <1>1
<1>10. Pack(m) = h \o l \o c \o d \o p
  BY <1>2, <1>3, <1>4, <1>5, <1>6, <1>7, <1>9 DEF Pack
<1>11. PICK s2 : s2 = h \o l
  OBVIOUS
<1>12. s2 \in Seq(Int) /\ Len(s2) = 3 /\ s2[2] = l[1] /\ s2[3] = l[2] /\ s2[1] = Magic
  <2>1. h \in Seq(Int) /\ l \in Seq(Int) /\ Len(l) = 2
    BY <1>4, <1>8
  <2>2. /\ h \o l \in Seq(Int) /\ Len(h \o l) = Len(h) + 2
        /\ (h \o l)[Len(h) + 1] = l[1] /\ (h \o l)[Len(h) + 2] = l[2]
        /\ \A i \in 1 .. Len(h) : (h \o l)[i] = h[i]
    BY <2>1, FieldGlued
  <2>3. Len(h) = 1
    BY <1>8
  <2>4. s2 \in Seq(Int) /\ Len(s2) = 1 + 2 /\ s2[1 + 1] = l[1] /\ s2[1 + 2] = l[2]
    BY <1>11, <2>2, <2>3, Zenon
  <2>5. s2[1] = h[1]
    <3>1. 1 \in 1 .. Len(h)
      BY <2>3
    <3>2. QED
      BY <1>11, <2>2, <3>1
  <2>6. QED
    BY <1>8, <2>4, <2>5
<1>13. PICK s3 : s3 = s2 \o c
  OBVIOUS
<1>14. s3 \in Seq(Int) /\ Len(s3) = 5 /\ s3[4] = c[1] /\ s3[5] = c[2] /\ \A i \in 1 .. 3 : s3[i] = s2[i]
  <2>1. s2 \in Seq(Int) /\ c \in Seq(Int) /\ Len(c) = 2
    BY <1>5, <1>12
  <2>2. /\ s2 \o c \in Seq(Int) /\ Len(s2 \o c) = Len(s2) + 2
        /\ (s2 \o c)[Len(s2) + 1] = c[1] /\ (s2 \o c)[Len(s2) + 2] = c[2]
        /\ \A i \in 1 .. Len(s2) : (s2 \o c)[i] = s2[i]
    BY <2>1, FieldGlued
  <2>3. Len(s2) = 3
    BY <1>12
  <2>4. /\ s3 \in Seq(Int) /\ Len(s3) = 3 + 2
        /\ s3[3 + 1] = c[1] /\ s3[3 + 2] = c[2]
        /\ \A i \in 1 .. 3 : s3[i] = s2[i]
    BY <1>13, <2>2, <2>3, Zenon
  <2>5. QED
    BY <2>4
<1>15. PICK s4 : s4 = s3 \o d
  OBVIOUS
<1>16. s4 \in Seq(Int) /\ Len(s4) = 7 /\ s4[6] = d[1] /\ s4[7] = d[2] /\ \A i \in 1 .. 5 : s4[i] = s3[i]
  <2>1. s3 \in Seq(Int) /\ d \in Seq(Int) /\ Len(d) = 2
    BY <1>6, <1>14
  <2>2. /\ s3 \o d \in Seq(Int) /\ Len(s3 \o d) = Len(s3) + 2
        /\ (s3 \o d)[Len(s3) + 1] = d[1] /\ (s3 \o d)[Len(s3) + 2] = d[2]
        /\ \A i \in 1 .. Len(s3) : (s3 \o d)[i] = s3[i]
    BY <2>1, FieldGlued
  <2>3. Len(s3) = 5
    BY <1>14
  <2>4. /\ s4 \in Seq(Int) /\ Len(s4) = 5 + 2
        /\ s4[5 + 1] = d[1] /\ s4[5 + 2] = d[2]
        /\ \A i \in 1 .. 5 : s4[i] = s3[i]
    BY <1>15, <2>2, <2>3, Zenon
  <2>5. QED
    BY <2>4
<1>17. PICK s : s = s4 \o p
  OBVIOUS
<1>18. /\ s \in Seq(Int) /\ Len(s) = 7 + Len(p)
       /\ \A i \in 1 .. 7 : s[i] = s4[i]
       /\ \A i \in 1 .. Len(p) : s[7 + i] = p[i]
  <2>1. /\ s4 \o p \in Seq(Int) /\ Len(s4 \o p) = Len(s4) + Len(p)
        /\ \A i \in 1 .. Len(s4) : (s4 \o p)[i] = s4[i]
        /\ \A i \in 1 .. Len(p) : (s4 \o p)[Len(s4) + i] = p[i]
    <3>1. s4 \in Seq(Int)
      BY <1>16
    <3>2. QED
      BY <3>1, Glued
  <2>2. Len(s4) = 7
    BY <1>16
  <2>3. QED
    BY <1>17, <2>1, <2>2, Zenon
<1>19. Pack(m) = s
  BY <1>10, <1>11, <1>13, <1>15, <1>17
<1>20. /\ s[1] = Magic /\ s[2] = l[1] /\ s[3] = l[2] /\ s[4] = c[1] /\ s[5] = c[2]
       /\ s[6] = d[1] /\ s[7] = d[2]
  <2>1. s4[4] = c[1] /\ s4[5] = c[2] /\ s4[1] = s3[1] /\ s4[2] = s3[2] /\ s4[3] = s3[3]
    BY <1>14, <1>16
  <2>2. s3[1] = Magic /\ s3[2] = l[1] /\ s3[3] = l[2]
    BY <1>12, <1>14
  <2>3. 1 \in 1 .. 7 /\ 2 \in 1 .. 7 /\ 3 \in 1 .. 7 /\ 4 \in 1 .. 7 /\ 5 \in 1 .. 7 /\ 6 \in 1 .. 7 /\ 7 \in 1 .. 7
    OBVIOUS
  <2>4. s[1] = s4[1] /\ s[2] = s4[2] /\ s[3] = s4[3] /\ s[4] = s4[4]
    BY <1>18, <2>3, Zenon
  <2>5. s[5] = s4[5] /\ s[6] = s4[6] /\ s[7] = s4[7]
    BY <1>18, <2>3, Zenon
  <2>6. s4[6] = d[1] /\ s4[7] = d[2]
    BY <1>16
  <2>7. QED
    BY <2>1, <2>2, <2>4, <2>5, <2>6, Zenon
<1>21. Uint16(s, 1) = len /\ Uint16(s, 3) = sum /\ Uint16(s, 5) = m.cmd
  <2>1. Uint16(s, 1) = Base * s[2] + s[3] /\ Uint16(s, 3) = Base * s[4] + s[5] /\ Uint16(s, 5) = Base * s[6] + s[7]
    BY DEF Uint16
  <2>2. QED
    BY <1>4, <1>5, <1>6, <1>20, <2>1
<1>22. HeaderLen = 5 /\ Len(p) \in Nat
  BY LenProperties DEF HeaderLen
<1>23. Starts(s, m)
  <2>1. Len(s) >= 5 + 2 + Len(p) /\ \A j \in 1 .. Len(p) : s[5 + 2 + j] = p[j]
    BY <1>22, <1>18
  <2>2. QED
    BY <1>2, <1>3, <1>9, <1>20, <1>21, <1>22, <1>18, <2>1 DEF Starts
<1>24. QED
  BY <1>9, <1>19, <1>22, <1>23, <1>18

-----------------------------------------------------------------------------
(* Everything on the wire is a byte, and no field says more than W - 1. *)
LEMMA TwoBytes ==
  ASSUME NEW x \in 0 .. W - 1
  PROVE  PutUint16(x) \in Seq(Bytes)
<1>1. PICK b \in Nat \ {0} : b = Base /\ x \in 0 .. b * b - 1
  BY BaseFacts DEF W
<1>2. PICK q \in Int, r \in 0 .. b - 1 : q = x \div b /\ r = x % b /\ b * q + r = x
  OBVIOUS
<1>3. q < b
  <2>1. SUFFICES ASSUME q >= b PROVE FALSE
    BY <1>2
  <2>2. PICK d \in Nat : q = b + d
    BY <2>1
  <2>3. b * q = b * b + b * d /\ b * d >= 0
    BY <2>2
  <2>4. QED
    BY <1>1, <1>2, <2>3
<1>4. q >= 0
  <2>1. SUFFICES ASSUME q < 0 PROVE FALSE
    BY <1>2
  <2>2. PICK d \in Nat : q = -1 - d
    BY <2>1
  <2>3. b * q = -b - b * d /\ b * d >= 0
    BY <2>2
  <2>4. QED
    BY <1>1, <1>2, <2>3
<1>5. q \in Bytes /\ r \in Bytes
  BY <1>1, <1>2, <1>3, <1>4 DEF Bytes
<1>6. PutUint16(x) = <<q, r>>
  BY <1>1, <1>2 DEF PutUint16
<1>7. QED
  BY <1>5, <1>6

LEMMA FieldFits ==
  ASSUME NEW s \in Seq(Bytes), NEW at \in Nat, at + 2 <= Len(s)
  PROVE  Uint16(s, at) \in 0 .. W - 1
<1>1. PICK b \in Nat \ {0} : b = Base /\ W = b * b /\ Bytes = 0 .. b - 1
  BY BaseFacts DEF W, Bytes
<1>2. PICK n \in Nat : n = Len(s)
  BY LenProperties
<1>3. at + 1 \in 1 .. n /\ at + 2 \in 1 .. n
  BY <1>2
<1>4. s[at + 1] \in Bytes /\ s[at + 2] \in Bytes
  BY <1>2, <1>3, ElementOfSeq
<1>5. PICK x \in 0 .. b - 1, y \in 0 .. b - 1 : x = s[at + 1] /\ y = s[at + 2]
  BY <1>1, <1>4
<1>6. PICK d \in Nat : d = b - 1 - x
  OBVIOUS
<1>7. b * x + y = b * b - b - b * d + y /\ b * d >= 0 /\ b * x >= 0
  <2>1. x = b - 1 - d
    BY <1>6
  <2>2. b * x = b * b - b - b * d
    BY <2>1
  <2>3. b * d >= 0 /\ b * x >= 0
    OBVIOUS
  <2>4. QED
    BY <2>2, <2>3
<1>8. b * x + y \in 0 .. b * b - 1
  BY <1>7
<1>9. QED
  BY <1>1, <1>5, <1>8 DEF Uint16

LEMMA PackBytes ==
  ASSUME NEW m \in Messages
  PROVE  Pack(m) \in Seq(Bytes)
<1>1. m.cmd \in 0 .. W - 1 /\ m.payload \in Seq(Bytes) /\ m.cmd \in Int /\ m.payload \in Seq(Int)
  BY CodecAssumption, BaseFacts DEF Messages
<1>2. PICK len \in 0 .. W - 1 : len = Len(m.payload) % W
  <2>1. PICK k \in Nat, w \in Nat \ {0} : k = Len(m.payload) /\ w = W
    BY <1>1, LenProperties, BaseFacts
  <2>2. k % w \in 0 .. w - 1
    OBVIOUS
  <2>3. QED
    BY <2>1, <2>2
<1>3. len \in Int
  BY BaseFacts
<1>4. PICK sum \in 0 .. W - 1 : sum = calculateCheckSum(len, m.cmd, m.payload)
  BY <1>1, <1>3, CheckSumFits
<1>5. PICK l, c, d : l = PutUint16(len) /\ c = PutUint16(sum) /\ d = PutUint16(m.cmd)
  OBVIOUS
<1>6. l \in Seq(Bytes) /\ c \in Seq(Bytes) /\ d \in Seq(Bytes)
  BY <1>1, <1>5, TwoBytes
<1>7. PICK h : h = <<Magic>>
  OBVIOUS
<1>8. h \in Seq(Bytes)
  BY <1>7, CodecAssumption
<1>9. Pack(m) = (((h \o l) \o c) \o d) \o m.payload
  BY <1>2, <1>4, <1>5, <1>7 DEF Pack
<1>10. h \o l \in Seq(Bytes)
  BY <1>6, <1>8, ConcatProperties
<1>11. (h \o l) \o c \in Seq(Bytes)
  BY <1>6, <1>10, ConcatProperties
<1>12. ((h \o l) \o c) \o d \in Seq(Bytes)
  BY <1>6, <1>11, ConcatProperties
<1>13. (((h \o l) \o c) \o d) \o m.payload \in Seq(Bytes)
  BY <1>1, <1>12, ConcatProperties
<1>14. QED
  BY <1>9, <1>13

(* What a read returns, whatever the bytes are: its payload is as long as the length says. *)
Readable == [cmd : Int, payload : {p \in Seq(Bytes) : Len(p) < W}]

LEMMA ReadTypes ==
  ASSUME NEW s \in Seq(Bytes), TcpRead(s) # More, TcpRead(s) # Bad
  PROVE  TcpRead(s).msg \in Readable /\ TcpRead(s).rest \in Seq(Bytes)
<1>1. PICK n \in Nat : n = Len(s)
  BY LenProperties
<1>2. ~(n < HeaderLen) /\ s[1] = Magic /\ ~(n < HeaderLen + 2 + Uint16(s, 1))
  BY <1>1 DEF TcpRead
<1>3. n >= 5
  BY <1>2 DEF HeaderLen
<1>4. PICK len \in Nat, w \in Nat : len = Uint16(s, 1) /\ w = W /\ len < w
  <2>1. 1 + 2 <= Len(s)
    BY <1>1, <1>3
  <2>2. Uint16(s, 1) \in 0 .. W - 1
    BY <2>1, FieldFits
  <2>3. QED
    BY <2>2, BaseFacts
<1>5. PICK end \in Nat : end = HeaderLen + 2 + Uint16(s, 1) /\ end = 7 + len /\ end <= n
  BY <1>1, <1>2, <1>4 DEF HeaderLen
<1>6. PICK cmd \in Int : cmd = Uint16(s, HeaderLen)
  <2>1. HeaderLen \in Nat /\ HeaderLen + 2 <= Len(s)
    BY <1>1, <1>4, <1>5 DEF HeaderLen
  <2>2. Uint16(s, HeaderLen) \in 0 .. W - 1
    BY <2>1, FieldFits
  <2>3. QED
    BY <1>4, <2>2
<1>7. PICK p, rest : p = SubSeq(s, HeaderLen + 3, end) /\ rest = SubSeq(s, end + 1, Len(s))
  OBVIOUS
<1>8. \A i \in 1 .. n : s[i] \in Bytes
  BY <1>1, ElementOfSeq
<1>9. p \in Seq(Bytes) /\ Len(p) < w
  <2>1. PICK x \in Int : x = HeaderLen + 3 /\ x = 8
    BY DEF HeaderLen
  <2>2. \A i \in x .. end : s[i] \in Bytes
    BY <1>5, <1>8, <2>1
  <2>3. p \in Seq(Bytes) /\ Len(p) = IF x <= end THEN end - x + 1 ELSE 0
    BY <1>7, <2>1, <2>2, SubSeqProperties
  <2>4. QED
    BY <1>4, <1>5, <2>1, <2>3
<1>10. rest \in Seq(Bytes)
  <2>1. PICK x \in Int : x = end + 1
    OBVIOUS
  <2>2. \A i \in x .. n : s[i] \in Bytes
    BY <1>8, <2>1
  <2>3. SubSeq(s, x, n) \in Seq(Bytes)
    BY <2>2, SubSeqProperties
  <2>4. QED
    BY <1>1, <1>7, <2>1, <2>3
<1>11. TcpRead(s) = Checked(s, len, cmd, p, rest)
  BY <1>1, <1>2, <1>4, <1>5, <1>6, <1>7 DEF TcpRead
<1>12. TcpRead(s) = [is |-> "msg", msg |-> [cmd |-> cmd, payload |-> p], rest |-> rest]
  BY <1>11 DEF Checked
<1>13. [cmd |-> cmd, payload |-> p] \in Readable
  BY <1>4, <1>9 DEF Readable
<1>14. QED
  BY <1>10, <1>12, <1>13

-----------------------------------------------------------------------------
(* Reading a packed message. *)

LEMMA PayloadIsRead ==
  ASSUME NEW m \in Messages, NEW s, Starts(s, m)
  PROVE  SubSeq(s, HeaderLen + 3, HeaderLen + 2 + Len(m.payload)) = m.payload
<1>1. PICK p \in Seq(Int), k \in Nat : p = m.payload /\ k = Len(p)
  <2>1. m.payload \in Seq(Int)
    BY BaseFacts DEF Messages
  <2>2. QED
    BY <2>1, LenProperties
<1>2. s \in Seq(Int) /\ Len(s) >= 7 + k /\ \A j \in 1 .. k : s[7 + j] = p[j]
  <2>1. /\ s \in Seq(Int) /\ Len(s) >= HeaderLen + 2 + k
        /\ \A j \in 1 .. k : s[HeaderLen + 2 + j] = p[j]
    BY <1>1, Zenon DEF Starts
  <2>2. HeaderLen + 2 + k = 7 + k /\ \A j \in 1 .. k : HeaderLen + 2 + j = 7 + j
    BY DEF HeaderLen
  <2>3. QED
    BY <2>1, <2>2, Zenon
<1>3. PICK n \in Nat : n = Len(s)
  BY <1>2, LenProperties
<1>4. \A i \in 8 .. 7 + k : s[i] \in Int
  BY <1>2, <1>3, ElementOfSeq
<1>5. PICK b \in Int, e \in Int : b = 8 /\ e = 7 + k
  OBVIOUS
<1>6. PICK q : q = SubSeq(s, b, e)
  OBVIOUS
<1>7. /\ q \in Seq(Int) /\ Len(q) = IF b <= e THEN e - b + 1 ELSE 0
      /\ \A i \in 1 .. e - b + 1 : q[i] = s[b + i - 1]
  BY <1>4, <1>5, <1>6, SubSeqProperties
<1>8. Len(q) = k /\ e - b + 1 = k
  BY <1>5, <1>7
<1>9. ASSUME NEW i \in 1 .. k
      PROVE  q[i] = p[i]
  <2>1. q[i] = s[b + i - 1] /\ b + i - 1 = 7 + i
    BY <1>5, <1>7, <1>8
  <2>2. QED
    BY <1>2, <2>1
<1>10. q = p
  BY <1>1, <1>7, <1>8, <1>9, SeqEqual
<1>11. HeaderLen + 3 = b /\ HeaderLen + 2 + Len(m.payload) = e
  BY <1>1, <1>5 DEF HeaderLen
<1>12. QED
  BY <1>1, <1>6, <1>10, <1>11

LEMMA CheckedReads ==
  ASSUME NEW m \in Messages, NEW s, Starts(s, m), NEW rest
  PROVE  Checked(s, Uint16(s, 1), Uint16(s, HeaderLen), m.payload, rest)
           = [is |-> "msg", msg |-> m, rest |-> rest]
<1>1. Uint16(s, 3) = calculateCheckSum(Uint16(s, 1), Uint16(s, HeaderLen), m.payload)
  BY DEF Starts
<1>2. m = [cmd |-> m.cmd, payload |-> m.payload]
  BY DEF Messages
<1>3. QED
  BY <1>1, <1>2 DEF Checked, Starts

(* A frame is read as the message it was packed from. *)
LEMMA FrameIsRead ==
  ASSUME NEW m \in Messages
  PROVE  WsRead("binary", Pack(m)) = [is |-> "msg", msg |-> m, rest |-> <<>>]
<1>1. PICK s : s = Pack(m)
  OBVIOUS
<1>2. Starts(s, m) /\ Len(s) = HeaderLen + 2 + Len(m.payload)
  BY <1>1, PackStarts
<1>3. SubSeq(s, HeaderLen + 3, Len(s)) = m.payload
  BY <1>2, PayloadIsRead
<1>4. Checked(s, Uint16(s, 1), Uint16(s, HeaderLen), m.payload, <<>>)
        = [is |-> "msg", msg |-> m, rest |-> <<>>]
  BY <1>2, CheckedReads
<1>5. /\ ~(Len(s) < HeaderLen) /\ ~(s[1] # Magic)
      /\ ~(Len(s) = HeaderLen) /\ ~(Len(s) = HeaderLen + 1)
  <2>1. m.payload \in Seq(Int)
    BY BaseFacts DEF Messages
  <2>2. Len(m.payload) \in Nat
    BY <2>1, LenProperties
  <2>3. QED
    BY <1>2, <2>2 DEF Starts, HeaderLen
<1>6. QED
  BY <1>1, <1>3, <1>4, <1>5 DEF WsRead

(* So is a message at the start of the stream, if the header can say how long it is. *)
LEMMA StreamIsRead ==
  ASSUME NEW m \in Messages, NEW s, Starts(s, m), Len(m.payload) < W
  PROVE  TcpRead(s) = [is |-> "msg", msg |-> m,
                       rest |-> SubSeq(s, HeaderLen + 2 + Len(m.payload) + 1, Len(s))]
<1>1. PICK k \in Nat : k = Len(m.payload)
  <2>1. m.payload \in Seq(Int)
    BY BaseFacts DEF Messages
  <2>2. QED
    BY <2>1, LenProperties
<1>2. Uint16(s, 1) = k
  <2>1. PICK w \in Nat \ {0} : w = W
    BY BaseFacts
  <2>2. k < w
    BY <1>1, <2>1
  <2>3. k % w = k
    BY <2>2
  <2>4. QED
    BY <1>1, <2>1, <2>3 DEF Starts
<1>3. PICK n \in Nat : n = Len(s) /\ n >= 7 + k
  BY <1>1, LenProperties DEF Starts, HeaderLen
<1>4. PICK end \in Nat : end = HeaderLen + 2 + Uint16(s, 1) /\ end = HeaderLen + 2 + Len(m.payload) /\ end = 7 + k
  BY <1>1, <1>2 DEF HeaderLen
<1>5. ~(Len(s) < HeaderLen) /\ ~(s[1] # Magic) /\ ~(Len(s) < end)
  BY <1>3, <1>4 DEF Starts, HeaderLen
<1>6. SubSeq(s, HeaderLen + 3, end) = m.payload
  BY <1>4, PayloadIsRead
<1>7. TcpRead(s) = Checked(s, Uint16(s, 1), Uint16(s, HeaderLen), m.payload, SubSeq(s, end + 1, Len(s)))
  BY <1>4, <1>5, <1>6 DEF TcpRead
<1>8. Checked(s, Uint16(s, 1), Uint16(s, HeaderLen), m.payload, SubSeq(s, end + 1, Len(s)))
        = [is |-> "msg", msg |-> m, rest |-> SubSeq(s, end + 1, Len(s))]
  BY CheckedReads
<1>9. QED
  BY <1>4, <1>7, <1>8

-----------------------------------------------------------------------------
(* The stream holds the messages sent after the first g, packed, one after another: message *)
(* i lies between off[i - 1] and off[i], counted from the first byte ever written.          *)
Size(m) == HeaderLen + 2 + Len(m.payload)

Cuts(off, sent, g, stream) ==
  /\ off \in [0 .. Len(sent) -> Nat]
  /\ \A i \in 1 .. Len(sent) : off[i] = off[i - 1] + Size(sent[i])
  /\ \A i, j \in 0 .. Len(sent) : i <= j => off[i] <= off[j]
  /\ Len(stream) = off[Len(sent)] - off[g]
  /\ \A i \in g + 1 .. Len(sent) :
        \A j \in 1 .. Size(sent[i]) : stream[off[i - 1] - off[g] + j] = Pack(sent[i])[j]

LEMMA SizeFacts ==
  ASSUME NEW m \in Messages
  PROVE  Size(m) \in Nat /\ Size(m) >= 7 /\ Pack(m) \in Seq(Int) /\ Len(Pack(m)) = Size(m)
<1>1. m.payload \in Seq(Int)
  BY BaseFacts DEF Messages
<1>2. PICK k \in Nat : k = Len(m.payload)
  BY <1>1, LenProperties
<1>3. QED
  BY <1>2, PackStarts DEF Size, HeaderLen, Starts

LEMMA PrefixStarts ==
  ASSUME NEW m \in Messages, NEW s \in Seq(Int), Len(s) >= Size(m),
         \A j \in 1 .. Size(m) : s[j] = Pack(m)[j]
  PROVE  Starts(s, m)
<1>1. PICK t : t = Pack(m)
  OBVIOUS
<1>2. Starts(t, m)
  BY <1>1, PackStarts
<1>3. PICK k \in Nat : k = Len(m.payload) /\ Size(m) = 7 + k
  <2>1. m.payload \in Seq(Int)
    BY BaseFacts DEF Messages
  <2>2. PICK k \in Nat : k = Len(m.payload)
    BY <2>1, LenProperties
  <2>3. QED
    BY <2>2 DEF Size, HeaderLen
<1>4. \A j \in 1 .. 7 + k : s[j] = t[j]
  BY <1>1, <1>3
<1>5. s[1] = t[1] /\ s[2] = t[2] /\ s[3] = t[3] /\ s[4] = t[4] /\ s[5] = t[5] /\ s[6] = t[6] /\ s[7] = t[7]
  <2>1. \A j \in 1 .. 7 : j \in 1 .. 7 + k
    OBVIOUS
  <2>2. s[1] = t[1] /\ s[2] = t[2] /\ s[3] = t[3]
    BY <1>4, <2>1
  <2>3. s[4] = t[4] /\ s[5] = t[5]
    BY <1>4, <2>1
  <2>4. s[6] = t[6] /\ s[7] = t[7]
    BY <1>4, <2>1
  <2>5. QED
    BY <2>2, <2>3, <2>4
<1>6. Uint16(s, 1) = Uint16(t, 1) /\ Uint16(s, 3) = Uint16(t, 3) /\ Uint16(s, 5) = Uint16(t, 5)
  BY <1>5 DEF Uint16
<1>7. \A j \in 1 .. k : s[7 + j] = t[7 + j]
  BY <1>4
<1>8. \A j \in 1 .. k : t[7 + j] = m.payload[j]
  <2>1. \A j \in 1 .. k : t[HeaderLen + 2 + j] = m.payload[j]
    BY <1>2, <1>3 DEF Starts
  <2>2. \A j \in 1 .. k : HeaderLen + 2 + j = 7 + j
    BY DEF HeaderLen
  <2>3. QED
    BY <2>1, <2>2
<1>9. \A j \in 1 .. k : s[HeaderLen + 2 + j] = m.payload[j]
  BY <1>7, <1>8 DEF HeaderLen
<1>10. Len(s) >= HeaderLen + 2 + Len(m.payload)
  BY DEF Size
<1>11. QED
  BY <1>2, <1>3, <1>5, <1>6, <1>9, <1>10 DEF Starts, HeaderLen

(* A write adds a cut at the end. *)
LEMMA WriteCuts ==
  ASSUME NEW sent \in Seq(Messages), NEW g \in 0 .. Len(sent), NEW stream \in Seq(Int),
         NEW off, Cuts(off, sent, g, stream), NEW m \in Messages
  PROVE  /\ stream \o Pack(m) \in Seq(Int)
         /\ \E cut : Cuts(cut, Append(sent, m), g, stream \o Pack(m))
<1>1. PICK n \in Nat : n = Len(sent)
  BY LenProperties
<1>2. PICK all : all = Append(sent, m)
  OBVIOUS
<1>3. /\ all \in Seq(Messages) /\ Len(all) = n + 1 /\ all[n + 1] = m
      /\ \A i \in 1 .. n : all[i] = sent[i]
  BY <1>1, <1>2, AppendProperties
<1>4. PICK p \in Seq(Int), z \in Nat : p = Pack(m) /\ z = Size(m) /\ Len(p) = z
  BY SizeFacts
<1>5. PICK s : s = stream \o p
  OBVIOUS
<1>6. PICK l \in Nat : l = Len(stream)
  BY LenProperties
<1>7. /\ s \in Seq(Int) /\ Len(s) = l + z
      /\ \A i \in 1 .. l : s[i] = stream[i]
      /\ \A i \in 1 .. z : s[l + i] = p[i]
  BY <1>4, <1>5, <1>6, Glued
<1>8. /\ off \in [0 .. n -> Nat]
      /\ \A i \in 1 .. n : off[i] = off[i - 1] + Size(sent[i])
      /\ \A i, j \in 0 .. n : i <= j => off[i] <= off[j]
      /\ l = off[n] - off[g]
      /\ g \in 0 .. n
      /\ \A i \in g + 1 .. n :
            \A j \in 1 .. Size(sent[i]) : stream[off[i - 1] - off[g] + j] = Pack(sent[i])[j]
  BY <1>1, <1>6 DEF Cuts
<1>9. PICK cut : cut = [i \in 0 .. n + 1 |-> IF i = n + 1 THEN off[n] + z ELSE off[i]]
  OBVIOUS
<1>10. cut[n + 1] = off[n] + z /\ \A i \in 0 .. n : cut[i] = off[i]
  BY <1>8, <1>9
<1>11. off[n] \in Nat /\ off[g] \in Nat
  BY <1>8
<1>12. cut \in [0 .. n + 1 -> Nat]
  BY <1>8, <1>9, <1>11
<1>13. \A i \in 1 .. n + 1 : cut[i] = cut[i - 1] + Size(all[i])
  <2>1. ASSUME NEW i \in 1 .. n + 1
        PROVE  cut[i] = cut[i - 1] + Size(all[i])
    <3>1. CASE i = n + 1
      <4>1. i - 1 = n /\ n \in 0 .. n
        BY <3>1
      <4>2. all[i] = m
        <5>1. all[n + 1] = m
          BY <1>3
        <5>2. QED
          BY <3>1, <5>1
      <4>3. QED
        BY <1>4, <1>10, <3>1, <4>1, <4>2
    <3>2. CASE i # n + 1
      <4>1. i \in 1 .. n /\ i \in 0 .. n /\ i - 1 \in 0 .. n
        BY <3>2
      <4>2. all[i] = sent[i] /\ cut[i] = off[i] /\ cut[i - 1] = off[i - 1]
        BY <1>3, <1>10, <4>1
      <4>3. QED
        BY <1>8, <4>1, <4>2
    <3>3. QED
      BY <3>1, <3>2
  <2>2. QED
    BY <2>1
<1>14. \A i, j \in 0 .. n + 1 : i <= j => cut[i] <= cut[j]
  <2>1. ASSUME NEW i \in 0 .. n + 1, NEW j \in 0 .. n + 1, i <= j
        PROVE  cut[i] <= cut[j]
    <3>1. CASE j # n + 1
      <4>1. i \in 0 .. n /\ j \in 0 .. n
        BY <2>1, <3>1
      <4>2. QED
        BY <1>8, <1>10, <2>1, <4>1
    <3>2. CASE j = n + 1 /\ i # n + 1
      <4>1. i \in 0 .. n /\ n \in 0 .. n /\ i <= n
        BY <3>2
      <4>2. off[i] <= off[n] /\ off[i] \in Nat
        BY <1>8, <4>1
      <4>3. QED
        BY <1>10, <1>11, <3>2, <4>1, <4>2
    <3>3. CASE j = n + 1 /\ i = n + 1
      <4>1. cut[i] \in Nat
        BY <1>12
      <4>2. QED
        BY <3>3, <4>1
    <3>4. QED
      BY <3>1, <3>2, <3>3
  <2>2. QED
    BY <2>1
<1>15. cut[g] = off[g] /\ cut[n] = off[n] /\ Len(s) = cut[n + 1] - cut[g]
  <2>1. cut[g] = off[g] /\ cut[n] = off[n]
    BY <1>8, <1>10
  <2>2. QED
    BY <1>7, <1>8, <1>10, <1>11, <2>1
<1>16. ASSUME NEW i \in g + 1 .. n + 1, NEW j \in 1 .. Size(all[i])
       PROVE  s[cut[i - 1] - cut[g] + j] = Pack(all[i])[j]
  <2>1. CASE i = n + 1
    <3>1. i - 1 = n /\ all[i] = m
      BY <1>3, <2>1
    <3>2. j \in 1 .. z
      BY <1>4, <3>1
    <3>3. cut[i - 1] - cut[g] = l
      BY <1>8, <1>15, <3>1
    <3>4. QED
      BY <1>4, <1>7, <3>1, <3>2, <3>3
  <2>2. CASE i # n + 1
    <3>1. i \in g + 1 .. n /\ i \in 1 .. n /\ i - 1 \in 0 .. n /\ i \in 0 .. n /\ g <= i - 1
      <4>1. g \in 0 .. n
        BY <1>8
      <4>2. QED
        BY <2>2, <4>1
    <3>2. all[i] = sent[i] /\ cut[i - 1] = off[i - 1]
      BY <1>3, <1>10, <3>1
    <3>3. PICK x \in Nat, y \in Nat, a \in Nat, b \in Nat :
             x = off[i - 1] /\ y = off[i] /\ a = off[g] /\ b = off[n]
      BY <1>8, <1>11, <3>1
    <3>4. PICK w \in Nat : w = Size(sent[i])
      <4>1. sent[i] \in Messages
        BY <1>1, <3>1, ElementOfSeq
      <4>2. QED
        BY <4>1, SizeFacts
    <3>5. y = x + w /\ a <= x /\ y <= b
      <4>1. off[i] = off[i - 1] + Size(sent[i])
        BY <1>8, <3>1
      <4>2. PICK h \in 0 .. n : h = i - 1
        BY <3>1
      <4>3. g \in 0 .. n /\ n \in 0 .. n /\ g <= h /\ i <= n
        BY <1>8, <3>1, <4>2
      <4>4. off[g] <= off[h] /\ off[i] <= off[n]
        BY <1>8, <3>1, <4>3
      <4>5. QED
        BY <3>3, <3>4, <4>1, <4>2, <4>4, Zenon
    <3>6. j \in 1 .. w /\ l = b - a
      BY <1>8, <3>2, <3>3, <3>4
    <3>7. x - a + j \in 1 .. l
      BY <3>5, <3>6
    <3>8. s[x - a + j] = stream[x - a + j]
      BY <1>7, <3>7
    <3>9. stream[x - a + j] = Pack(sent[i])[j]
      BY <1>8, <3>1, <3>3, <3>4, <3>6
    <3>10. QED
      BY <1>15, <3>2, <3>3, <3>8, <3>9
  <2>3. QED
    BY <2>1, <2>2
<1>17. Cuts(cut, all, g, s)
  BY <1>3, <1>12, <1>13, <1>14, <1>15, <1>16 DEF Cuts
<1>18. QED
  BY <1>2, <1>4, <1>5, <1>7, <1>17

(* A read takes the bytes up to the next cut. *)
LEMMA ReadCuts ==
  ASSUME NEW sent \in Seq(Messages), NEW g \in Nat, g < Len(sent), NEW stream \in Seq(Int),
         NEW off, Cuts(off, sent, g, stream), NEW m, m = sent[g + 1],
         NEW rest, rest = SubSeq(stream, Size(m) + 1, Len(stream))
  PROVE  m \in Messages /\ Starts(stream, m) /\ rest \in Seq(Int) /\ Cuts(off, sent, g + 1, rest)
<1>1. PICK n \in Nat : n = Len(sent)
  BY LenProperties
<1>2. g + 1 \in 1 .. n /\ g \in 0 .. n /\ g + 1 \in 0 .. n /\ n \in 0 .. n
  BY <1>1
<1>3. m \in Messages
  BY <1>1, <1>2, ElementOfSeq
<1>4. PICK z \in Nat : z = Size(m)
  BY <1>3, SizeFacts
<1>5. PICK l \in Nat : l = Len(stream)
  BY LenProperties
<1>6. /\ off \in [0 .. n -> Nat]
      /\ \A i \in 1 .. n : off[i] = off[i - 1] + Size(sent[i])
      /\ \A i, j \in 0 .. n : i <= j => off[i] <= off[j]
      /\ l = off[n] - off[g]
      /\ \A i \in g + 1 .. n :
            \A j \in 1 .. Size(sent[i]) : stream[off[i - 1] - off[g] + j] = Pack(sent[i])[j]
  BY <1>1, <1>5 DEF Cuts
<1>7. PICK a \in Nat, c \in Nat, b \in Nat : a = off[g] /\ c = off[g + 1] /\ b = off[n]
  BY <1>2, <1>6
<1>8. c = a + z
  <2>1. off[g + 1] = off[(g + 1) - 1] + Size(sent[g + 1])
    BY <1>2, <1>6
  <2>2. (g + 1) - 1 = g
    OBVIOUS
  <2>3. QED
    BY <1>4, <1>7, <2>1, <2>2
<1>9. c <= b /\ l = b - a
  BY <1>2, <1>6, <1>7
<1>10. l >= z
  BY <1>8, <1>9
<1>11. Starts(stream, m)
  <2>1. ASSUME NEW j \in 1 .. z PROVE stream[j] = Pack(m)[j]
    <3>1. g + 1 \in g + 1 .. n /\ (g + 1) - 1 = g
      BY <1>2
    <3>2. stream[off[(g + 1) - 1] - off[g] + j] = Pack(sent[g + 1])[j]
      BY <1>4, <1>6, <3>1
    <3>3. off[(g + 1) - 1] - off[g] + j = j
      BY <1>7, <3>1
    <3>4. QED
      BY <3>2, <3>3
  <2>2. QED
    BY <1>3, <1>4, <1>5, <1>10, <2>1, PrefixStarts
<1>12. /\ rest \in Seq(Int) /\ Len(rest) = l - z
       /\ \A i \in 1 .. l - z : rest[i] = stream[z + i]
  <2>1. \A i \in z + 1 .. l : stream[i] \in Int
    BY <1>5, ElementOfSeq
  <2>2. PICK x \in Int, y \in Int : x = z + 1 /\ y = l
    OBVIOUS
  <2>3. rest = SubSeq(stream, x, y)
    BY <1>4, <1>5, <2>2
  <2>4. \A i \in x .. y : stream[i] \in Int
    BY <2>1, <2>2
  <2>5. /\ SubSeq(stream, x, y) \in Seq(Int)
        /\ Len(SubSeq(stream, x, y)) = IF x <= y THEN y - x + 1 ELSE 0
        /\ \A i \in 1 .. y - x + 1 : SubSeq(stream, x, y)[i] = stream[x + i - 1]
    BY <2>4, SubSeqProperties
  <2>6. /\ rest \in Seq(Int) /\ Len(rest) = IF x <= y THEN y - x + 1 ELSE 0
        /\ \A i \in 1 .. y - x + 1 : rest[i] = stream[x + i - 1]
    BY <2>3, <2>5, Zenon
  <2>7. y - x + 1 = l - z
    BY <2>2
  <2>8. \A i \in 1 .. l - z : rest[i] = stream[z + i]
    <3>1. ASSUME NEW i \in 1 .. l - z PROVE rest[i] = stream[z + i]
      <4>1. x + i - 1 = z + i
        BY <2>2
      <4>2. QED
        BY <2>6, <2>7, <4>1
    <3>2. QED
      BY <3>1
  <2>9. Len(rest) = l - z
    <3>1. Len(rest) = IF x <= y THEN y - x + 1 ELSE 0
      BY <2>6
    <3>2. (IF x <= y THEN y - x + 1 ELSE 0) = l - z
      <4>1. CASE x <= y
        BY <2>7, <4>1
      <4>2. CASE ~ (x <= y)
        <5>1. l = z
          BY <1>10, <2>2, <4>2
        <5>2. QED
          BY <4>2, <5>1
      <4>3. QED
        BY <4>1, <4>2
    <3>3. QED
      BY <3>1, <3>2, Zenon
  <2>10. QED
    BY <2>6, <2>8, <2>9
<1>13. Len(rest) = off[n] - off[g + 1]
  <2>1. l - z = b - c
    BY <1>8, <1>9
  <2>2. QED
    BY <1>7, <1>12, <2>1, Zenon
<1>14. ASSUME NEW i \in (g + 1) + 1 .. n, NEW j \in 1 .. Size(sent[i])
       PROVE  rest[off[i - 1] - off[g + 1] + j] = Pack(sent[i])[j]
  <2>1. i \in g + 1 .. n /\ i \in 1 .. n /\ i \in 0 .. n /\ i - 1 \in 0 .. n /\ g + 1 <= i - 1
    OBVIOUS
  <2>2. PICK x \in Nat, y \in Nat : x = off[i - 1] /\ y = off[i]
    BY <1>6, <2>1
  <2>3. PICK w \in Nat : w = Size(sent[i])
    <3>1. sent[i] \in Messages
      BY <1>1, <2>1, ElementOfSeq
    <3>2. QED
      BY <3>1, SizeFacts
  <2>4. c <= x /\ y <= b /\ y = x + w
    <3>1. off[g + 1] <= off[i - 1] /\ off[i] <= off[n]
      <4>1. i <= n
        OBVIOUS
      <4>2. QED
        BY <1>2, <1>6, <2>1, <4>1, Zenon
    <3>2. off[i] = off[i - 1] + w
      BY <1>6, <2>1, <2>3, Zenon
    <3>3. QED
      BY <1>7, <2>2, <3>1, <3>2, Zenon
  <2>5. j \in 1 .. w
    BY <2>3
  <2>6. x - c + j \in 1 .. l - z /\ z + (x - c + j) = x - a + j
    BY <1>8, <1>9, <2>4, <2>5
  <2>7. rest[x - c + j] = stream[x - a + j]
    BY <1>12, <2>6
  <2>8. stream[x - a + j] = Pack(sent[i])[j]
    BY <1>6, <1>7, <2>1, <2>2
  <2>9. QED
    BY <1>7, <2>2, <2>7, <2>8
<1>15. Cuts(off, sent, g + 1, rest)
  BY <1>1, <1>6, <1>13, <1>14 DEF Cuts
<1>16. QED
  BY <1>3, <1>11, <1>12, <1>15

-----------------------------------------------------------------------------
(* The websocket: the frames under way are what has been sent and not yet read; the reader  *)
(* has given up only behind the last one.                                                  *)
WskInv ==
  /\ wsk \in [sent : Seq(Messages), frames : Seq(Seq(Int)), closed : BOOLEAN,
               got : Seq(Messages), bad : BOOLEAN]
  /\ wsk.bad => wsk.closed /\ Len(wsk.frames) = 0
  /\ Len(wsk.sent) = Len(wsk.got) + Len(wsk.frames)
  /\ \A i \in 1 .. Len(wsk.got) : wsk.got[i] = wsk.sent[i]
  /\ \A i \in 1 .. Len(wsk.frames) : wsk.frames[i] = Pack(wsk.sent[Len(wsk.got) + i])

(* The TCP connection is in step until a message is read that is too long for its length     *)
(* field: the bytes in the stream are those of what has been sent and not yet read, and the  *)
(* reader has given up only at such a message.                                              *)
InStep ==
  /\ tcp.stream \in Seq(Int) /\ tcp.got \in Seq(Messages)
  /\ Len(tcp.got) <= Len(tcp.sent)
  /\ \A i \in 1 .. Len(tcp.got) : tcp.got[i] = tcp.sent[i]
  /\ \E off : Cuts(off, tcp.sent, Len(tcp.got), tcp.stream)
  /\ tcp.bad => TooLong(Len(tcp.got) + 1)

AsWritten(i) ==
  \/ i \in DOMAIN tcp.sent /\ tcp.got[i] = tcp.sent[i]
  \/ \E j \in 1 .. i : TooLong(j)

OutOfStep == \E j \in 1 .. Len(tcp.got) : TooLong(j)

TcpInv ==
  /\ DOMAIN tcp = {"sent", "stream", "got", "bad"} /\ tcp.sent \in Seq(Messages)
  /\ tcp.stream \in Seq(Bytes) /\ tcp.got \in Seq(Readable)
  /\ InStep \/ OutOfStep
  /\ \A i \in 1 .. Len(tcp.got) : AsWritten(i)

LEMMA InvInit == CodecInit => WskInv /\ TcpInv
<1> SUFFICES ASSUME CodecInit PROVE WskInv /\ TcpInv
  OBVIOUS
<1>1. tcp = [sent |-> <<>>, stream |-> <<>>, got |-> <<>>, bad |-> FALSE]
  BY DEF CodecInit
<1>2. wsk = [sent |-> <<>>, frames |-> <<>>, closed |-> FALSE, got |-> <<>>, bad |-> FALSE]
  BY DEF CodecInit
<1>3. PICK e : e = <<>>
  OBVIOUS
<1>4. /\ e \in Seq(Messages) /\ e \in Seq(Seq(Int)) /\ e \in Seq(Int) /\ Len(e) = 0
      /\ e \in Seq(Bytes) /\ e \in Seq(Readable)
  BY <1>3, EmptySeq
<1>5. WskInv
  BY <1>2, <1>3, <1>4 DEF WskInv
<1>6. Cuts([i \in 0 .. 0 |-> 0], e, 0, e)
  <2>1. PICK off : off = [i \in 0 .. 0 |-> 0]
    OBVIOUS
  <2>2. off \in [0 .. 0 -> Nat] /\ off[0] = 0 /\ \A i, j \in 0 .. 0 : i <= j => off[i] <= off[j]
    BY <2>1
  <2>3. Len(e) = off[0] - off[0]
    BY <1>4, <2>2
  <2>4. Cuts(off, e, 0, e)
    BY <1>4, <2>2, <2>3 DEF Cuts
  <2>5. QED
    BY <2>1, <2>4
<1>7. tcp.sent = e /\ tcp.stream = e /\ tcp.got = e /\ ~tcp.bad /\ DOMAIN tcp = {"sent", "stream", "got", "bad"}
  BY <1>1, <1>3
<1>8. \E off : Cuts(off, tcp.sent, Len(tcp.got), tcp.stream)
  BY <1>4, <1>6, <1>7
<1>9. TcpInv
  <2>1. InStep
    BY <1>4, <1>7, <1>8 DEF InStep
  <2>2. \A i \in 1 .. Len(tcp.got) : FALSE
    BY <1>4, <1>7
  <2>3. QED
    BY <1>4, <1>7, <2>1, <2>2 DEF TcpInv
<1>10. QED
  BY <1>5, <1>9

LEMMA WskStep ==
  ASSUME WskInv, [CodecNext]_codecVars
  PROVE  WskInv'
<1>1. PICK sent \in Seq(Messages), frames \in Seq(Seq(Int)), got \in Seq(Messages),
           closed \in BOOLEAN, bad \in BOOLEAN :
         wsk = [sent |-> sent, frames |-> frames, closed |-> closed, got |-> got, bad |-> bad]
  BY DEF WskInv
<1>2. wsk.sent = sent /\ wsk.frames = frames /\ wsk.got = got /\ wsk.closed = closed /\ wsk.bad = bad
  BY <1>1
<1>9. bad => closed /\ Len(frames) = 0
  BY <1>2 DEF WskInv
<1>3. /\ Len(sent) = Len(got) + Len(frames)
      /\ \A i \in 1 .. Len(got) : got[i] = sent[i]
      /\ \A i \in 1 .. Len(frames) : frames[i] = Pack(sent[Len(got) + i])
  BY <1>2 DEF WskInv
<1>4. PICK n \in Nat, g \in Nat, k \in Nat : n = Len(sent) /\ g = Len(got) /\ k = Len(frames) /\ n = g + k
  BY <1>3, LenProperties
<1>5. ASSUME NEW m \in Messages, WsWrite(m)
      PROVE  WskInv'
  <2>1. PICK s, f : s = Append(sent, m) /\ f = Append(frames, Pack(m))
    OBVIOUS
  <2>0. ~closed /\ ~bad
    BY <1>2, <1>5, <1>9 DEF WsWrite
  <2>2. wsk' = [sent |-> s, frames |-> f, closed |-> closed, got |-> got, bad |-> bad]
    BY <1>1, <1>5, <2>1 DEF WsWrite
  <2>3. /\ s \in Seq(Messages) /\ Len(s) = n + 1 /\ s[n + 1] = m
        /\ \A i \in 1 .. n : s[i] = sent[i]
    <3>1. /\ Append(sent, m) \in Seq(Messages) /\ Len(Append(sent, m)) = Len(sent) + 1
          /\ Append(sent, m)[Len(sent) + 1] = m
          /\ \A i \in 1 .. Len(sent) : Append(sent, m)[i] = sent[i]
      BY AppendProperties
    <3>2. QED
      BY <1>4, <2>1, <3>1, Zenon
  <2>4. Pack(m) \in Seq(Int)
    BY SizeFacts
  <2>5. /\ f \in Seq(Seq(Int)) /\ Len(f) = k + 1 /\ f[k + 1] = Pack(m)
        /\ \A i \in 1 .. k : f[i] = frames[i]
    BY <1>4, <2>1, <2>4, AppendProperties
  <2>6. \A i \in 1 .. g : got[i] = s[i]
    <3>1. ASSUME NEW i \in 1 .. g PROVE got[i] = s[i]
      <4>1. i \in 1 .. n
        BY <1>4
      <4>2. QED
        BY <1>3, <1>4, <2>3, <4>1
    <3>2. QED
      BY <3>1
  <2>7. ASSUME NEW i \in 1 .. k + 1
        PROVE  f[i] = Pack(s[g + i])
    <3>1. CASE i = k + 1
      <4>1. g + i = n + 1
        BY <1>4, <3>1
      <4>2. QED
        BY <2>3, <2>5, <3>1, <4>1
    <3>2. CASE i # k + 1
      <4>1. i \in 1 .. k /\ g + i \in 1 .. n
        <5>1. n = g + k
          BY <1>4
        <5>2. i \in 1 .. k
          BY <3>2
        <5>3. QED
          BY <5>1, <5>2
      <4>4. f[i] = frames[i] /\ s[g + i] = sent[g + i]
        BY <2>3, <2>5, <4>1
      <4>5. frames[i] = Pack(sent[g + i])
        BY <1>3, <1>4, <4>1
      <4>2. f[i] = frames[i] /\ s[g + i] = sent[g + i] /\ frames[i] = Pack(sent[g + i])
        BY <4>4, <4>5
      <4>3. QED
        BY <4>2
    <3>3. QED
      BY <3>1, <3>2
  <2>8. /\ wsk'.sent = s /\ wsk'.frames = f /\ wsk'.got = got
        /\ ~wsk'.bad
        /\ wsk' \in [sent : Seq(Messages), frames : Seq(Seq(Int)), closed : BOOLEAN,
                     got : Seq(Messages), bad : BOOLEAN]
    BY <2>0, <2>2, <2>3, <2>5
  <2>9. Len(s) = Len(got) + Len(f)
    BY <1>4, <2>3, <2>5
  <2>10. QED
    BY <1>4, <2>5, <2>6, <2>7, <2>8, <2>9 DEF WskInv
<1>6. CASE WsReader /\ frames # <<>>
  <2>1. frames # <<>>
    BY <1>6
  <2>2. k > 0
    BY <1>4, <2>1, EmptySeq
  <2>3. PICK m : m = sent[g + 1]
    OBVIOUS
  <2>4. m \in Messages
    <3>1. g + 1 \in 1 .. n
      BY <1>4, <2>2
    <3>2. QED
      BY <1>4, <2>3, <3>1, ElementOfSeq
  <2>5. Head(frames) = Pack(m)
    <3>1. 1 \in 1 .. k
      BY <2>2
    <3>2. frames[1] = Pack(sent[g + 1])
      BY <1>3, <1>4, <3>1
    <3>3. QED
      BY <2>3, <3>2
  <2>6. WsRead("binary", Head(frames)) = [is |-> "msg", msg |-> m, rest |-> <<>>]
    BY <2>4, <2>5, FrameIsRead
  <2>7. PICK r : r = WsRead("binary", Head(frames))
    OBVIOUS
  <2>8. r.is = "msg" /\ r.msg = m
    BY <2>6, <2>7
  <2>9. PICK f, h : f = Tail(frames) /\ h = Append(got, m)
    OBVIOUS
  <2>10. wsk' = [wsk EXCEPT !.frames = Tail(@), !.got = Append(@, r.msg)]
    BY <1>2, <1>6, <2>7, <2>8 DEF WsReader
  <2>0. bad = FALSE
    BY <1>2, <1>6 DEF WsReader
  <2>11. wsk' = [sent |-> sent, frames |-> f, closed |-> closed, got |-> h, bad |-> bad]
    BY <1>1, <2>8, <2>9, <2>10
  <2>12. f \in Seq(Seq(Int)) /\ Len(f) = k - 1 /\ \A i \in 1 .. k - 1 : f[i] = frames[i + 1]
    BY <1>4, <2>1, <2>9, HeadTailProperties
  <2>13. /\ h \in Seq(Messages) /\ Len(h) = g + 1 /\ h[g + 1] = m
         /\ \A i \in 1 .. g : h[i] = got[i]
    BY <1>4, <2>4, <2>9, AppendProperties
  <2>14. \A i \in 1 .. g + 1 : h[i] = sent[i]
    BY <1>3, <1>4, <2>3, <2>13
  <2>15. ASSUME NEW i \in 1 .. k - 1
         PROVE  f[i] = Pack(sent[(g + 1) + i])
    <3>1. i + 1 \in 1 .. k /\ g + (i + 1) = (g + 1) + i
      OBVIOUS
    <3>2. frames[i + 1] = Pack(sent[g + (i + 1)])
      BY <1>3, <1>4, <3>1
    <3>3. QED
      BY <2>12, <3>1, <3>2
  <2>16. /\ wsk'.sent = sent /\ wsk'.frames = f /\ wsk'.got = h
         /\ ~wsk'.bad
         /\ wsk' \in [sent : Seq(Messages), frames : Seq(Seq(Int)), closed : BOOLEAN,
                     got : Seq(Messages), bad : BOOLEAN]
    BY <2>0, <2>11, <2>12, <2>13
  <2>17. Len(sent) = Len(h) + Len(f)
    BY <1>4, <2>12, <2>13
  <2>18. QED
    BY <2>12, <2>13, <2>14, <2>15, <2>16, <2>17 DEF WskInv
<1>7. CASE UNCHANGED wsk
  BY <1>7 DEF WskInv
<1>10. CASE WsReader /\ frames = <<>>
  <2>1. closed /\ WsRead("close", <<>>) = Bad
    BY <1>2, <1>10 DEF WsReader, WsRead
  <2>2. Bad.is # "msg"
    BY DEF Bad
  <2>3. wsk' = [wsk EXCEPT !.bad = TRUE]
    BY <1>2, <1>10, <2>1, <2>2 DEF WsReader
  <2>4. wsk' = [sent |-> sent, frames |-> frames, closed |-> closed, got |-> got, bad |-> TRUE]
    BY <1>1, <2>3
  <2>5. Len(frames) = 0
    BY <1>10, EmptySeq
  <2>6. /\ wsk'.sent = sent /\ wsk'.frames = frames /\ wsk'.got = got /\ wsk'.closed
        /\ wsk' \in [sent : Seq(Messages), frames : Seq(Seq(Int)), closed : BOOLEAN,
                     got : Seq(Messages), bad : BOOLEAN]
    BY <2>1, <2>4
  <2>7. QED
    BY <1>3, <2>5, <2>6 DEF WskInv
<1>11. CASE WsClose
  <2>1. wsk' = [sent |-> sent, frames |-> frames, closed |-> TRUE, got |-> got, bad |-> bad]
    BY <1>1, <1>11 DEF WsClose
  <2>2. /\ wsk'.sent = sent /\ wsk'.frames = frames /\ wsk'.got = got /\ wsk'.closed /\ wsk'.bad = bad
        /\ wsk' \in [sent : Seq(Messages), frames : Seq(Seq(Int)), closed : BOOLEAN,
                     got : Seq(Messages), bad : BOOLEAN]
    BY <2>1
  <2>3. QED
    BY <1>3, <1>9, <2>2 DEF WskInv
<1>8. QED
  BY <1>5, <1>6, <1>7, <1>10, <1>11 DEF CodecNext, TcpWrite, TcpReader, codecVars

(* In step, a read returns the message whose turn it is, unless that is too long. *)
LEMMA InStepReads ==
  ASSUME tcp.sent \in Seq(Messages), InStep, ~TooLong(Len(tcp.got) + 1),
         NEW r, r = TcpRead(tcp.stream), r # More
  PROVE  /\ Len(tcp.got) < Len(tcp.sent) /\ r.is = "msg" /\ r # Bad
         /\ r.msg = tcp.sent[Len(tcp.got) + 1] /\ r.msg \in Messages /\ r.rest \in Seq(Int)
         /\ \E off : Cuts(off, tcp.sent, Len(tcp.got) + 1, r.rest)
<1>1. PICK sent \in Seq(Messages), stream \in Seq(Int), got \in Seq(Messages) :
         sent = tcp.sent /\ stream = tcp.stream /\ got = tcp.got
  BY DEF InStep
<1>2. PICK n \in Nat, g \in Nat : n = Len(sent) /\ DOMAIN sent = 1 .. n /\ g = Len(got) /\ g <= n
  BY <1>1, LenProperties DEF InStep
<1>3. PICK off : Cuts(off, sent, g, stream)
  BY <1>1, <1>2 DEF InStep
<1>4. g < n
  <2>1. SUFFICES ASSUME g = n PROVE FALSE
    BY <1>2
  <2>2. Len(stream) = off[n] - off[n] /\ off \in [0 .. n -> Nat]
    BY <1>2, <1>3, <2>1 DEF Cuts
  <2>3. off[n] \in Nat
    BY <2>2
  <2>4. Len(stream) = 0
    BY <2>2, <2>3
  <2>5. Len(stream) < HeaderLen
    BY <2>4 DEF HeaderLen
  <2>6. TcpRead(stream) = More
    BY <2>5 DEF TcpRead
  <2>7. QED
    BY <1>1, <2>6
<1>5. PICK m : m = sent[g + 1]
  OBVIOUS
<1>6. PICK rest : rest = SubSeq(stream, Size(m) + 1, Len(stream))
  OBVIOUS
<1>7. m \in Messages /\ Starts(stream, m) /\ rest \in Seq(Int) /\ Cuts(off, sent, g + 1, rest)
  BY <1>2, <1>3, <1>4, <1>5, <1>6, ReadCuts
<1>8. Len(m.payload) < W
  <2>1. m.payload \in Seq(Int)
    BY <1>7, BaseFacts DEF Messages
  <2>2. PICK k \in Nat, w \in Nat : k = Len(m.payload) /\ w = W
    BY <2>1, LenProperties, BaseFacts
  <2>3. g + 1 \in DOMAIN sent
    BY <1>2, <1>4
  <2>4. ~(Len(m.payload) >= W)
    BY <1>1, <1>2, <1>5, <2>3 DEF TooLong
  <2>5. QED
    BY <2>2, <2>4
<1>9. r = [is |-> "msg", msg |-> m, rest |-> rest]
  BY <1>1, <1>6, <1>7, <1>8, StreamIsRead DEF Size
<1>10. r.is = "msg" /\ r # Bad /\ r.msg = m /\ r.rest = rest
  BY <1>9 DEF Bad
<1>11. QED
  BY <1>1, <1>2, <1>4, <1>5, <1>7, <1>10

LEMMA TcpStep ==
  ASSUME TcpInv, [CodecNext]_codecVars
  PROVE  TcpInv'
<1>1. PICK sent \in Seq(Messages) : sent = tcp.sent
  BY DEF TcpInv
<1>2. PICK stream \in Seq(Bytes), got \in Seq(Readable) : stream = tcp.stream /\ got = tcp.got
  BY DEF TcpInv
<1>3. DOMAIN tcp = {"sent", "stream", "got", "bad"}
  BY DEF TcpInv
<1>4. PICK n \in Nat : n = Len(sent) /\ DOMAIN sent = 1 .. n
  BY LenProperties
<1>5. PICK g \in Nat : g = Len(got)
  BY LenProperties
<1>6. \A i : TooLong(i) <=> i \in 1 .. n /\ Len(sent[i].payload) >= W
  BY <1>1, <1>4 DEF TooLong
<1>7. ASSUME NEW m \in Messages, TcpWrite(m)
      PROVE  TcpInv'
  <2>1. PICK s, f : s = Append(sent, m) /\ f = stream \o Pack(m)
    OBVIOUS
  <2>2. /\ DOMAIN tcp' = DOMAIN tcp /\ tcp'.sent = s /\ tcp'.stream = f
        /\ tcp'.got = got /\ tcp'.bad = tcp.bad
    BY <1>1, <1>2, <1>3, <1>7, <2>1 DEF TcpWrite
  <2>3. /\ s \in Seq(Messages) /\ Len(s) = n + 1 /\ s[n + 1] = m
        /\ \A i \in 1 .. n : s[i] = sent[i]
    BY <1>4, <2>1, AppendProperties
  <2>4. DOMAIN s = 1 .. n + 1
    BY <2>3, LenProperties
  <2>5. f \in Seq(Bytes)
    BY <2>1, PackBytes, ConcatProperties
  <2>6. \A i : TooLong(i) => TooLong(i)'
    <3>1. ASSUME NEW i \in 1 .. n, Len(sent[i].payload) >= W PROVE TooLong(i)'
      <4>1. s[i] = sent[i] /\ i \in DOMAIN s
        BY <2>3, <2>4
      <4>2. QED
        BY <2>2, <3>1, <4>1 DEF TooLong, W
    <3>2. QED
      BY <1>6, <3>1
  <2>10. ASSUME NEW i \in 1 .. g PROVE AsWritten(i)'
    <3>1. CASE \E j \in 1 .. i : TooLong(j)
      BY <2>6, <3>1 DEF AsWritten
    <3>2. CASE i \in DOMAIN sent /\ got[i] = sent[i]
      <4>1. i \in 1 .. n /\ i \in 1 .. n + 1
        BY <1>4, <3>2
      <4>2. s[i] = sent[i] /\ i \in DOMAIN s
        BY <2>3, <2>4, <4>1
      <4>3. QED
        BY <2>2, <3>2, <4>2 DEF AsWritten
    <3>3. AsWritten(i)
      BY <1>2, <1>5 DEF TcpInv
    <3>4. QED
      BY <1>1, <1>2, <3>1, <3>2, <3>3 DEF AsWritten
  <2>7. CASE OutOfStep
    <3>1. OutOfStep'
      BY <1>2, <2>2, <2>6, <2>7 DEF OutOfStep
    <3>2. QED
      BY <1>3, <1>5, <2>2, <2>3, <2>5, <2>10, <3>1 DEF TcpInv
  <2>8. CASE InStep
    <3>1. /\ stream \in Seq(Int) /\ got \in Seq(Messages)
          /\ g <= n /\ \A i \in 1 .. g : got[i] = sent[i]
      BY <1>1, <1>2, <1>4, <1>5, <2>8 DEF InStep
    <3>2. PICK off : Cuts(off, sent, g, stream)
      BY <1>1, <1>2, <1>5, <2>8 DEF InStep
    <3>3. g \in 0 .. n
      BY <3>1
    <3>4. /\ f \in Seq(Int)
          /\ \E cut : Cuts(cut, s, g, f)
      BY <1>4, <2>1, <3>1, <3>2, <3>3, WriteCuts
    <3>5. g <= Len(s)
      BY <2>3, <3>1
    <3>6. \A i \in 1 .. g : got[i] = s[i]
      BY <2>3, <3>1
    <3>7. tcp'.bad => TooLong(g + 1)'
      BY <1>2, <1>5, <2>2, <2>6, <2>8 DEF InStep
    <3>8. InStep'
      BY <1>5, <2>2, <3>1, <3>4, <3>5, <3>6, <3>7 DEF InStep
    <3>9. QED
      BY <1>3, <1>5, <2>2, <2>3, <2>5, <2>10, <3>8 DEF TcpInv
  <2>9. QED
    BY <2>7, <2>8 DEF TcpInv
<1>8. CASE TcpReader
  <2>1. PICK r : r = TcpRead(stream)
    OBVIOUS
  <2>2. /\ r # More /\ ~tcp.bad
        /\ tcp' = IF r = Bad THEN [tcp EXCEPT !.bad = TRUE]
                  ELSE [tcp EXCEPT !.stream = r.rest, !.got = Append(@, r.msg)]
    BY <1>2, <1>8, <2>1 DEF TcpReader
  <2>3. DOMAIN tcp' = DOMAIN tcp /\ tcp'.sent = sent
    BY <1>1, <1>3, <2>2
  <2>4. \A i : TooLong(i)' <=> TooLong(i)
    BY <1>1, <2>3 DEF TooLong, W
  <2>5. CASE r = Bad
    <3>1. tcp'.stream = stream /\ tcp'.got = got
      BY <1>2, <1>3, <2>2, <2>5
    <3>5. \A i \in 1 .. g : AsWritten(i)'
      BY <1>1, <1>2, <1>5, <2>3, <2>4, <3>1 DEF TcpInv, AsWritten
    <3>2. CASE OutOfStep
      <4>1. OutOfStep'
        BY <1>2, <2>4, <3>1, <3>2 DEF OutOfStep
      <4>2. QED
        BY <1>3, <1>5, <2>3, <3>1, <3>5, <4>1 DEF TcpInv
    <3>3. CASE InStep
      <4>1. TooLong(g + 1)
        <5>1. SUFFICES ASSUME ~TooLong(g + 1) PROVE FALSE
          OBVIOUS
        <5>2. r # Bad
          BY <1>1, <1>2, <1>4, <1>5, <2>1, <2>2, <3>3, <5>1, InStepReads DEF Bad
        <5>3. QED
          BY <2>5, <5>2
      <4>2. InStep'
        BY <1>1, <1>2, <1>5, <2>3, <2>4, <3>1, <3>3, <4>1 DEF InStep
      <4>3. QED
        BY <1>3, <1>5, <2>3, <3>1, <3>5, <4>2 DEF TcpInv
    <3>4. QED
      BY <3>2, <3>3 DEF TcpInv
  <2>6. CASE r # Bad
    <3>1. PICK rest \in Seq(Bytes), m \in Readable : rest = r.rest /\ m = r.msg
      BY <2>1, <2>2, <2>6, ReadTypes
    <3>2. PICK h : h = Append(got, m)
      OBVIOUS
    <3>3. tcp'.stream = rest /\ tcp'.got = h /\ tcp'.bad = tcp.bad
      BY <1>2, <1>3, <2>2, <2>6, <3>1, <3>2
    <3>4. /\ h \in Seq(Readable) /\ Len(h) = g + 1 /\ h[g + 1] = m
          /\ \A i \in 1 .. g : h[i] = got[i]
      BY <1>5, <3>2, AppendProperties
    <3>8. ASSUME NEW i \in 1 .. g PROVE AsWritten(i)'
      <4>1. AsWritten(i) /\ h[i] = got[i]
        BY <1>2, <1>5, <3>4 DEF TcpInv
      <4>2. QED
        BY <1>1, <1>2, <2>3, <2>4, <3>3, <4>1 DEF AsWritten
    <3>9. ASSUME AsWritten(g + 1)' PROVE \A i \in 1 .. g + 1 : AsWritten(i)'
      <4>1. ASSUME NEW i \in 1 .. g + 1 PROVE AsWritten(i)'
        <5>1. CASE i = g + 1
          BY <3>9, <5>1
        <5>2. CASE i # g + 1
          <6>1. i \in 1 .. g
            BY <5>2
          <6>2. QED
            BY <3>8, <6>1
        <5>3. QED
          BY <5>1, <5>2
      <4>2. QED
        BY <4>1
    <3>5. CASE \E j \in 1 .. g + 1 : TooLong(j)
      <4>1. OutOfStep'
        BY <2>4, <3>3, <3>4, <3>5 DEF OutOfStep
      <4>2. AsWritten(g + 1)'
        BY <2>4, <3>5 DEF AsWritten
      <4>3. QED
        BY <1>3, <2>3, <3>3, <3>4, <3>9, <4>1, <4>2 DEF TcpInv
    <3>6. CASE ~ \E j \in 1 .. g + 1 : TooLong(j)
      <4>1. g + 1 \in 1 .. g + 1 /\ \A j \in 1 .. g : j \in 1 .. g + 1
        OBVIOUS
      <4>2. InStep /\ ~TooLong(g + 1)
        BY <1>2, <1>5, <3>6, <4>1 DEF TcpInv, OutOfStep
      <4>3. /\ stream \in Seq(Int) /\ got \in Seq(Messages)
            /\ g <= n /\ \A i \in 1 .. g : got[i] = sent[i]
        BY <1>1, <1>2, <1>4, <1>5, <4>2 DEF InStep
      <4>4. /\ g < n /\ m = sent[g + 1] /\ m \in Messages /\ rest \in Seq(Int)
            /\ \E off : Cuts(off, sent, g + 1, rest)
        BY <1>1, <1>2, <1>4, <1>5, <2>1, <2>2, <3>1, <4>2, InStepReads
      <4>5. h \in Seq(Messages)
        BY <3>2, <4>3, <4>4, AppendProperties
      <4>6. \A i \in 1 .. g + 1 : h[i] = sent[i]
        <5>1. ASSUME NEW i \in 1 .. g + 1 PROVE h[i] = sent[i]
          <6>1. CASE i = g + 1
            BY <3>4, <4>4, <6>1
          <6>2. CASE i # g + 1
            <7>1. i \in 1 .. g
              BY <6>2
            <7>2. QED
              BY <3>4, <4>3, <7>1, Zenon
          <6>3. QED
            BY <6>1, <6>2
        <5>2. QED
          BY <5>1
      <4>7. Len(h) <= Len(sent)
        BY <1>4, <3>4, <4>4
      <4>8. InStep'
        BY <2>2, <2>3, <3>3, <3>4, <4>4, <4>5, <4>6, <4>7 DEF InStep
      <4>9. AsWritten(g + 1)'
        <5>1. g + 1 \in DOMAIN sent /\ h[g + 1] = sent[g + 1]
          BY <1>4, <3>4, <4>4
        <5>2. QED
          BY <2>3, <3>3, <5>1 DEF AsWritten
      <4>10. QED
        BY <1>3, <2>3, <3>3, <3>4, <3>9, <4>8, <4>9 DEF TcpInv
    <3>7. QED
      BY <3>5, <3>6
  <2>7. QED
    BY <2>5, <2>6
<1>9. CASE UNCHANGED tcp
  <2>1. \A i : TooLong(i)' <=> TooLong(i)
    BY <1>9 DEF TooLong, W
  <2>2. InStep' <=> InStep
    BY <1>9, <2>1 DEF InStep
  <2>3. OutOfStep' <=> OutOfStep
    BY <1>9, <2>1 DEF OutOfStep
  <2>4. \A i : AsWritten(i)' <=> AsWritten(i)
    BY <1>9, <2>1 DEF AsWritten
  <2>5. QED
    BY <1>9, <2>2, <2>3, <2>4 DEF TcpInv
<1>10. QED
  BY <1>7, <1>8, <1>9 DEF CodecNext, WsWrite, WsReader, WsClose, codecVars

-----------------------------------------------------------------------------
LEMMA EqualUpTo ==
  ASSUME NEW a \in Seq(Messages), NEW b \in Seq(Messages), Len(a) <= Len(b),
         \A i \in 1 .. Len(a) : a[i] = b[i]
  PROVE  IsPrefix(a, b)
<1>1. PICK n \in Nat, x \in Int : n = Len(a) /\ x = 1 /\ n <= Len(b)
  BY LenProperties
<1>2. \A i \in x .. n : a[i] \in Messages /\ b[i] \in Messages
  <2>1. ASSUME NEW i \in 1 .. n PROVE a[i] \in Messages /\ b[i] \in Messages
    <3>1. a[i] \in Messages
      BY <1>1, ElementOfSeq
    <3>2. QED
      BY <1>1, <3>1
  <2>2. QED
    BY <1>1, <2>1
<1>3. PICK p, q : p = SubSeq(a, x, n) /\ q = SubSeq(b, x, n)
  OBVIOUS
<1>4. /\ p \in Seq(Messages) /\ Len(p) = IF x <= n THEN n - x + 1 ELSE 0
      /\ \A i \in 1 .. n - x + 1 : p[i] = a[x + i - 1]
  BY <1>2, <1>3, SubSeqProperties
<1>5. /\ q \in Seq(Messages) /\ Len(q) = IF x <= n THEN n - x + 1 ELSE 0
      /\ \A i \in 1 .. n - x + 1 : q[i] = b[x + i - 1]
  BY <1>2, <1>3, SubSeqProperties
<1>6. Len(p) = n /\ Len(q) = n /\ n - x + 1 = n
  BY <1>1, <1>4, <1>5
<1>7. ASSUME NEW i \in 1 .. n
      PROVE  p[i] = q[i]
  <2>1. x + i - 1 = i
    BY <1>1
  <2>2. QED
    BY <1>1, <1>4, <1>5, <1>6, <2>1
<1>8. p = q
  BY <1>4, <1>5, <1>6, <1>7, SeqEqual
<1>9. QED
  BY <1>1, <1>3, <1>8 DEF IsPrefix

(* Whatever the messages, however many are under way and wherever the reads fall among the   *)
(* writes, a reader gets the messages written, in order: all those before the close frame   *)
(* of a websocket, and those of a TCP stream up to the first that the 16-bit length cannot   *)
(* describe, which is never read as it was written (codec/message.go, parser.go).            *)
THEOREM MessagesAreRead == CodecSpec => []ReadsWhatWasWritten
<1>1. CodecInit => WskInv /\ TcpInv
  BY InvInit
<1>2. WskInv /\ TcpInv /\ [CodecNext]_codecVars => (WskInv /\ TcpInv)'
  BY WskStep, TcpStep
<1>3. WskInv /\ TcpInv => ReadsWhatWasWritten
  <2> SUFFICES ASSUME WskInv, TcpInv PROVE ReadsWhatWasWritten
    OBVIOUS
  <2>1. /\ wsk.sent \in Seq(Messages) /\ wsk.got \in Seq(Messages)
        /\ Len(wsk.got) <= Len(wsk.sent)
    <3>1. /\ wsk.sent \in Seq(Messages) /\ wsk.got \in Seq(Messages)
          /\ wsk.frames \in Seq(Seq(Int)) /\ Len(wsk.sent) = Len(wsk.got) + Len(wsk.frames)
      BY DEF WskInv
    <3>2. PICK g \in Nat, k \in Nat : g = Len(wsk.got) /\ k = Len(wsk.frames)
      BY <3>1, LenProperties
    <3>3. g <= Len(wsk.sent)
      <4>1. Len(wsk.sent) = g + k
        BY <3>1, <3>2, Zenon
      <4>2. g <= g + k
        OBVIOUS
      <4>3. QED
        BY <4>1, <4>2, Zenon
    <3>4. QED
      BY <3>1, <3>2, <3>3
  <2>2. IsPrefix(wsk.got, wsk.sent)
    BY <2>1, EqualUpTo DEF WskInv
  <2>3. PICK sent \in Seq(Messages), got \in Seq(Readable), n \in Nat, g \in Nat :
           /\ sent = tcp.sent /\ n = Len(sent) /\ DOMAIN sent = 1 .. n
           /\ got = tcp.got /\ g = Len(got) /\ DOMAIN got = 1 .. g
    BY LenProperties DEF TcpInv
  <2>6. \A i \in DOMAIN got : AsWritten(i)
    BY <2>3 DEF TcpInv
  <2>7. ASSUME tcp.bad PROVE \E j \in 1 .. g + 1 : TooLong(j)
    <3>1. g + 1 \in 1 .. g + 1 /\ \A j \in 1 .. g : j \in 1 .. g + 1
      OBVIOUS
    <3>2. QED
      BY <2>3, <2>7, <3>1 DEF TcpInv, InStep, OutOfStep
  <2>8. ASSUME NEW i \in DOMAIN got, TooLong(i) PROVE got[i] # sent[i]
    <3>1. got[i] \in Readable
      BY <2>3, ElementOfSeq
    <3>2. PICK p \in Seq(Bytes) : p = got[i].payload /\ Len(p) < W
      BY <3>1 DEF Readable
    <3>3. PICK k \in Nat, w \in Nat : k = Len(p) /\ w = W
      BY LenProperties, BaseFacts
    <3>4. ~(Len(p) >= W)
      BY <3>2, <3>3
    <3>5. QED
      BY <2>3, <2>8, <3>2, <3>4 DEF TooLong
  <2>4. ASSUME wsk.bad PROVE wsk.closed /\ wsk.got = wsk.sent
    <3>1. wsk.closed /\ Len(wsk.sent) = Len(wsk.got)
      BY <2>1, <2>4, LenProperties DEF WskInv
    <3>2. \A i \in 1 .. Len(wsk.got) : wsk.got[i] = wsk.sent[i]
      BY DEF WskInv
    <3>3. QED
      BY <2>1, <3>1, <3>2, SeqEqual
  <2>5. QED
    BY <2>2, <2>3, <2>4, <2>6, <2>7, <2>8 DEF ReadsWhatWasWritten, AsWritten
<1>4. QED
  BY <1>1, <1>2, <1>3, PTL DEF CodecSpec

-----------------------------------------------------------------------------
(* etcd.go, grpc.go. *)

Changes == [key : Keys, addr : Addrs \cup {NoAddr}]

LogOK == log \in Seq(Changes)

(* etcd.go: the watch starts behind the read and delivers what comes then. *)
MapOK ==
    /\ mapRead \in Int /\ mapFrom \in Int /\ mapAt \in Int
    /\ serverMap \in [Keys -> Addrs \cup {NoAddr}]
    /\ mapRead <= Len(log)
    /\ mapRead >= 0 /\ mapFrom < 0 => serverMap = Store(mapRead)
    /\ mapFrom >= 0 => /\ 0 <= mapRead /\ mapRead <= mapFrom
                       /\ mapFrom <= mapAt /\ mapAt <= Len(log)

(* grpc.go. *)
ServicesOK ==
    /\ svcRead \in Int /\ svcFrom \in Int /\ svcAt \in Int /\ stopAt \in Int
    /\ stopAt <= Len(log) /\ (watching => svcAt >= 0)
    /\ servers \in [Keys -> Addrs \cup {NoAddr}]
    /\ clients \in [Keys -> [addr : Addrs \cup {NoAddr}, open : BOOLEAN]]
    /\ watching \in BOOLEAN /\ leaked \in BOOLEAN

RegistryTypeOK == LogOK /\ MapOK /\ ServicesOK

RInv == RegistryTypeOK /\ MapFollowsStore /\ ClientsFollowServers

-----------------------------------------------------------------------------
(* The store is the last change of every key. *)

At(n, k) == {i \in 1 .. n : log[i].key = k}
Latest(S)  == CHOOSE i \in S : \A j \in S : j <= i

(* The least bound of a set of numbers is its last. *)
LEMMA LastIsThere ==
  ASSUME NEW n \in Nat, NEW S \in SUBSET (1 .. n), S # {}
  PROVE  Latest(S) \in S /\ \A j \in S : j <= Latest(S)
<1>1. PICK B \in SUBSET Nat : B = {m \in Nat : \A x \in S : x <= m}
  OBVIOUS
<1>2. n \in B
  BY <1>1
<1>3. PICK b \in B : \A m \in B : b <= m
  BY <1>2, LeastNumber
<1>4. b \in Nat /\ \A x \in S : x <= b
  BY <1>1
<1>5. b \in S
  <2>1. SUFFICES ASSUME b \notin S PROVE FALSE
    OBVIOUS
  <2>2. \A x \in S : x \in Nat /\ x >= 1 /\ x <= b /\ x # b
    BY <1>4, <2>1
  <2>3. b - 1 \in Nat /\ \A x \in S : x <= b - 1
    <3>1. PICK x \in S : x \in Nat /\ x >= 1 /\ x <= b
      BY <2>2
    <3>2. b - 1 \in Nat
      BY <1>4, <3>1
    <3>3. QED
      BY <1>4, <2>2, <3>2
  <2>4. b - 1 \in B
    BY <1>1, <2>3
  <2>5. QED
    BY <1>3, <1>4, <2>4
<1>6. QED
  BY <1>4, <1>5 DEF Latest

LEMMA StoreIsLast ==
  ASSUME NEW n, NEW k \in Keys
  PROVE  Store(n)[k] = IF At(n, k) = {} THEN NoAddr ELSE log[Latest(At(n, k))].addr
BY DEF Store, At, Latest

(* A key that does not change between two numbers of changes keeps its address. *)
LEMMA StoreKeeps ==
  ASSUME NEW m \in Nat, NEW n \in Nat, m <= n, NEW k \in Keys,
         \A i \in m + 1 .. n : log[i].key # k
  PROVE  Store(n)[k] = Store(m)[k]
<1>1. At(n, k) = At(m, k)
  BY DEF At
<1>2. QED
  BY <1>1, StoreIsLast

(* The address of a key is that of the last change if that is its own. *)
LEMMA StoreTakes ==
  ASSUME NEW n \in Nat, NEW k \in Keys, log[n + 1].key = k
  PROVE  Store(n + 1)[k] = log[n + 1].addr
<1>1. PICK T : T = At(n + 1, k)
  OBVIOUS
<1>2. n + 1 \in T /\ \A j \in T : j \in Nat /\ j <= n + 1
  BY <1>1 DEF At
<1>3. Latest(T) \in T /\ \A j \in T : j <= Latest(T)
  BY <1>2 DEF Latest
<1>4. Latest(T) = n + 1
  BY <1>2, <1>3
<1>5. QED
  BY <1>1, <1>2, <1>4, StoreIsLast

(* Changes to come do not change what the store was. *)
LEMMA StoreStays ==
  ASSUME LogOK, log' = log \/ \E c \in Changes : log' = Append(log, c)
  PROVE  /\ log' \in Seq(Changes) /\ Len(log) \in Nat /\ Len(log') \in Nat /\ Len(log) <= Len(log')
         /\ \A i \in 1 .. Len(log) : log'[i] = log[i]
         /\ \A n \in 0 .. Len(log) : Store(n)' = Store(n)
<1>1. /\ log' \in Seq(Changes) /\ Len(log) \in Nat /\ Len(log') \in Nat /\ Len(log) <= Len(log')
      /\ \A i \in 1 .. Len(log) : log'[i] = log[i]
  BY AppendProperties, LenProperties DEF LogOK
<1>2. ASSUME NEW n \in 0 .. Len(log)
      PROVE  Store(n)' = Store(n)
  <2>1. \A i \in 1 .. n : log'[i] = log[i]
    BY <1>1
  <2>2. ASSUME NEW k \in Keys
        PROVE  Store(n)'[k] = Store(n)[k]
    <3>1. At(n, k)' = At(n, k)
      BY <2>1 DEF At
    <3>2. Store(n)'[k] = IF At(n, k)' = {} THEN NoAddr ELSE log'[Latest(At(n, k)')].addr
      BY DEF Store, At, Latest
    <3>3. At(n, k) # {} => Latest(At(n, k)) \in 1 .. n
      <4>1. At(n, k) \in SUBSET (1 .. n) /\ n \in Nat
        BY <1>1 DEF At
      <4>2. QED
        BY <4>1, LastIsThere
    <3>4. QED
      BY <2>1, <3>1, <3>2, <3>3, StoreIsLast
  <2>3. QED
    BY <2>2 DEF Store
<1>3. QED
  BY <1>1, <1>2

LEMMA StoreTyped ==
  ASSUME LogOK
  PROVE  \A n \in 0 .. Len(log) : Store(n) \in [Keys -> Addrs \cup {NoAddr}]
<1>1. Len(log) \in Nat
  BY LenProperties DEF LogOK
<1>2. \A i \in 1 .. Len(log) : log[i].addr \in Addrs \cup {NoAddr}
  <2>1. \A i \in 1 .. Len(log) : log[i] \in Changes
    BY ElementOfSeq DEF LogOK
  <2>2. QED
    BY <2>1 DEF Changes
<1>3. ASSUME NEW n \in 0 .. Len(log), NEW k \in Keys
      PROVE  Store(n)[k] \in Addrs \cup {NoAddr}
  <2>1. At(n, k) \in SUBSET (1 .. n) /\ n \in Nat
    BY <1>1 DEF At
  <2>2. At(n, k) # {} => Latest(At(n, k)) \in 1 .. Len(log)
    <3>1. At(n, k) # {} => Latest(At(n, k)) \in At(n, k)
      BY <2>1, LastIsThere
    <3>2. QED
      BY <1>1, <2>1, <3>1
  <2>3. QED
    BY <1>2, <2>2, StoreIsLast
<1>4. \A n : Store(n) = [k \in Keys |-> Store(n)[k]]
  BY DEF Store
<1>5. ASSUME NEW n \in 0 .. Len(log)
      PROVE  Store(n) \in [Keys -> Addrs \cup {NoAddr}]
  <2>1. PICK f : f = Store(n)
    OBVIOUS
  <2>2. f = [k \in Keys |-> f[k]] /\ \A k \in Keys : f[k] \in Addrs \cup {NoAddr}
    BY <1>3, <1>4, <2>1
  <2>3. f \in [Keys -> Addrs \cup {NoAddr}]
    BY <2>2
  <2>4. QED
    BY <2>1, <2>3
<1>6. QED
  BY <1>5

-----------------------------------------------------------------------------
(* The steps. *)

LEMMA LogStep ==
  ASSUME LogOK, [RegistryNext]_registryVars
  PROVE  \/ log' = log
         \/ \E c \in Changes : log' = Append(log, c) /\ UNCHANGED <<etcdGo, grpcGo>>
<1>1. CASE \E k \in Keys : Put(k) \/ Del(k) \/ Register(k)
  <2>1. PICK k \in Keys, a \in Addrs \cup {NoAddr} : Change(k, a)
    BY <1>1, RegistryAssumption DEF Put, Del, Register
  <2>2. [key |-> k, addr |-> a] \in Changes
    BY DEF Changes
  <2>3. log' = Append(log, [key |-> k, addr |-> a]) /\ UNCHANGED <<etcdGo, grpcGo>>
    BY <2>1 DEF Change
  <2>4. QED
    BY <2>2, <2>3
<1>2. CASE log' = log
  BY <1>2
<1>3. QED
  BY <1>1, <1>2 DEF RegistryNext, get_configs, watchStarts, watch, WatchServices, watchServicesStarts,
         watchServices, watchServicesStops, Stop, registryVars

LEMMA MapStep ==
  ASSUME RegistryTypeOK, MapFollowsStore, [RegistryNext]_registryVars
  PROVE  LogOK' /\ MapOK' /\ MapFollowsStore'
<1> USE DEF RegistryTypeOK
<1>1. /\ log' \in Seq(Changes) /\ Len(log) \in Nat /\ Len(log') \in Nat /\ Len(log) <= Len(log')
      /\ \A i \in 1 .. Len(log) : log'[i] = log[i]
      /\ \A n \in 0 .. Len(log) : Store(n)' = Store(n)
  BY LogStep, StoreStays
<1>2. LogOK'
  BY <1>1 DEF LogOK
<1>3. \A n \in 0 .. Len(log) : Store(n) \in [Keys -> Addrs \cup {NoAddr}]
  BY StoreTyped
<1>4. CASE UNCHANGED etcdGo
  <2>1. UNCHANGED <<mapRead, mapFrom, mapAt, serverMap>>
    BY <1>4 DEF etcdGo
  <2>2. mapRead >= 0 => mapRead \in 0 .. Len(log)
    BY <1>1 DEF MapOK
  <2>3. MapOK'
    BY <1>1, <2>1, <2>2 DEF MapOK
  <2>4. MapFollowsStore'
    <3> SUFFICES ASSUME mapFrom' >= 0, NEW k \in Keys
                 PROVE  serverMap'[k] = IF Missed(k)' THEN Store(mapRead)'[k] ELSE Store(mapAt)'[k]
      BY DEF MapFollowsStore, Get
    <3>1. /\ mapRead \in Nat /\ mapFrom \in Nat /\ mapAt \in 0 .. Len(log)
          /\ mapRead <= mapFrom /\ mapFrom <= mapAt
      BY <1>1, <2>1 DEF MapOK
    <3>2. PICK r \in 0 .. Len(log), a \in 0 .. Len(log) : r = mapRead /\ a = mapAt
      BY <1>1, <3>1
    <3>3. Store(mapRead)' = Store(r) /\ Store(mapAt)' = Store(a)
      <4>1. Store(mapRead)' = Store(r)' /\ Store(mapAt)' = Store(a)'
        BY <2>1, <3>2
      <4>2. QED
        BY <1>1, <4>1
    <3>4. \A i \in mapRead + 1 .. mapAt : log'[i] = log[i]
      BY <1>1, <3>1
    <3>5. Missed(k)' <=> Missed(k)
      <4>1. \A i \in mapRead + 1 .. mapFrom : log'[i] = log[i]
        BY <3>1, <3>4
      <4>2. \A i \in mapFrom + 1 .. mapAt : log'[i] = log[i]
        BY <3>1, <3>4
      <4>3. (\E i \in mapRead + 1 .. mapFrom : log'[i].key = k)
              <=> \E i \in mapRead + 1 .. mapFrom : log[i].key = k
        BY <4>1
      <4>4. (\A i \in mapFrom + 1 .. mapAt : log'[i].key # k)
              <=> \A i \in mapFrom + 1 .. mapAt : log[i].key # k
        BY <4>2
      <4>5. QED
        BY <2>1, <4>3, <4>4 DEF Missed
    <3>6. serverMap[k] = IF Missed(k) THEN Store(r)[k] ELSE Store(a)[k]
      BY <3>1, <3>2 DEF MapFollowsStore, Get
    <3>7. QED
      BY <2>1, <3>3, <3>5, <3>6
  <2>5. QED
    BY <1>2, <2>3, <2>4
<1>5. CASE get_configs
  <2>1. PICK n \in {0, Len(log)} :
            /\ mapRead' = n /\ serverMap' = Store(n) /\ log' = log
            /\ mapFrom' = mapFrom /\ mapAt' = mapAt /\ mapRead = -1
    BY <1>5 DEF get_configs
  <2>2. n \in 0 .. Len(log)
    BY <1>1
  <2>3. Store(mapRead)' = Store(n)
    <3>1. Store(mapRead)' = Store(n)'
      BY <2>1, <2>2
    <3>2. QED
      BY <1>1, <3>1
  <2>4. serverMap' = Store(n) /\ serverMap' \in [Keys -> Addrs \cup {NoAddr}]
    BY <1>3, <2>1, <2>2
  <2>5. ~(mapFrom >= 0)
    BY <2>1 DEF MapOK
  <2>6. MapOK'
    BY <1>1, <2>1, <2>3, <2>4, <2>5 DEF MapOK
  <2>7. QED
    BY <1>2, <2>1, <2>5, <2>6 DEF MapFollowsStore
<1>6. CASE watchStarts
  <2>1. /\ mapRead >= 0 /\ mapFrom = -1 /\ mapFrom' = Len(log) /\ mapAt' = Len(log)
        /\ UNCHANGED <<log, mapRead, serverMap>>
    BY <1>6 DEF watchStarts
  <2>2. mapRead \in Nat /\ mapRead <= Len(log) /\ serverMap = Store(mapRead)
    BY <2>1 DEF MapOK
  <2>3. MapOK'
    BY <1>1, <2>1, <2>2 DEF MapOK
  <2>4. PICK n \in 0 .. Len(log) : n = Len(log)
    BY <1>1
  <2>5. Store(mapAt)' = Store(n) /\ Store(mapRead)' = Store(mapRead)
    <3>1. PICK r \in 0 .. Len(log) : r = mapRead
      BY <1>1, <2>2
    <3>2. Store(mapAt)' = Store(n)' /\ Store(mapRead)' = Store(r)'
      BY <2>1, <2>4, <3>1
    <3>3. QED
      BY <1>1, <3>1, <3>2
  <2>6. ASSUME NEW k \in Keys
        PROVE  serverMap[k] = IF Missed(k)' THEN Store(mapRead)[k] ELSE Store(n)[k]
    <3>1. n \in Nat /\ mapRead \in Nat /\ mapRead <= n
      BY <1>1, <2>2, <2>4
    <3>2. \A i \in mapFrom' + 1 .. mapAt' : FALSE
      BY <1>1, <2>1
    <3>3. Missed(k)' <=> \E i \in mapRead + 1 .. n : log[i].key = k
      BY <2>1, <2>4, <3>2 DEF Missed
    <3>4. CASE \A i \in mapRead + 1 .. n : log[i].key # k
      <4>1. Store(n)[k] = Store(mapRead)[k]
        BY <3>1, <3>4, StoreKeeps
      <4>2. QED
        BY <2>2, <4>1
    <3>5. QED
      BY <2>2, <3>3, <3>4
  <2>8. MapFollowsStore'
    BY <2>1, <2>5, <2>6 DEF MapFollowsStore, Get
  <2>9. QED
    BY <1>2, <2>3, <2>8
<1>7. CASE watch
  <2>1. /\ mapFrom >= 0 /\ mapAt < Len(log) /\ mapAt' = mapAt + 1
        /\ serverMap' = [serverMap EXCEPT ![log[mapAt + 1].key] = log[mapAt + 1].addr]
        /\ UNCHANGED <<log, mapRead, mapFrom>>
    BY <1>7 DEF watch
  <2>2. PICK a \in Nat : a = mapAt /\ a + 1 \in 1 .. Len(log)
    BY <1>1, <2>1 DEF MapOK
  <2>3. PICK c \in Changes : c = log[a + 1]
    BY <2>2, ElementOfSeq DEF LogOK
  <2>4. c.key \in Keys /\ c.addr \in Addrs \cup {NoAddr}
    BY DEF Changes
  <2>5. serverMap' = [serverMap EXCEPT ![c.key] = c.addr]
    BY <2>1, <2>2, <2>3
  <2>6. MapOK'
    <3>1. serverMap' \in [Keys -> Addrs \cup {NoAddr}]
      BY <2>4, <2>5 DEF MapOK
    <3>2. /\ mapRead' \in Int /\ mapFrom' \in Int /\ mapAt' \in Int /\ mapRead' <= Len(log')
          /\ ~(mapFrom' < 0)
      BY <1>1, <2>1, <2>2 DEF MapOK
    <3>3. 0 <= mapRead' /\ mapRead' <= mapFrom' /\ mapFrom' <= mapAt' /\ mapAt' <= Len(log')
      BY <1>1, <2>1, <2>2 DEF MapOK
    <3>4. QED
      BY <3>1, <3>2, <3>3 DEF MapOK
  <2>7. Store(mapAt)' = Store(a + 1) /\ Store(mapRead)' = Store(mapRead)
    <3>1. PICK r \in 0 .. Len(log) : r = mapRead
      BY <1>1, <2>1 DEF MapOK
    <3>2. Store(mapAt)' = Store(a + 1)' /\ Store(mapRead)' = Store(r)'
      BY <2>1, <2>2, <3>1
    <3>3. a + 1 \in 0 .. Len(log)
      BY <1>1, <2>2
    <3>4. QED
      BY <1>1, <3>1, <3>2, <3>3
  <2>8. ASSUME NEW k \in Keys
        PROVE  serverMap'[k] = IF Missed(k)' THEN Store(mapRead)[k] ELSE Store(a + 1)[k]
    <3>1. CASE k = c.key
      <4>1. serverMap'[k] = c.addr
        BY <2>4, <2>5, <3>1 DEF MapOK
      <4>2. Store(a + 1)[k] = c.addr
        BY <2>3, <3>1, StoreTakes
      <4>3. a + 1 \in mapFrom' + 1 .. mapAt' /\ log'[a + 1].key = k
        BY <2>1, <2>2, <2>3, <3>1 DEF MapOK
      <4>4. ~Missed(k)'
        BY <4>3 DEF Missed
      <4>5. QED
        BY <4>1, <4>2, <4>4
    <3>2. CASE k # c.key
      <4>1. serverMap'[k] = serverMap[k]
        BY <2>5, <3>2 DEF MapOK
      <4>2. Store(a + 1)[k] = Store(a)[k]
        <5>1. \A i \in a + 1 .. a + 1 : log[i].key # k
          BY <2>3, <3>2
        <5>2. QED
          BY <5>1, StoreKeeps
      <4>3. Missed(k)' <=> Missed(k)
        <5>1. \A i \in mapFrom + 1 .. a + 1 : i \in mapFrom + 1 .. a \/ i = a + 1
          BY <2>1 DEF MapOK
        <5>2. \A i \in mapFrom + 1 .. a : i \in mapFrom + 1 .. a + 1
          BY <2>1 DEF MapOK
        <5>3. (\A i \in mapFrom + 1 .. a + 1 : log[i].key # k) <=> \A i \in mapFrom + 1 .. a : log[i].key # k
          BY <2>3, <3>2, <5>1, <5>2
        <5>4. QED
          BY <2>1, <2>2, <5>3 DEF Missed
      <4>4. serverMap[k] = IF Missed(k) THEN Store(mapRead)[k] ELSE Store(a)[k]
        BY <2>1, <2>2 DEF MapFollowsStore, Get
      <4>5. QED
        BY <4>1, <4>2, <4>3, <4>4
    <3>3. QED
      BY <3>1, <3>2
  <2>9. MapFollowsStore'
    BY <2>1, <2>7, <2>8 DEF MapFollowsStore, Get
  <2>10. QED
    BY <1>2, <2>6, <2>9
<1>8. QED
  BY <1>4, <1>5, <1>6, <1>7 DEF RegistryNext, Put, Del, Register, Change, WatchServices, watchServicesStarts,
     watchServices, watchServicesStops, Stop, registryVars

LEMMA ServicesStep ==
  ASSUME RegistryTypeOK, ClientsFollowServers, [RegistryNext]_registryVars
  PROVE  ServicesOK' /\ ClientsFollowServers'
<1> USE DEF RegistryTypeOK
<1>1. /\ log' \in Seq(Changes) /\ Len(log) \in Nat /\ Len(log') \in Nat /\ Len(log) <= Len(log')
      /\ \A i \in 1 .. Len(log) : log'[i] = log[i]
  BY LogStep, StoreStays
<1>2. NoAddr \notin Addrs /\ Self \in Addrs /\ NoClient \in [addr : Addrs \cup {NoAddr}, open : BOOLEAN]
  BY RegistryAssumption DEF NoClient
<1>3. CASE UNCHANGED grpcGo
  <2>1. UNCHANGED <<svcRead, svcFrom, svcAt, servers, clients, stopAt, watching, leaked>>
    BY <1>3 DEF grpcGo
  <2>2. ServicesOK'
    BY <1>1, <2>1 DEF ServicesOK
  <2>3. QED
    BY <2>1, <2>2 DEF ClientsFollowServers, GetClient, GetServices, stopped
<1>4. CASE WatchServices
  <2>1. PICK now : now = Store(Len(log))
    OBVIOUS
  <2>2. PICK made \in SUBSET {k \in Keys : now[k] \notin {NoAddr, Self}} :
            /\ servers' = [k \in Keys |-> IF k \in made THEN now[k] ELSE NoAddr]
            /\ clients' = [k \in Keys |-> IF k \in made THEN [addr |-> now[k], open |-> TRUE] ELSE NoClient]
    BY <1>4, <2>1 DEF WatchServices
  <2>3. /\ svcRead' = Len(log) /\ ~stopped /\ log' = log
        /\ UNCHANGED <<svcFrom, svcAt, stopAt, watching, leaked>>
    BY <1>4 DEF WatchServices
  <2>4. \A k \in Keys : now[k] \in Addrs \cup {NoAddr}
    BY <1>1, <2>1, StoreTyped
  <2>5. ServicesOK'
    <3>1. servers' \in [Keys -> Addrs \cup {NoAddr}]
      BY <2>2, <2>4
    <3>2. clients' \in [Keys -> [addr : Addrs \cup {NoAddr}, open : BOOLEAN]]
      <4>1. \A k \in Keys : [addr |-> now[k], open |-> TRUE] \in [addr : Addrs \cup {NoAddr}, open : BOOLEAN]
        BY <2>4
      <4>2. QED
        BY <1>2, <2>2, <4>1
    <3>3. QED
      BY <1>1, <2>3, <3>1, <3>2 DEF ServicesOK
  <2>6. ClientsFollowServers'
    <3>1. ASSUME NEW k \in Keys
          PROVE  /\ clients'[k].addr # NoAddr => clients'[k].addr = servers'[k] /\ servers'[k] # Self
                 /\ clients'[k].addr # NoAddr => clients'[k].open
      BY <2>2 DEF NoClient
    <3>2. ~stopped'
      BY <2>3 DEF stopped
    <3>3. QED
      BY <3>1, <3>2 DEF ClientsFollowServers, GetClient, GetServices
  <2>7. QED
    BY <2>5, <2>6
<1>5. CASE watchServices
  <2>1. /\ watching /\ svcAt < (IF stopped THEN stopAt ELSE Len(log)) /\ svcAt' = svcAt + 1
        /\ UNCHANGED <<log, svcRead, svcFrom, stopAt, watching>>
    BY <1>5 DEF watchServices
  <2>2. svcAt + 1 \in 1 .. Len(log)
    BY <1>1, <2>1 DEF ServicesOK
  <2>3. PICK c \in Changes : c = log[svcAt + 1]
    BY <2>2, ElementOfSeq DEF LogOK
  <2>4. PICK ok \in BOOLEAN :
           Become(IF c.addr = NoAddr THEN removeService(Services, c.key)
                                     ELSE addService(Services, c.key, c.addr, ok))
    BY <1>5, <2>3 DEF watchServices
  <2>5. c.key \in Keys /\ c.addr \in Addrs \cup {NoAddr}
    BY DEF Changes
  (* One of four things happens to the service; the others are left alone. *)
  <2>6. \/ servers' = servers /\ clients' = clients /\ leaked' = leaked
        \/ /\ servers' = [servers EXCEPT ![c.key] = NoAddr]
           /\ clients' = [clients EXCEPT ![c.key] = NoClient] /\ leaked' = leaked
        \/ /\ c.addr # Self /\ c.addr # NoAddr
           /\ servers' = [servers EXCEPT ![c.key] = c.addr]
           /\ clients' = [clients EXCEPT ![c.key] = [addr |-> c.addr, open |-> TRUE]]
           /\ leaked' = (leaked \/ stopped)
        \/ /\ servers' = servers /\ leaked' = leaked
           /\ clients' = [clients EXCEPT ![c.key] = NoClient]
    <3>1. CASE c.addr = NoAddr
      BY <2>4, <3>1 DEF Become, removeService, Services
    <3>2. CASE c.addr # NoAddr
      <4>1. CASE c.addr = Self \/ servers[c.key] = c.addr
        BY <2>4, <3>2, <4>1 DEF Become, addService, Services
      <4>2. CASE ~(c.addr = Self \/ servers[c.key] = c.addr) /\ ok
        BY <2>4, <3>2, <4>2 DEF Become, addService, Services
      <4>3. CASE ~(c.addr = Self \/ servers[c.key] = c.addr) /\ ~ok
        <5>1. /\ servers' = servers /\ leaked' = leaked
              /\ clients' = [clients EXCEPT ![c.key] = IF servers[c.key] # NoAddr THEN NoClient ELSE clients[c.key]]
          BY <2>4, <3>2, <4>3 DEF Become, addService, Services
        <5>2. QED
          BY <5>1 DEF ServicesOK
      <4>4. QED
        BY <4>1, <4>2, <4>3
    <3>3. QED
      BY <3>1, <3>2
  <2>7. /\ clients[c.key].addr # NoAddr => clients[c.key].addr = servers[c.key] /\ servers[c.key] # Self
        /\ ~stopped /\ clients[c.key].addr # NoAddr => clients[c.key].open
        /\ stopped /\ clients[c.key].open => leaked
    BY <2>5 DEF ClientsFollowServers, GetClient, GetServices
  <2>8. PICK v \in Addrs \cup {NoAddr}, w \in [addr : Addrs \cup {NoAddr}, open : BOOLEAN] :
            /\ servers' = [servers EXCEPT ![c.key] = v] /\ clients' = [clients EXCEPT ![c.key] = w]
            /\ leaked' \in BOOLEAN /\ (leaked => leaked')
            /\ w.addr # NoAddr => w.addr = v /\ v # Self
            /\ ~stopped /\ w.addr # NoAddr => w.open
            /\ stopped /\ w.open => leaked'
    <3>1. servers[c.key] \in Addrs \cup {NoAddr} /\ servers = [servers EXCEPT ![c.key] = servers[c.key]]
      BY <2>5 DEF ServicesOK
    <3>2. /\ clients[c.key] \in [addr : Addrs \cup {NoAddr}, open : BOOLEAN]
          /\ clients = [clients EXCEPT ![c.key] = clients[c.key]]
      BY <2>5 DEF ServicesOK
    <3>3. leaked \in BOOLEAN /\ stopped \in BOOLEAN
      BY DEF ServicesOK, stopped
    <3>9. NoClient \in [addr : Addrs \cup {NoAddr}, open : BOOLEAN] /\ NoClient.addr = NoAddr /\ ~NoClient.open
      BY DEF NoClient
    <3>4. CASE servers' = servers /\ clients' = clients /\ leaked' = leaked
      <4>1. leaked' \in BOOLEAN /\ (leaked => leaked')
        BY <3>3, <3>4
      <4>2. PICK v \in Addrs \cup {NoAddr} : v = servers[c.key]
        BY <3>1
      <4>3. PICK w \in [addr : Addrs \cup {NoAddr}, open : BOOLEAN] : w = clients[c.key]
        BY <3>2
      <4>4. /\ w.addr # NoAddr => w.addr = v /\ v # Self
            /\ ~stopped /\ w.addr # NoAddr => w.open
            /\ stopped /\ w.open => leaked
        BY <2>7, <4>2, <4>3
      <4>5. stopped /\ w.open => leaked'
        BY <3>4, <4>4, Zenon
      <4>6. servers' = [servers EXCEPT ![c.key] = v] /\ clients' = [clients EXCEPT ![c.key] = w]
        BY <3>1, <3>2, <3>4, <4>2, <4>3, Zenon
      <4>7. QED
        BY <4>1, <4>4, <4>5, <4>6, Zenon
    <3>5. CASE /\ servers' = [servers EXCEPT ![c.key] = NoAddr]
               /\ clients' = [clients EXCEPT ![c.key] = NoClient] /\ leaked' = leaked
      <4>1. PICK w \in [addr : Addrs \cup {NoAddr}, open : BOOLEAN] :
               w = NoClient /\ w.addr = NoAddr /\ ~w.open
        BY <3>9
      <4>2. NoAddr \in Addrs \cup {NoAddr} /\ leaked' \in BOOLEAN /\ (leaked => leaked')
        BY <3>3, <3>5
      <4>3. QED
        BY <3>5, <4>1, <4>2, Zenon
    <3>6. CASE /\ c.addr # Self /\ c.addr # NoAddr
               /\ servers' = [servers EXCEPT ![c.key] = c.addr]
               /\ clients' = [clients EXCEPT ![c.key] = [addr |-> c.addr, open |-> TRUE]]
               /\ leaked' = (leaked \/ stopped)
      <4>1. [addr |-> c.addr, open |-> TRUE] \in [addr : Addrs \cup {NoAddr}, open : BOOLEAN]
        BY <2>5
      <4>2. leaked' \in BOOLEAN /\ (leaked => leaked') /\ (stopped => leaked')
        BY <3>3, <3>6
      <4>3. QED
        BY <2>5, <3>6, <4>1, <4>2
    <3>7. CASE /\ servers' = servers /\ leaked' = leaked
               /\ clients' = [clients EXCEPT ![c.key] = NoClient]
      <4>1. PICK w \in [addr : Addrs \cup {NoAddr}, open : BOOLEAN] :
               w = NoClient /\ w.addr = NoAddr /\ ~w.open
        BY <3>9
      <4>2. leaked' \in BOOLEAN /\ (leaked => leaked')
        BY <3>3, <3>7
      <4>3. QED
        BY <3>1, <3>7, <4>1, <4>2, Zenon
    <3>8. QED
      BY <2>6, <3>4, <3>5, <3>6, <3>7
  <2>9. /\ servers' \in [Keys -> Addrs \cup {NoAddr}] /\ leaked' \in BOOLEAN
        /\ clients' \in [Keys -> [addr : Addrs \cup {NoAddr}, open : BOOLEAN]]
    BY <2>5, <2>8 DEF ServicesOK
  <2>10. ServicesOK'
    BY <1>1, <2>1, <2>2, <2>9 DEF ServicesOK
  <2>11. stopped' = stopped
    BY <2>1 DEF stopped
  <2>12. ASSUME NEW k \in Keys
         PROVE  /\ clients'[k].addr # NoAddr => clients'[k].addr = servers'[k] /\ servers'[k] # Self
                /\ ~stopped /\ clients'[k].addr # NoAddr => clients'[k].open
                /\ stopped /\ clients'[k].open => leaked'
    <3>1. /\ clients[k].addr # NoAddr => clients[k].addr = servers[k] /\ servers[k] # Self
          /\ ~stopped /\ clients[k].addr # NoAddr => clients[k].open
          /\ stopped /\ clients[k].open => leaked
      BY DEF ClientsFollowServers, GetClient, GetServices
    <3>2. CASE k # c.key
      BY <2>8, <3>1, <3>2 DEF ServicesOK
    <3>3. CASE k = c.key
      BY <2>5, <2>8, <3>3 DEF ServicesOK
    <3>4. QED
      BY <3>2, <3>3
  <2>13. QED
    BY <2>10, <2>11, <2>12 DEF ClientsFollowServers, GetClient, GetServices
<1>6. CASE Stop
  <2>1. /\ stopAt' = Len(log) /\ clients' = [k \in Keys |-> [clients[k] EXCEPT !.open = FALSE]]
        /\ UNCHANGED <<log, svcRead, svcFrom, svcAt, servers, watching, leaked>>
    BY <1>6 DEF Stop
  <2>2. \A k \in Keys : /\ clients'[k] \in [addr : Addrs \cup {NoAddr}, open : BOOLEAN]
                       /\ clients'[k].addr = clients[k].addr /\ clients'[k].open = FALSE
    BY <2>1 DEF ServicesOK
  <2>3. clients' \in [Keys -> [addr : Addrs \cup {NoAddr}, open : BOOLEAN]]
    BY <2>1, <2>2
  <2>4. ServicesOK'
    BY <1>1, <2>1, <2>3 DEF ServicesOK
  <2>5. stopped'
    BY <1>1, <2>1 DEF stopped
  <2>6. QED
    BY <2>1, <2>2, <2>4, <2>5 DEF ClientsFollowServers, GetClient, GetServices
<1>7. CASE watchServicesStarts \/ watchServicesStops
  <2>1. /\ UNCHANGED <<log, svcRead, servers, clients, stopAt, leaked>>
        /\ svcFrom' \in Int /\ svcAt' \in Int /\ watching' \in BOOLEAN /\ (watching' => svcAt' >= 0)
    <3>1. CASE watchServicesStarts
      BY <1>1, <3>1 DEF watchServicesStarts
    <3>2. CASE watchServicesStops
      BY <3>2 DEF watchServicesStops, ServicesOK
    <3>3. QED
      BY <1>7, <3>1, <3>2
  <2>2. ServicesOK'
    BY <2>1 DEF ServicesOK
  <2>3. QED
    BY <2>1, <2>2 DEF ClientsFollowServers, GetClient, GetServices, stopped
<1>8. QED
  BY <1>3, <1>4, <1>5, <1>6, <1>7 DEF RegistryNext, Put, Del, Register, Change, get_configs, watchStarts, watch,
     registryVars

-----------------------------------------------------------------------------
(* The specification. *)

LEMMA RegistryStart ==
  ASSUME RegistryInit
  PROVE  RInv
<1>1. Len(log) = 0 /\ log \in Seq(Changes)
  BY EmptySeq DEF RegistryInit
<1>2. LogOK /\ MapOK
  BY <1>1 DEF RegistryInit, LogOK, MapOK
<1>3. ServicesOK
  <2>1. NoClient \in [addr : Addrs \cup {NoAddr}, open : BOOLEAN]
    BY DEF NoClient
  <2>2. /\ svcRead \in Int /\ svcFrom \in Int /\ svcAt \in Int /\ stopAt \in Int
        /\ stopAt <= Len(log) /\ ~watching
    BY <1>1 DEF RegistryInit
  <2>3. /\ servers \in [Keys -> Addrs \cup {NoAddr}]
        /\ clients \in [Keys -> [addr : Addrs \cup {NoAddr}, open : BOOLEAN]]
    BY <2>1 DEF RegistryInit
  <2>4. watching \in BOOLEAN /\ leaked \in BOOLEAN
    BY DEF RegistryInit
  <2>5. QED
    BY <2>2, <2>3, <2>4 DEF ServicesOK
<1>4. MapFollowsStore
  BY DEF RegistryInit, MapFollowsStore
<1>5. ClientsFollowServers
  BY DEF RegistryInit, ClientsFollowServers, GetClient, NoClient
<1>6. QED
  BY <1>2, <1>3, <1>4, <1>5 DEF RInv, RegistryTypeOK

LEMMA RegistryInductive == RegistrySpec => []RInv
<1>1. RegistryInit => RInv
  BY RegistryStart
<1>2. RInv /\ [RegistryNext]_registryVars => RInv'
  BY MapStep, ServicesStep DEF RInv, RegistryTypeOK
<1>3. QED
  BY <1>1, <1>2, PTL DEF RegistrySpec

(* The map of etcd.go shows what etcd held when the last event that the watch has delivered *)
(* happened, and for the servers whose last change was missed what it held at the read, or  *)
(* nothing when the read failed; the clients of grpc.go                                     *)
(* are connected to where their services are listed, whatever comes late or around Stop.    *)
THEOREM ServersAreFound == RegistrySpec => []ViewsFollowEtcd
<1>1. RInv => ViewsFollowEtcd
  BY DEF RInv, ViewsFollowEtcd
<1>2. QED
  BY <1>1, RegistryInductive, PTL
=============================================================================
