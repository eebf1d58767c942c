------------------------------ MODULE WireProofs ------------------------------
(***************************************************************************)
(* A connection is a channel of packets, for all packets, wherever the     *)
(* network cuts the bytes, however many are sent and whenever it breaks.   *)
(* First what it rests on: numbers, frames, voice packets and packets are  *)
(* decoded as what was encoded, for all of them, and no part of a voice    *)
(* packet is decoded. Where the code loops, the proof is by the least      *)
(* counterexample.                                                         *)
(***************************************************************************)
EXTENDS Wire, SequenceTheorems, WellFoundedInduction, TLAPS

-----------------------------------------------------------------------------
(* Numbers *)

LEMMA Forms ==
    ASSUME NEW b \in Byte
    PROVE  /\ b < 128 => Following(b) = 0
           /\ b \in 128 .. 191 => Following(b) = 1
           /\ b \in 192 .. 223 => Following(b) = 2
           /\ b \in 224 .. 239 => Following(b) = 3
           /\ b = 240 => Following(b) = 4
           /\ b = 244 => Following(b) = 8
           /\ b >= 252 => Following(b) = 0
BY SMT DEF Byte, Following, Clear

\* w stands in s from position i on
Holds(s, i, w) ==
    /\ i \in Nat \ {0} /\ (i + Len(w)) - 1 <= Len(s)
    /\ \A j \in 1 .. Len(w) : s[(i + j) - 1] = w[j]

\* w is a form that does not negate: its first byte says how long it is
Form(w) ==
    /\ w \in Seq(Byte) /\ w # <<>>
    /\ ~Negates(w[1]) /\ Following(w[1]) = Len(w) - 1

ValueOf(w) ==
    IF w[1] >= 252 THEN Not(Widen(<<w[1] % 4>>))
    ELSE Widen(Leading(w[1]) \o SubSeq(w, 2, Len(w)))

\* what read_varint returns when k is the first byte that does not negate
ReadAt(s, i, k) ==
    LET b     == s[k]
        next  == k + Following(b) + 1
        value == IF b >= 252 THEN Not(Widen(<<b % 4>>))
                 ELSE Widen(Leading(b) \o SubSeq(s, k + 1, next - 1))
    IN  IF next > Len(s) + 1 THEN Err
        ELSE [ok    |-> TRUE,
              value |-> IF (k - i) % 2 = 0 THEN value ELSE Not(value),
              next  |-> next]

\* the part of s from m to n
LEMMA Cut ==
    ASSUME NEW s \in Seq(Byte), NEW m \in Nat, NEW n \in Nat, 0 < m, m <= n + 1, n <= Len(s)
    PROVE  /\ SubSeq(s, m, n) \in Seq(Byte)
           /\ Len(SubSeq(s, m, n)) = (n - m) + 1
           /\ \A j \in 1 .. (n - m) + 1 : SubSeq(s, m, n)[j] = s[(m + j) - 1]
<1>1. SubSeq(s, m, n) = [j \in 1 .. (n - m) + 1 |-> s[(m + j) - 1]]
  OBVIOUS
<1>2. \A j \in 1 .. (n - m) + 1 : (m + j) - 1 \in 1 .. Len(s)
  OBVIOUS
<1>3. \A j \in 1 .. (n - m) + 1 : s[(m + j) - 1] \in Byte
  BY <1>2
<1>4. (n - m) + 1 \in Nat
  OBVIOUS
<1> DEFINE f == [j \in 1 .. (n - m) + 1 |-> s[(m + j) - 1]]
<1>5. f \in [1 .. (n - m) + 1 -> Byte]
  BY <1>3
<1> HIDE DEF f
<1>6. f \in Seq(Byte)
  BY <1>4, <1>5
<1>7. Len(f) = (n - m) + 1
  BY <1>4, <1>5, <1>6
<1>8. \A j \in 1 .. (n - m) + 1 : f[j] = s[(m + j) - 1]
  BY DEF f
<1>9. SubSeq(s, m, n) = f
  BY <1>1 DEF f
<1> QED
  BY <1>6, <1>7, <1>8, <1>9

LEMMA FirstForm ==
    ASSUME NEW s \in Seq(Byte), NEW i \in Nat, NEW k \in i .. Len(s), ~Negates(s[k]),
           \A j \in i .. k - 1 : Negates(s[j])
    PROVE  read_varint(s, i) = ReadAt(s, i, k)
<1> DEFINE first == {m \in i .. Len(s) : ~Negates(s[m]) /\ \A j \in i .. m - 1 : Negates(s[j])}
<1>1. first = {k}
  <2>1. k \in first
    OBVIOUS
  <2>2. ASSUME NEW m \in first PROVE m = k
    <3>1. m \in i .. Len(s) /\ ~Negates(s[m]) /\ \A j \in i .. m - 1 : Negates(s[j])
      OBVIOUS
    <3>2. ~(m < k)
      <4>1. m < k => m \in i .. k - 1
        BY <3>1
      <4> QED
        BY <3>1, <4>1
    <3>3. ~(k < m)
      <4>1. k < m => k \in i .. m - 1
        BY <3>1
      <4> QED
        BY <3>1, <4>1
    <3> QED
      BY <3>1, <3>2, <3>3
  <2> QED
    BY <2>1, <2>2
<1>2. (CHOOSE m \in first : TRUE) = k
  BY <1>1
<1>3. read_varint(s, i) = IF first = {} THEN Err ELSE ReadAt(s, i, CHOOSE m \in first : TRUE)
  BY DEF read_varint, ReadAt
<1> HIDE DEF first
<1> QED
  BY <1>1, <1>2, <1>3

LEMMA ReadForm ==
    ASSUME NEW s \in Seq(Byte), NEW i, NEW k, NEW w, Form(w), Holds(s, k, w),
           i \in Nat, i <= k, \A j \in i .. k - 1 : Negates(s[j])
    PROVE  read_varint(s, i) =
             [ok |-> TRUE,
              value |-> IF (k - i) % 2 = 0 THEN ValueOf(w) ELSE Not(ValueOf(w)),
              next |-> k + Len(w)]
<1>1. w \in Seq(Byte) /\ Len(w) \in Nat /\ Len(w) > 0 /\ Len(s) \in Nat
  BY DEF Form
<1>2. k \in Nat /\ k > 0 /\ (k + Len(w)) - 1 <= Len(s) /\ \A j \in 1 .. Len(w) : s[(k + j) - 1] = w[j]
  BY DEF Holds
<1>3. s[k] = w[1]
  <2>1. 1 \in 1 .. Len(w) /\ (k + 1) - 1 = k
    BY <1>1, <1>2
  <2> QED
    BY <1>2, <2>1
<1>4. read_varint(s, i) = ReadAt(s, i, k)
  <2>1. k \in i .. Len(s)
    BY <1>1, <1>2
  <2>2. ~Negates(s[k])
    BY <1>3 DEF Form
  <2> QED
    BY <2>1, <2>2, FirstForm
<1>5. Following(s[k]) = Len(w) - 1
  BY <1>3 DEF Form
<1>6. k + Following(s[k]) + 1 = k + Len(w) /\ ~(k + Len(w) > Len(s) + 1)
      /\ (k + Len(w)) - 1 \in Nat
  BY <1>1, <1>2, <1>5
<1>7. SubSeq(s, k + 1, (k + Len(w)) - 1) = SubSeq(w, 2, Len(w))
  <2> DEFINE a == SubSeq(s, k + 1, (k + Len(w)) - 1)
             b == SubSeq(w, 2, Len(w))
  <2>1. a \in Seq(Byte) /\ Len(a) = Len(w) - 1
        /\ \A j \in 1 .. Len(w) - 1 : a[j] = s[k + j]
    <3> DEFINE m == k + 1
               n == (k + Len(w)) - 1
    <3>1. m \in Nat /\ n \in Nat /\ 0 < m /\ m <= n + 1 /\ n <= Len(s)
      BY <1>1, <1>2
    <3>2. (n - m) + 1 = Len(w) - 1
      BY <1>1, <1>2
    <3>3. \A j \in 1 .. Len(w) - 1 : (m + j) - 1 = k + j
      BY <1>1, <1>2
    <3> HIDE DEF m, n
    <3>4. /\ SubSeq(s, m, n) \in Seq(Byte)
          /\ Len(SubSeq(s, m, n)) = (n - m) + 1
          /\ \A j \in 1 .. (n - m) + 1 : SubSeq(s, m, n)[j] = s[(m + j) - 1]
      BY <3>1, Cut
    <3> QED
      BY <3>2, <3>3, <3>4 DEF m, n
  <2>2. b \in Seq(Byte) /\ Len(b) = Len(w) - 1
        /\ \A j \in 1 .. Len(w) - 1 : b[j] = w[1 + j]
    <3>1. (Len(w) - 2) + 1 = Len(w) - 1
      BY <1>1
    <3>2. \A j \in 1 .. Len(w) - 1 : (2 + j) - 1 = 1 + j
      BY <1>1
    <3> QED
      BY <1>1, <3>1, <3>2, Cut
  <2>3. \A j \in 1 .. Len(w) - 1 : s[k + j] = w[1 + j]
    <3> SUFFICES ASSUME NEW j \in 1 .. Len(w) - 1 PROVE s[k + j] = w[1 + j]
      OBVIOUS
    <3>1. 1 + j \in 1 .. Len(w) /\ (k + (1 + j)) - 1 = k + j
      BY <1>1, <1>2
    <3> QED
      BY <1>2, <3>1
  <2> HIDE DEF a, b
  <2>4. a = b
    BY <2>1, <2>2, <2>3, SeqEqual
  <2> QED
    BY <2>4 DEF a, b
<1> QED
  BY <1>3, <1>4, <1>6, <1>7 DEF ReadAt, ValueOf

\* a number is its last bytes if those before are zero
LEMMA Widening ==
    ASSUME NEW v \in U64, NEW n \in 0 .. 8, Fits(v, n), NEW b \in Seq(Byte), Len(b) = n,
           \A j \in 1 .. n : b[j] = v[(8 - n) + j]
    PROVE  Widen(b) = v
<1>1. ASSUME NEW i \in 1 .. 8 PROVE (IF i + Len(b) > 8 THEN b[i + Len(b) - 8] ELSE 0) = v[i]
  <2>1. CASE i + n > 8
    <3>1. (i + n) - 8 \in 1 .. n /\ (8 - n) + ((i + n) - 8) = i
      BY <2>1
    <3>2. b[(i + n) - 8] = v[i]
      BY <3>1
    <3> QED
      BY <2>1, <3>2
  <2>2. CASE ~(i + n > 8)
    <3>1. i \in 1 .. 8 - n
      BY <2>2
    <3> QED
      BY <2>2, <3>1 DEF Fits
  <2> QED
    BY <2>1, <2>2
<1>2. v = [i \in 1 .. 8 |-> v[i]]
  BY DEF U64
<1> QED
  BY <1>1, <1>2 DEF Widen

LEMMA FunctionIsSeq ==
    ASSUME NEW n \in Nat, NEW f \in [1 .. n -> Byte]
    PROVE  f \in Seq(Byte) /\ Len(f) = n
<1>1. f \in Seq(Byte)
  OBVIOUS
<1> QED
  BY <1>1

LEMMA Bytes8 ==
    ASSUME NEW v \in U64
    PROVE  /\ v \in Seq(Byte) /\ Len(v) = 8
           /\ v[1] \in Byte /\ v[2] \in Byte /\ v[3] \in Byte /\ v[4] \in Byte
           /\ v[5] \in Byte /\ v[6] \in Byte /\ v[7] \in Byte /\ v[8] \in Byte
<1>1. v \in [1 .. 8 -> Byte] /\ 8 \in Nat
  BY DEF U64
<1>2. v \in Seq(Byte) /\ Len(v) = 8
  BY <1>1, FunctionIsSeq
<1> QED
  BY <1>1, <1>2

\* which bytes are zero, one by one
LEMMA FitsOne ==
    ASSUME NEW v \in U64, Fits(v, 4)
    PROVE  /\ v[5] = 0 => Fits(v, 3)
           /\ v[5] = 0 /\ v[6] = 0 => Fits(v, 2)
           /\ v[5] = 0 /\ v[6] = 0 /\ v[7] = 0 => Fits(v, 1)
<1>1. \A i \in 1 .. 4 : v[i] = 0
  BY DEF Fits
<1>2. \A i \in 1 .. 5 : i \in 1 .. 4 \/ i = 5
  OBVIOUS
<1>3. \A i \in 1 .. 6 : i \in 1 .. 4 \/ i = 5 \/ i = 6
  OBVIOUS
<1>4. \A i \in 1 .. 7 : i \in 1 .. 4 \/ i = 5 \/ i = 6 \/ i = 7
  OBVIOUS
<1>5. 8 - 3 = 5 /\ 8 - 2 = 6 /\ 8 - 1 = 7
  OBVIOUS
<1> QED
  BY <1>1, <1>2, <1>3, <1>4, <1>5 DEF Fits

Written(w, v) == Form(w) /\ w[1] < 252 /\ ValueOf(w) = v

\* The first byte contributes lead to the m bytes of the number, the n behind it
\* the rest.
Contributes(v, w, n, lead, m) ==
    /\ n \in 0 .. 8 /\ w \in Seq(Byte) /\ Len(w) = n + 1
    /\ lead \in Seq(Byte) /\ Leading(w[1]) = lead /\ Following(w[1]) = n
    /\ ~Negates(w[1]) /\ w[1] < 252
    /\ m \in 0 .. 8 /\ m = Len(lead) + n /\ Fits(v, m)
    /\ \A j \in 1 .. Len(lead) : lead[j] = v[(8 - m) + j]
    /\ \A j \in 1 .. n : w[1 + j] = v[(8 - n) + j]

LEMMA WrittenAs ==
    ASSUME NEW v \in U64, NEW w, NEW n, NEW lead, NEW m, Contributes(v, w, n, lead, m)
    PROVE  Written(w, v)
<1> SUFFICES ASSUME n \in 0 .. 8, w \in Seq(Byte), Len(w) = n + 1,
                    lead \in Seq(Byte), Leading(w[1]) = lead, Following(w[1]) = n,
                    ~Negates(w[1]), w[1] < 252,
                    m \in 0 .. 8, m = Len(lead) + n, Fits(v, m),
                    \A j \in 1 .. Len(lead) : lead[j] = v[(8 - m) + j],
                    \A j \in 1 .. n : w[1 + j] = v[(8 - n) + j]
             PROVE  Written(w, v)
  BY DEF Contributes
<1> DEFINE tail == SubSeq(w, 2, n + 1)
           b == lead \o tail
<1>1. Len(lead) \in Nat
  OBVIOUS
<1>2. tail \in Seq(Byte) /\ Len(tail) = n /\ \A j \in 1 .. n : tail[j] = w[1 + j]
  <2>1. n + 1 \in Nat /\ 2 \in Nat /\ 0 < 2 /\ 2 <= (n + 1) + 1 /\ n + 1 <= Len(w)
    OBVIOUS
  <2>2. ((n + 1) - 2) + 1 = n /\ \A j \in 1 .. n : (2 + j) - 1 = 1 + j
    OBVIOUS
  <2> DEFINE last == n + 1
  <2>3. last \in Nat /\ 2 <= last + 1 /\ last <= Len(w) /\ (last - 2) + 1 = n
    OBVIOUS
  <2> HIDE DEF last
  <2>4. /\ SubSeq(w, 2, last) \in Seq(Byte) /\ Len(SubSeq(w, 2, last)) = n
        /\ \A j \in 1 .. n : SubSeq(w, 2, last)[j] = w[(2 + j) - 1]
    BY <2>1, <2>3, Cut
  <2> QED
    BY <2>2, <2>4 DEF last
<1> HIDE DEF tail
<1>3. /\ b \in Seq(Byte) /\ Len(b) = m
      /\ \A j \in 1 .. m : b[j] = IF j <= Len(lead) THEN lead[j] ELSE tail[j - Len(lead)]
  <2>1. b \in Seq(Byte) /\ Len(b) = Len(lead) + Len(tail)
    BY <1>2, ConcatProperties
  <2> QED
    BY <1>1, <1>2, <2>1, ConcatProperties
<1> HIDE DEF b
<1>4. ASSUME NEW j \in 1 .. m PROVE b[j] = v[(8 - m) + j]
  <2>1. CASE j <= Len(lead)
    <3>1. j \in 1 .. Len(lead)
      BY <1>1, <2>1
    <3> QED
      BY <1>3, <2>1, <3>1
  <2>2. CASE ~(j <= Len(lead))
    <3>1. j - Len(lead) \in 1 .. n /\ (8 - n) + (j - Len(lead)) = (8 - m) + j
      BY <1>1, <2>2
    <3>2. tail[j - Len(lead)] = w[1 + (j - Len(lead))]
      BY <1>2, <3>1
    <3>3. w[1 + (j - Len(lead))] = v[(8 - n) + (j - Len(lead))]
      BY <3>1
    <3> QED
      BY <1>3, <2>2, <3>1, <3>2, <3>3
  <2> QED
    BY <2>1, <2>2
<1>5. Widen(b) = v
  BY <1>3, <1>4, Widening
<1>6. Form(w)
  <2>1. w # <<>> /\ Len(w) - 1 = n
    OBVIOUS
  <2> QED
    BY <2>1 DEF Form
<1>7. w[1] \in Byte
  <2>1. 1 \in 1 .. Len(w)
    OBVIOUS
  <2> QED
    BY <2>1
<1>8. ~(w[1] >= 252)
  <2>1. \A x \in Byte : x < 252 => ~(x >= 252)
    BY DEF Byte
  <2> QED
    BY <1>7, <2>1
<1>9. ValueOf(w) = Widen(lead \o SubSeq(w, 2, n + 1))
  BY <1>8 DEF ValueOf
<1> QED
  BY <1>5, <1>6, <1>9 DEF Written, b, tail

LEMMA Written1 ==
    ASSUME NEW v \in U64, Fits(v, 1), v[8] < 128 PROVE Written(<<v[8]>>, v)
<1>1. v[8] \in Byte
  BY Bytes8
<1>2. Following(v[8]) = 0
  BY <1>1, Forms
<1>3. ~Negates(v[8]) /\ v[8] < 252 /\ v[8] % 128 = v[8]
  BY <1>1 DEF Negates, Byte
<1>4. Leading(v[8]) = <<v[8]>>
  BY <1>2, <1>3 DEF Leading
<1>5. <<v[8]>> \in Seq(Byte) /\ Len(<<v[8]>>) = 1 /\ <<v[8]>>[1] = v[8]
  BY <1>1
<1>6. \A j \in 1 .. 1 : <<v[8]>>[j] = v[(8 - 1) + j]
  OBVIOUS
<1> DEFINE w == <<v[8]>>
<1> HIDE DEF w
<1>7. w \in Seq(Byte) /\ Len(w) = 0 + 1 /\ w[1] = v[8] /\ Leading(w[1]) = w
      /\ \A j \in 1 .. Len(w) : w[j] = v[(8 - 1) + j]
  BY <1>4, <1>5, <1>6 DEF w
<1>8. \A j \in 1 .. 0 : w[1 + j] = v[(8 - 0) + j]
  OBVIOUS
<1>9. 0 \in 0 .. 8 /\ 1 \in 0 .. 8 /\ 1 = Len(w) + 0
  BY <1>7
<1>10. Written(w, v)
  <2>1. Contributes(v, w, 0, w, 1)
    BY <1>2, <1>3, <1>7, <1>8, <1>9 DEF Contributes
  <2> QED
    BY <2>1, WrittenAs
<1> QED
  BY <1>10 DEF w

LEMMA Written2 ==
    ASSUME NEW v \in U64, Fits(v, 2), v[7] < 64 PROVE Written(<<128 + v[7], v[8]>>, v)
<1>1. v[7] \in Byte /\ v[8] \in Byte
  BY Bytes8
<1> DEFINE c == 128 + v[7]
<1>2. c \in Byte /\ c \in 128 .. 191 /\ ~Negates(c) /\ c < 252 /\ c % 64 = v[7]
  BY <1>1 DEF Negates, Byte
<1> HIDE DEF c
<1>3. Following(c) = 1
  BY <1>2, Forms
<1>4. Leading(c) = <<v[7]>>
  BY <1>2, <1>3 DEF Leading
<1> DEFINE w == <<c, v[8]>>
           lead == <<v[7]>>
<1>5. /\ w \in Seq(Byte) /\ Len(w) = 1 + 1 /\ w[1] = c
      /\ \A j \in 1 .. 1 : w[1 + j] = v[(8 - 1) + j]
      /\ lead \in Seq(Byte) /\ Len(lead) = 1
      /\ \A j \in 1 .. 1 : lead[j] = v[(8 - 2) + j]
  BY <1>1, <1>2
<1>6. Leading(w[1]) = lead
  BY <1>4, <1>5
<1> HIDE DEF w, lead
<1>7. 1 \in 0 .. 8 /\ 2 \in 0 .. 8 /\ 2 = Len(lead) + 1
  BY <1>5
<1>8. Written(w, v)
  <2>1. Contributes(v, w, 1, lead, 2)
    BY <1>2, <1>3, <1>5, <1>6, <1>7 DEF Contributes
  <2> QED
    BY <2>1, WrittenAs
<1> QED
  BY <1>8 DEF c, w

LEMMA Written3 ==
    ASSUME NEW v \in U64, Fits(v, 3), v[6] < 32 PROVE Written(<<192 + v[6], v[7], v[8]>>, v)
<1>1. v[6] \in Byte /\ v[7] \in Byte /\ v[8] \in Byte
  BY Bytes8
<1> DEFINE c == 192 + v[6]
<1>2. c \in Byte /\ c \in 192 .. 223 /\ ~Negates(c) /\ c < 252 /\ c % 32 = v[6]
  BY <1>1 DEF Negates, Byte
<1> HIDE DEF c
<1>3. Following(c) = 2
  BY <1>2, Forms
<1>4. Leading(c) = <<v[6]>>
  BY <1>2, <1>3 DEF Leading
<1> DEFINE w == <<c, v[7], v[8]>>
           lead == <<v[6]>>
<1>5. \A j \in 1 .. 2 : j = 1 \/ j = 2
  OBVIOUS
<1>6. /\ w \in Seq(Byte) /\ Len(w) = 2 + 1 /\ w[1] = c
      /\ \A j \in 1 .. 2 : w[1 + j] = v[(8 - 2) + j]
      /\ lead \in Seq(Byte) /\ Len(lead) = 1
      /\ \A j \in 1 .. 1 : lead[j] = v[(8 - 3) + j]
  BY <1>1, <1>2, <1>5
<1>7. Leading(w[1]) = lead
  BY <1>4, <1>6
<1> HIDE DEF w, lead
<1>8. 2 \in 0 .. 8 /\ 3 \in 0 .. 8 /\ 3 = Len(lead) + 2
  BY <1>6
<1>9. Written(w, v)
  <2>1. Contributes(v, w, 2, lead, 3)
    BY <1>2, <1>3, <1>6, <1>7, <1>8 DEF Contributes
  <2> QED
    BY <2>1, WrittenAs
<1> QED
  BY <1>9 DEF c, w

LEMMA Written4 ==
    ASSUME NEW v \in U64, Fits(v, 4), v[5] < 16
    PROVE  Written(<<224 + v[5], v[6], v[7], v[8]>>, v)
<1>1. v[5] \in Byte /\ v[6] \in Byte /\ v[7] \in Byte /\ v[8] \in Byte
  BY Bytes8
<1> DEFINE c == 224 + v[5]
<1>2. c \in Byte /\ c \in 224 .. 239 /\ ~Negates(c) /\ c < 252 /\ c % 16 = v[5]
  BY <1>1 DEF Negates, Byte
<1> HIDE DEF c
<1>3. Following(c) = 3
  BY <1>2, Forms
<1>4. Leading(c) = <<v[5]>>
  BY <1>2, <1>3 DEF Leading
<1> DEFINE w == <<c, v[6], v[7], v[8]>>
           lead == <<v[5]>>
<1>5. \A j \in 1 .. 3 : j = 1 \/ j = 2 \/ j = 3
  OBVIOUS
<1>6. /\ w \in Seq(Byte) /\ Len(w) = 3 + 1 /\ w[1] = c
      /\ \A j \in 1 .. 3 : w[1 + j] = v[(8 - 3) + j]
      /\ lead \in Seq(Byte) /\ Len(lead) = 1
      /\ \A j \in 1 .. 1 : lead[j] = v[(8 - 4) + j]
  BY <1>1, <1>2, <1>5
<1>7. Leading(w[1]) = lead
  BY <1>4, <1>6
<1> HIDE DEF w, lead
<1>8. 3 \in 0 .. 8 /\ 4 \in 0 .. 8 /\ 4 = Len(lead) + 3
  BY <1>6
<1>9. Written(w, v)
  <2>1. Contributes(v, w, 3, lead, 4)
    BY <1>2, <1>3, <1>6, <1>7, <1>8 DEF Contributes
  <2> QED
    BY <2>1, WrittenAs
<1> QED
  BY <1>9 DEF c, w

\* the two forms whose first byte is no part of the number
LEMMA WrittenWhole ==
    ASSUME NEW v \in U64, NEW n \in {4, 8}, Fits(v, n), NEW c \in {240, 244},
           n = 4 <=> c = 240
    PROVE  Written(<<c>> \o SubSeq(v, (8 - n) + 1, 8), v)
<1>1. c \in Byte /\ ~Negates(c) /\ c < 252 /\ n \in 0 .. 8 /\ n \in Nat
  BY DEF Negates, Byte
<1>2. Following(c) = n
  <2>1. (c = 240 => Following(c) = 4) /\ (c = 244 => Following(c) = 8)
    BY <1>1, Forms
  <2> QED
    BY <2>1
<1>3. Leading(c) = <<>>
  <2>1. n # 0 /\ n # 1 /\ n # 2 /\ n # 3
    OBVIOUS
  <2> QED
    BY <1>2, <2>1 DEF Leading
<1> DEFINE first == <<c>>
           tail == SubSeq(v, (8 - n) + 1, 8)
           w == first \o tail
<1>4. first \in Seq(Byte) /\ Len(first) = 1 /\ first[1] = c
  BY <1>1
<1>5. /\ tail \in Seq(Byte) /\ Len(tail) = n
      /\ \A j \in 1 .. n : tail[j] = v[(8 - n) + j]
  <2>1. v \in Seq(Byte) /\ 8 <= Len(v) /\ 8 \in Nat
    BY Bytes8
  <2> DEFINE m == (8 - n) + 1
  <2>2. m \in Nat /\ 0 < m /\ m <= 8 + 1 /\ (8 - m) + 1 = n
    OBVIOUS
  <2>3. \A j \in 1 .. n : (m + j) - 1 = (8 - n) + j
    OBVIOUS
  <2> HIDE DEF m
  <2>4. /\ SubSeq(v, m, 8) \in Seq(Byte) /\ Len(SubSeq(v, m, 8)) = n
        /\ \A j \in 1 .. n : SubSeq(v, m, 8)[j] = v[(m + j) - 1]
    BY <2>1, <2>2, Cut
  <2> QED
    BY <2>3, <2>4 DEF m
<1> HIDE DEF first, tail
<1>6. /\ w \in Seq(Byte) /\ Len(w) = Len(first) + Len(tail)
      /\ \A j \in 1 .. Len(first) + Len(tail) :
            w[j] = IF j <= Len(first) THEN first[j] ELSE tail[j - Len(first)]
  <2>1. first \in Seq(Byte) /\ tail \in Seq(Byte)
    BY <1>4, <1>5
  <2> QED
    BY <2>1, ConcatProperties
<1> HIDE DEF w
<1>7. Len(w) = n + 1 /\ w[1] = c
  BY <1>1, <1>4, <1>5, <1>6
<1>8. ASSUME NEW j \in 1 .. n PROVE w[1 + j] = v[(8 - n) + j]
  <2>1. 1 + j \in 1 .. Len(first) + Len(tail) /\ ~(1 + j <= Len(first)) /\ (1 + j) - Len(first) = j
    BY <1>1, <1>4, <1>5
  <2>2. w[1 + j] = tail[j]
    BY <1>6, <2>1
  <2> QED
    BY <1>5, <2>2
<1> DEFINE lead == <<>>
<1>9. lead \in Seq(Byte) /\ n = Len(lead) + n /\ \A j \in 1 .. Len(lead) : lead[j] = v[(8 - n) + j]
  OBVIOUS
<1>10. Leading(w[1]) = lead
  BY <1>3, <1>7
<1> HIDE DEF lead
<1>11. Written(w, v)
  <2>1. Following(w[1]) = n /\ ~Negates(w[1]) /\ w[1] < 252
    BY <1>1, <1>2, <1>7
  <2>2. n \in 0 .. 8 /\ w \in Seq(Byte)
    BY <1>1, <1>6
  <2>3. Contributes(v, w, n, lead, n)
    BY <1>7, <1>8, <1>9, <1>10, <2>1, <2>2 DEF Contributes
  <2> QED
    BY <2>3, WrittenAs
<1> QED
  BY <1>11 DEF w, first, tail

LEMMA WritePositiveForm ==
    ASSUME NEW v \in U64, v[1] < 128
    PROVE  Written(WritePositive(v), v)
<1>1. v[5] \in Byte /\ v[6] \in Byte /\ v[7] \in Byte /\ v[8] \in Byte
  BY Bytes8
<1>2. CASE ~Fits(v, 4)
  <2>1. Fits(v, 8)
    BY DEF Fits
  <2>2. SubSeq(v, (8 - 8) + 1, 8) = v
    <3>1. v \in Seq(Byte) /\ Len(v) = 8
      BY Bytes8
    <3> QED
      BY <3>1, SubSeqFull
  <2>3. Written(<<244>> \o SubSeq(v, (8 - 8) + 1, 8), v)
    <3>1. 8 \in {4, 8} /\ 244 \in {240, 244} /\ (8 = 4 <=> 244 = 240)
      OBVIOUS
    <3> QED
      BY <2>1, <3>1, WrittenWhole
  <2> QED
    BY <1>2, <2>2, <2>3 DEF WritePositive
<1>3. CASE Fits(v, 4) /\ v[5] > 15
  <2>1. Written(<<240>> \o SubSeq(v, (8 - 4) + 1, 8), v)
    BY <1>3, WrittenWhole
  <2>2. (8 - 4) + 1 = 5
    OBVIOUS
  <2> QED
    BY <1>3, <2>1, <2>2 DEF WritePositive
<1>4. CASE Fits(v, 4) /\ ~(v[5] > 15) /\ (v[5] > 0 \/ v[6] > 31)
  <2>1. v[5] < 16
    BY <1>1, <1>4 DEF Byte
  <2> QED
    BY <1>4, <2>1, Written4 DEF WritePositive
<1>5. CASE Fits(v, 4) /\ ~(v[5] > 15) /\ ~(v[5] > 0 \/ v[6] > 31) /\ (v[6] > 0 \/ v[7] > 63)
  <2>1. v[5] = 0 /\ v[6] < 32
    BY <1>1, <1>5 DEF Byte
  <2>2. Fits(v, 3)
    BY <1>5, <2>1, FitsOne
  <2> QED
    BY <1>5, <2>1, <2>2, Written3 DEF WritePositive
<1>6. CASE Fits(v, 4) /\ ~(v[5] > 15) /\ ~(v[5] > 0 \/ v[6] > 31) /\ ~(v[6] > 0 \/ v[7] > 63)
           /\ (v[7] > 0 \/ v[8] > 127)
  <2>1. v[5] = 0 /\ v[6] = 0 /\ v[7] < 64
    BY <1>1, <1>6 DEF Byte
  <2>2. Fits(v, 2)
    BY <1>6, <2>1, FitsOne
  <2> QED
    BY <1>6, <2>1, <2>2, Written2 DEF WritePositive
<1>7. CASE Fits(v, 4) /\ ~(v[5] > 15) /\ ~(v[5] > 0 \/ v[6] > 31) /\ ~(v[6] > 0 \/ v[7] > 63)
           /\ ~(v[7] > 0 \/ v[8] > 127)
  <2>1. v[5] = 0 /\ v[6] = 0 /\ v[7] = 0 /\ v[8] < 128
    BY <1>1, <1>7 DEF Byte
  <2>2. Fits(v, 1)
    BY <1>7, <2>1, FitsOne
  <2> QED
    BY <1>7, <2>1, <2>2, Written1 DEF WritePositive
<1> QED
  BY <1>2, <1>3, <1>4, <1>5, <1>6, <1>7

LEMMA NotTwice ==
    ASSUME NEW v \in U64
    PROVE  Not(v) \in U64 /\ Not(Not(v)) = v /\ Not(v)[1] = 255 - v[1]
<1>1. \A i \in 1 .. 8 : v[i] \in Byte
  BY DEF U64
<1>2. \A i \in 1 .. 8 : 255 - v[i] \in Byte /\ 255 - (255 - v[i]) = v[i]
  <2>1. \A b \in Byte : 255 - b \in Byte /\ 255 - (255 - b) = b
    BY DEF Byte
  <2> QED
    BY <1>1, <2>1
<1>3. Not(v) \in U64
  BY <1>2 DEF Not, U64
<1>4. \A i \in 1 .. 8 : Not(v)[i] = 255 - v[i]
  BY DEF Not
<1>5. Not(Not(v)) = [i \in 1 .. 8 |-> v[i]]
  BY <1>2, <1>4 DEF Not
<1>6. v = [i \in 1 .. 8 |-> v[i]]
  BY DEF U64
<1> QED
  BY <1>3, <1>4, <1>5, <1>6

LEMMA TinyForm ==
    ASSUME NEW v \in U64, TinyNegative(v)
    PROVE  Form(write_varint(v)) /\ ValueOf(write_varint(v)) = v
<1> DEFINE d == 255 - v[8]
           c == 252 + d
           w == <<c>>
<1>1. v[8] \in Byte /\ v[8] >= 252 /\ \A i \in 1 .. 7 : v[i] = 255
  BY Bytes8 DEF TinyNegative
<1>2. d \in 0 .. 3 /\ c \in Byte /\ c >= 252 /\ ~Negates(c) /\ c % 4 = d /\ 255 - d = v[8]
  BY <1>1 DEF Byte, Negates
<1> HIDE DEF d
<1>3. write_varint(v) = w
  BY DEF write_varint, d
<1> HIDE DEF c
<1>4. Following(c) = 0
  BY <1>2, Forms
<1>5. w \in Seq(Byte) /\ w # <<>> /\ Len(w) = 1 /\ w[1] = c
  BY <1>2
<1>6. Form(w)
  BY <1>2, <1>4, <1>5 DEF Form
<1>7. ValueOf(w) = Not(Widen(<<d>>))
  BY <1>2, <1>5 DEF ValueOf
<1>8. \A i \in 1 .. 8 : Widen(<<d>>)[i] = IF i = 8 THEN d ELSE 0
  <2>1. Len(<<d>>) = 1 /\ <<d>>[1] = d
    OBVIOUS
  <2>2. \A i \in 1 .. 8 : (i + 1 > 8 <=> i = 8) /\ (i = 8 => (i + 1) - 8 = 1)
    OBVIOUS
  <2> QED
    BY <2>1, <2>2 DEF Widen
<1>9. \A i \in 1 .. 8 : 255 - Widen(<<d>>)[i] = v[i]
  <2>1. \A i \in 1 .. 8 : i = 8 \/ i \in 1 .. 7
    OBVIOUS
  <2> QED
    BY <1>1, <1>2, <1>8, <2>1
<1>10. v = [i \in 1 .. 8 |-> v[i]]
  BY DEF U64
<1>11. Not(Widen(<<d>>)) = v
  BY <1>9, <1>10 DEF Not
<1> QED
  BY <1>3, <1>6, <1>7, <1>11

LEMMA NegativeParts ==
    ASSUME NEW v \in U64, ~TinyNegative(v), Negative(v)
    PROVE  /\ write_varint(v) = <<248>> \o WritePositive(Not(v))
           /\ Written(WritePositive(Not(v)), Not(v))
<1>1. v[1] \in Byte
  BY Bytes8
<1>2. Not(v) \in U64 /\ Not(v)[1] < 128
  BY <1>1, NotTwice DEF Negative, Byte
<1> QED
  BY <1>2, WritePositiveForm DEF write_varint

LEMMA PositiveParts ==
    ASSUME NEW v \in U64, ~TinyNegative(v), ~Negative(v)
    PROVE  write_varint(v) = WritePositive(v) /\ Written(write_varint(v), v)
<1>1. v[1] \in Byte
  BY Bytes8
<1>2. v[1] < 128
  BY <1>1 DEF Negative, Byte
<1> QED
  BY <1>2, WritePositiveForm DEF write_varint

LEMMA VarintBytes ==
    ASSUME NEW v \in U64
    PROVE  write_varint(v) \in Seq(Byte)
<1>1. CASE TinyNegative(v)
  BY <1>1, TinyForm DEF Form
<1>2. CASE ~TinyNegative(v) /\ Negative(v)
  <2>1. WritePositive(Not(v)) \in Seq(Byte)
    BY <1>2, NegativeParts DEF Written, Form
  <2>2. <<248>> \in Seq(Byte)
    BY DEF Byte
  <2>3. <<248>> \o WritePositive(Not(v)) \in Seq(Byte)
    BY <2>1, <2>2, ConcatProperties
  <2> QED
    BY <1>2, <2>3, NegativeParts
<1>3. CASE ~TinyNegative(v) /\ ~Negative(v)
  BY <1>3, PositiveParts DEF Written, Form
<1> QED
  BY <1>1, <1>2, <1>3

\* read_varint gives back every u64 that write_varint wrote, wherever it stands,
\* and goes on right behind it.
THEOREM VarintRoundTrip ==
    ASSUME NEW v \in U64, NEW s \in Seq(Byte), NEW i, Holds(s, i, write_varint(v))
    PROVE  read_varint(s, i) = Parsed(v, i + Len(write_varint(v)))
<1> DEFINE w == write_varint(v)
<1>1. i \in Nat /\ i > 0 /\ i <= i /\ \A j \in i .. i - 1 : Negates(s[j])
  BY DEF Holds
<1>2. (i - i) % 2 = 0
  BY <1>1
<1>3. CASE Form(w) /\ ValueOf(w) = v
  <2> HIDE DEF w
  <2>1. Holds(s, i, w)
    BY DEF w
  <2>2. read_varint(s, i) =
             [ok |-> TRUE,
              value |-> IF (i - i) % 2 = 0 THEN ValueOf(w) ELSE Not(ValueOf(w)),
              next |-> i + Len(w)]
    BY <1>1, <1>3, <2>1, ReadForm
  <2> QED
    BY <1>2, <1>3, <2>2 DEF Parsed, w
<1>4. CASE TinyNegative(v)
  BY <1>3, <1>4, TinyForm
<1>5. CASE ~TinyNegative(v) /\ ~Negative(v)
  BY <1>3, <1>5, PositiveParts DEF Written
<1>6. CASE ~TinyNegative(v) /\ Negative(v)
  <2> DEFINE u == WritePositive(Not(v))
             first == <<248>>
             k == i + 1
  <2>1. w = first \o u /\ Form(u) /\ ValueOf(u) = Not(v)
    BY <1>6, NegativeParts DEF Written
  <2>2. u \in Seq(Byte) /\ first \in Seq(Byte) /\ Len(first) = 1 /\ first[1] = 248
    BY <2>1 DEF Form, Byte
  <2> HIDE DEF u, first, w
  <2>3. /\ Len(w) = Len(first) + Len(u)
        /\ \A j \in 1 .. Len(first) + Len(u) :
                w[j] = IF j <= Len(first) THEN first[j] ELSE u[j - Len(first)]
    <3>1. u \in Seq(Byte) /\ first \in Seq(Byte)
      BY <2>2
    <3> DEFINE z == first \o u
    <3>2. /\ Len(z) = Len(first) + Len(u)
          /\ \A j \in 1 .. Len(first) + Len(u) :
                z[j] = IF j <= Len(first) THEN first[j] ELSE u[j - Len(first)]
      BY <3>1, ConcatProperties
    <3> HIDE DEF z
    <3>3. w = z
      BY <2>1 DEF z
    <3> QED
      BY <3>2, <3>3
  <2>4. Len(u) \in Nat
    BY <2>2
  <2>5. (i + Len(w)) - 1 <= Len(s) /\ \A j \in 1 .. Len(w) : s[(i + j) - 1] = w[j]
    BY DEF Holds, w
  <2>6. Len(w) = 1 + Len(u) /\ w[1] = 248 /\ \A j \in 1 .. Len(u) : w[1 + j] = u[j]
    <3>1. \A j \in 1 .. Len(u) : /\ 1 + j \in 1 .. Len(first) + Len(u)
                                 /\ ~(1 + j <= Len(first)) /\ (1 + j) - Len(first) = j
      BY <2>2, <2>4
    <3>2. 1 \in 1 .. Len(first) + Len(u) /\ 1 <= Len(first)
      BY <2>2, <2>4
    <3> QED
      BY <2>2, <2>3, <3>1, <3>2
  <2>7. s[i] = 248
    <3>1. 1 \in 1 .. Len(w) /\ (i + 1) - 1 = i
      BY <1>1, <2>4, <2>6
    <3> QED
      BY <2>5, <2>6, <3>1
  <2>8. k \in Nat \ {0} /\ (k + Len(u)) - 1 <= Len(s) /\ k + Len(u) = i + Len(w) /\ i <= k
        /\ (k - i) % 2 = 1
    BY <1>1, <2>4, <2>5, <2>6
  <2>9. ASSUME NEW j \in 1 .. Len(u) PROVE s[(k + j) - 1] = u[j]
    <3>1. 1 + j \in 1 .. Len(w) /\ (i + (1 + j)) - 1 = (k + j) - 1
      BY <1>1, <2>4, <2>6
    <3>2. s[(i + (1 + j)) - 1] = w[1 + j]
      BY <2>5, <3>1
    <3> QED
      BY <2>6, <3>1, <3>2
  <2>10. \A j \in i .. k - 1 : Negates(s[j])
    <3>1. \A j \in i .. k - 1 : j = i
      BY <1>1
    <3>2. Negates(248)
      BY DEF Negates
    <3> QED
      BY <2>7, <3>1, <3>2
  <2> HIDE DEF k
  <2>11. Holds(s, k, u)
    BY <2>8, <2>9 DEF Holds
  <2>12. read_varint(s, i) =
             [ok |-> TRUE,
              value |-> IF (k - i) % 2 = 0 THEN ValueOf(u) ELSE Not(ValueOf(u)),
              next |-> k + Len(u)]
    BY <1>1, <2>1, <2>8, <2>10, <2>11, ReadForm
  <2>13. Not(Not(v)) = v
    BY NotTwice
  <2>14. ~((k - i) % 2 = 0)
    BY <2>8
  <2>15. read_varint(s, i) = [ok |-> TRUE, value |-> v, next |-> i + Len(w)]
    BY <2>1, <2>8, <2>12, <2>13, <2>14
  <2> QED
    BY <2>15 DEF Parsed, w
<1> QED
  BY <1>4, <1>5, <1>6

LEMMA HoldsSelf == ASSUME NEW s \in Seq(Byte) PROVE Holds(s, 1, s)
<1>1. Len(s) \in Nat
  OBVIOUS
<1>2. \A j \in 1 .. Len(s) : (1 + j) - 1 = j
  BY <1>1
<1> QED
  BY <1>1, <1>2 DEF Holds

IsJoined(z, a, b) == z = a \o b

\* the parts of what stands somewhere stand one behind the other
LEMMA HoldsParts ==
    ASSUME NEW s \in Seq(Byte), NEW i \in Nat, NEW a \in Seq(Byte), NEW b \in Seq(Byte),
           NEW z, IsJoined(z, a, b), Holds(s, i, z)
    PROVE  /\ Holds(s, i, a) /\ Holds(s, i + Len(a), b)
           /\ z \in Seq(Byte) /\ Len(z) = Len(a) + Len(b)
<1>1. /\ z \in Seq(Byte)
      /\ Len(z) = Len(a) + Len(b)
      /\ \A j \in 1 .. Len(a) + Len(b) : z[j] = IF j <= Len(a) THEN a[j] ELSE b[j - Len(a)]
  <2> DEFINE y == a \o b
  <2>1. /\ y \in Seq(Byte)
        /\ Len(y) = Len(a) + Len(b)
        /\ \A j \in 1 .. Len(a) + Len(b) : y[j] = IF j <= Len(a) THEN a[j] ELSE b[j - Len(a)]
    BY ConcatProperties
  <2> HIDE DEF y
  <2>2. z = y
    BY DEF IsJoined, y
  <2> QED
    BY <2>1, <2>2
<1>2. Holds(s, i, z)
  OBVIOUS
<1>3. /\ i \in Nat /\ i > 0 /\ (i + Len(z)) - 1 <= Len(s)
      /\ \A j \in 1 .. Len(z) : s[(i + j) - 1] = z[j]
  BY <1>2 DEF Holds
<1>4. Len(a) \in Nat /\ Len(b) \in Nat /\ Len(s) \in Nat
  OBVIOUS
<1>5. Holds(s, i, a)
  <2>1. (i + Len(a)) - 1 <= Len(s)
    BY <1>1, <1>3, <1>4
  <2>2. ASSUME NEW j \in 1 .. Len(a) PROVE s[(i + j) - 1] = a[j]
    <3>1. j \in 1 .. Len(z) /\ j \in 1 .. Len(a) + Len(b) /\ j <= Len(a)
      BY <1>1, <1>4
    <3> QED
      BY <1>1, <1>3, <3>1
  <2> QED
    BY <1>3, <2>1, <2>2 DEF Holds
<1>6. Holds(s, i + Len(a), b)
  <2> DEFINE k == i + Len(a)
  <2>1. k \in Nat \ {0} /\ (k + Len(b)) - 1 <= Len(s)
    BY <1>1, <1>3, <1>4
  <2>2. ASSUME NEW j \in 1 .. Len(b) PROVE s[(k + j) - 1] = b[j]
    <3> DEFINE m == Len(a) + j
    <3>1. m \in 1 .. Len(z) /\ m \in 1 .. Len(a) + Len(b) /\ ~(m <= Len(a)) /\ m - Len(a) = j
          /\ (i + m) - 1 = (k + j) - 1
      BY <1>1, <1>3, <1>4
    <3> HIDE DEF m
    <3>2. z[m] = b[m - Len(a)]
      BY <1>1, <3>1
    <3>3. s[(i + m) - 1] = z[m]
      BY <1>3, <3>1
    <3> QED
      BY <3>1, <3>2, <3>3
  <2> HIDE DEF k
  <2>3. Holds(s, k, b)
    BY <2>1, <2>2 DEF Holds
  <2> QED
    BY <2>3 DEF k
<1> QED
  BY <1>1, <1>5, <1>6

\* what stands in s is cut out of it
LEMMA HoldsCut ==
    ASSUME NEW s \in Seq(Byte), NEW k, NEW w \in Seq(Byte), Holds(s, k, w)
    PROVE  SubSeq(s, k, (k + Len(w)) - 1) = w
<1>1. /\ k \in Nat /\ k > 0 /\ (k + Len(w)) - 1 <= Len(s)
      /\ \A j \in 1 .. Len(w) : s[(k + j) - 1] = w[j]
  BY DEF Holds
<1>2. Len(w) \in Nat /\ Len(s) \in Nat
  OBVIOUS
<1> DEFINE n == (k + Len(w)) - 1
<1>3. n \in Nat /\ 0 < k /\ k <= n + 1 /\ n <= Len(s) /\ (n - k) + 1 = Len(w)
  BY <1>1, <1>2
<1> HIDE DEF n
<1>4. /\ SubSeq(s, k, n) \in Seq(Byte) /\ Len(SubSeq(s, k, n)) = Len(w)
      /\ \A j \in 1 .. Len(w) : SubSeq(s, k, n)[j] = s[(k + j) - 1]
  BY <1>1, <1>3, Cut
<1>5. SubSeq(s, k, n) = w
  BY <1>1, <1>4, SeqEqual
<1> QED
  BY <1>5 DEF n

LEMMA One ==
    ASSUME NEW b \in Byte
    PROVE  <<b>> \in Seq(Byte) /\ Len(<<b>>) = 1 /\ <<b>>[1] = b
OBVIOUS

LEMMA HoldsFirst ==
    ASSUME NEW s \in Seq(Byte), NEW k, NEW b \in Byte, Holds(s, k, <<b>>)
    PROVE  s[k] = b /\ k \in Nat /\ k > 0 /\ k <= Len(s)
<1>1. /\ k \in Nat /\ k > 0 /\ (k + Len(<<b>>)) - 1 <= Len(s)
      /\ \A j \in 1 .. Len(<<b>>) : s[(k + j) - 1] = <<b>>[j]
  BY DEF Holds
<1>2. Len(<<b>>) = 1 /\ <<b>>[1] = b
  OBVIOUS
<1>3. 1 \in 1 .. 1 /\ (k + 1) - 1 = k
  BY <1>1
<1> QED
  BY <1>1, <1>2, <1>3

-----------------------------------------------------------------------------
(* Voice packets *)

LEMMA PingRoundTrip ==
    ASSUME NEW dst, NEW v \in U64
    PROVE  /\ Encode(dst, [kind |-> Ping, timestamp |-> v]) \in Seq(Byte)
           /\ Decode(dst, Encode(dst, [kind |-> Ping, timestamp |-> v])) =
                [ok |-> TRUE, packet |-> [kind |-> Ping, timestamp |-> v]]
<1> DEFINE p == [kind |-> Ping, timestamp |-> v]
           w == write_varint(v)
           s == <<32>> \o w
<1>1. Encode(dst, p) = s
  BY DEF Encode
<1>2. 32 \in Byte
  BY DEF Byte
<1>3. <<32>> \in Seq(Byte) /\ Len(<<32>>) = 1 /\ w \in Seq(Byte)
  BY <1>2, One, VarintBytes
<1>4. s \in Seq(Byte)
  BY <1>3, ConcatProperties
<1>5. IsJoined(s, <<32>>, w)
  BY DEF IsJoined
<1> HIDE DEF s, w
<1>6. Holds(s, 1, <<32>>) /\ Holds(s, 1 + 1, w)
  <2>1. Holds(s, 1, s)
    BY <1>4, HoldsSelf
  <2> DEFINE first == <<32>>
  <2>2. first \in Seq(Byte) /\ Len(first) = 1 /\ IsJoined(s, first, w)
    BY <1>3, <1>5
  <2> HIDE DEF first
  <2>3. Holds(s, 1, first) /\ Holds(s, 1 + Len(first), w)
    BY <1>3, <1>4, <2>1, <2>2, HoldsParts
  <2> QED
    BY <2>2, <2>3 DEF first
<1>7. s[1] = 32 /\ s # <<>>
  <2>1. s[1] = 32 /\ 1 <= Len(s)
    BY <1>2, <1>4, <1>6, HoldsFirst
  <2> QED
    BY <1>4, <2>1
<1>8. read_varint(s, 2) = Parsed(v, 2 + Len(w))
  <2>1. 1 + 1 = 2
    OBVIOUS
  <2> QED
    BY <1>4, <1>6, <2>1, VarintRoundTrip DEF w
<1>9. s[1] \div 32 = Ping
  BY <1>7 DEF Ping
<1>10. Parsed(v, 2 + Len(w)).ok /\ Parsed(v, 2 + Len(w)).value = v
  BY DEF Parsed
<1>11. Decode(dst, s) = [ok |-> TRUE, packet |-> p]
  BY <1>7, <1>8, <1>9, <1>10 DEF Decode
<1> QED
  BY <1>1, <1>4, <1>11

-----------------------------------------------------------------------------
(* The opus frame *)

\* n is below 2^24
U24Number(n) == n \in Nat /\ n \div 65536 \in Byte

LEMMA Triple ==
    ASSUME NEW n, U24Number(n)
    PROVE  /\ n \div 65536 \in Byte /\ (n \div 256) % 256 \in Byte /\ n % 256 \in Byte
           /\ (n \div 65536) % 256 = n \div 65536
           /\ ((n \div 65536) * 256 + ((n \div 256) % 256)) * 256 + (n % 256) = n
<1>1. n \in Nat /\ n \div 65536 \in 0 .. 255
  BY DEF U24Number, Byte
<1>2. n = 256 * (n \div 256) + (n % 256) /\ n \div 256 \in Nat /\ n % 256 \in 0 .. 255
  BY <1>1, SMT
<1> DEFINE m == n \div 256
<1>3. m = 256 * (m \div 256) + (m % 256) /\ m \div 256 \in Nat /\ m % 256 \in 0 .. 255
  BY <1>2, SMT
<1>4. m \div 256 = n \div 65536
  BY <1>1, SMT
<1> HIDE DEF m
<1>5. ((n \div 65536) * 256 + (m % 256)) * 256 + (n % 256) = n
  BY <1>2, <1>3, <1>4, SMT DEF m
<1>6. (n \div 65536) % 256 = n \div 65536
  BY <1>1, SMT
<1> QED
  BY <1>1, <1>2, <1>3, <1>5, <1>6 DEF m, Byte

LEMMA U64OfFacts ==
    ASSUME NEW n, U24Number(n)
    PROVE  U64Of(n) \in U64 /\ Fits(U64Of(n), 3) /\ NatOf(U64Of(n)) = n
<1> DEFINE a == n \div 65536
           b == (n \div 256) % 256
           c == n % 256
           t == <<a, b, c>>
<1>1. a \in Byte /\ b \in Byte /\ c \in Byte /\ a % 256 = a /\ (a * 256 + b) * 256 + c = n
  BY Triple
<1> HIDE DEF a, b, c
<1>2. t \in Seq(Byte) /\ Len(t) = 3 /\ t[1] = a /\ t[2] = b /\ t[3] = c
  BY <1>1
<1>3. U64Of(n) = Widen(t)
  BY <1>1 DEF U64Of, a, b, c
<1>4. \A i \in 1 .. 8 : Widen(t)[i] = IF i + 3 > 8 THEN t[(i + 3) - 8] ELSE 0
  BY <1>2 DEF Widen
<1>5. Widen(t)[6] = a /\ Widen(t)[7] = b /\ Widen(t)[8] = c
  BY <1>2, <1>4
<1>6. \A i \in 1 .. 5 : Widen(t)[i] = 0
  BY <1>4
<1>7. Widen(t) \in U64
  <2>1. \A i \in 1 .. 8 : i \in 1 .. 5 \/ i = 6 \/ i = 7 \/ i = 8
    OBVIOUS
  <2>2. \A i \in 1 .. 8 : Widen(t)[i] \in Byte
    <3>1. 0 \in Byte
      BY DEF Byte
    <3> QED
      BY <1>1, <1>5, <1>6, <2>1, <3>1
  <2>3. Widen(t) = [i \in 1 .. 8 |-> Widen(t)[i]]
    BY DEF Widen
  <2> QED
    BY <2>2, <2>3 DEF U64
<1>8. Fits(Widen(t), 3)
  <2>1. 8 - 3 = 5
    OBVIOUS
  <2> QED
    BY <1>6, <2>1 DEF Fits
<1>9. NatOf(Widen(t)) = n
  BY <1>1, <1>5 DEF NatOf
<1> QED
  BY <1>3, <1>7, <1>8, <1>9

\* a length and the bit beside it do not mix
LEMMA LengthAndBit ==
    ASSUME NEW len \in Nat, NEW bit \in Nat, len < bit
    PROVE  /\ Clear(len, bit) /\ Unset(len, bit) = len
           /\ Set(len, bit) = len + bit
           /\ ~Clear(len + bit, bit) /\ Unset(len + bit, bit) = len
<1>1. len \div bit = 0
  BY SMT
<1>2. (len + bit) \div bit = 1
  BY SMT
<1>3. Clear(len, bit) /\ ~Clear(len + bit, bit)
  BY <1>1, <1>2 DEF Clear
<1> QED
  BY <1>3 DEF Set, Unset

LEMMA OpusHeader ==
    ASSUME NEW len \in Nat, len < TermBit, NEW term \in BOOLEAN
    PROVE  LET n == IF term THEN Set(len, TermBit) ELSE len
           IN  U24Number(n) /\ Unset(n, TermBit) = len /\ (term <=> ~Clear(n, TermBit))
<1>1. TermBit \in Nat
  BY TermBitWidth, SMT
<1>2. U24Number(len) /\ U24Number(len + TermBit)
  BY TermBitWidth, SMT DEF U24Number, Byte
<1> QED
  BY <1>1, <1>2, LengthAndBit

LEMMA OpusRoundTrip ==
    ASSUME NEW p, p.kind = Opus, NEW frame \in Seq(Byte), p.frames = <<frame>>,
           Len(frame) < TermBit, p.term \in BOOLEAN
    PROVE  /\ EncodePayload(p) \in Seq(Byte)
           /\ \A s \in Seq(Byte) : \A i : Holds(s, i, EncodePayload(p)) =>
                ReadOpus(s, i) = [ok |-> TRUE, term |-> p.term, value |-> p.frames,
                                  next |-> i + Len(EncodePayload(p))]
<1> DEFINE len == Len(frame)
           n == IF p.term THEN Set(len, TermBit) ELSE len
           w == write_varint(U64Of(n))
<1>1. len \in Nat
  OBVIOUS
<1>2. U24Number(n) /\ Unset(n, TermBit) = len /\ (p.term <=> ~Clear(n, TermBit))
  BY <1>1, OpusHeader
<1>3. p.frames[1] = frame
  OBVIOUS
<1>4. IsJoined(EncodePayload(p), w, frame)
  BY <1>3 DEF EncodePayload, IsJoined
<1> HIDE DEF n
<1>5. U64Of(n) \in U64 /\ Fits(U64Of(n), 3) /\ NatOf(U64Of(n)) = n
  BY <1>2, U64OfFacts
<1>6. w \in Seq(Byte)
  BY <1>5, VarintBytes
<1> HIDE DEF w
<1>7. EncodePayload(p) \in Seq(Byte)
  BY <1>4, <1>6, ConcatProperties DEF IsJoined
<1>8. ASSUME NEW s \in Seq(Byte), NEW i, Holds(s, i, EncodePayload(p))
      PROVE  ReadOpus(s, i) = [ok |-> TRUE, term |-> p.term, value |-> p.frames,
                               next |-> i + Len(EncodePayload(p))]
  <2> DEFINE next == i + Len(w)
             end == next + len
  <2>1. Holds(s, i, w) /\ Holds(s, next, frame) /\ Len(EncodePayload(p)) = Len(w) + Len(frame)
    <3>1. i \in Nat
      BY <1>8 DEF Holds
    <3> QED
      BY <1>4, <1>6, <1>8, <3>1, HoldsParts
  <2>2. read_varint(s, i) = Parsed(U64Of(n), next)
    BY <1>5, <2>1, VarintRoundTrip DEF w
  <2>3. i \in Nat /\ next \in Nat /\ Len(w) \in Nat /\ ~(end > Len(s) + 1)
        /\ end = i + Len(EncodePayload(p)) /\ Len(s) \in Nat
    <3>1. i \in Nat /\ Len(w) \in Nat /\ Len(s) \in Nat
      BY <1>6, <2>1 DEF Holds
    <3>2. (next + len) - 1 <= Len(s)
      BY <2>1 DEF Holds
    <3> QED
      BY <1>1, <2>1, <3>1, <3>2
  <2> HIDE DEF next
  <2>4. SubSeq(s, next, end - 1) = frame
    BY <2>1, HoldsCut
  <2> HIDE DEF end
  <2>5. Parsed(U64Of(n), next).ok /\ Parsed(U64Of(n), next).value = U64Of(n)
        /\ Parsed(U64Of(n), next).next = next
    BY DEF Parsed
  <2>6. ReadOpus(s, i) = [ok |-> TRUE, term |-> ~Clear(n, TermBit), value |-> <<frame>>, next |-> end]
    <3>1. next + Unset(n, TermBit) = end
      BY <1>2 DEF end
    <3> QED
      BY <1>5, <2>2, <2>3, <2>4, <2>5, <3>1 DEF ReadOpus
  <2> QED
    BY <1>2, <2>3, <2>6
<1> QED
  BY <1>7, <1>8

-----------------------------------------------------------------------------
(* The frames of the other codecs *)

\* A set of naturals with no least member is empty.
LEMMA NoLeast ==
    ASSUME NEW T, T \subseteq Nat, \A n \in T : \E m \in T : m < n
    PROVE  T = {}
<1> SUFFICES ASSUME T # {} PROVE FALSE
  OBVIOUS
<1> DEFINE R == OpToRel(<, Nat)
<1>1. IsWellFoundedOn(R, Nat)
  BY NatLessThanWellFounded
<1>2. \A m, n \in Nat : m < n => <<m, n>> \in R
  BY DEF OpToRel
<1> HIDE DEF R
<1>3. \E x \in T : \A y \in T : ~ (<<y, x>> \in R)
  BY <1>1, WFMin
<1> QED
  BY <1>2, <1>3

\* g is what Frames defines, from the lo-th frame on
RestFrom(frames, lo, g) ==
    g = [i \in lo .. Len(frames) + 1 |->
            IF i > Len(frames) THEN <<>> ELSE Frame(frames, i) \o g[i + 1]]

LEMMA RestExists ==
    ASSUME NEW frames, Len(frames) \in Nat
    PROVE  \E g : RestFrom(frames, 1, g)
<1> DEFINE n == Len(frames)
           T == {d \in 0 .. n : ~ \E g : RestFrom(frames, (n + 1) - d, g)}
<1>1. ASSUME NEW d \in T PROVE \E m \in T : m < d
  <2>0. d \in 0 .. n /\ ~ \E g : RestFrom(frames, (n + 1) - d, g)
    OBVIOUS
  <2>1. CASE d = 0
    <3> DEFINE g == [i \in n + 1 .. n + 1 |-> <<>>]
    <3>1. RestFrom(frames, n + 1, g)
      <4>1. \A i \in n + 1 .. n + 1 : i > n
        OBVIOUS
      <4>2. g = [i \in n + 1 .. n + 1 |-> IF i > n THEN <<>> ELSE Frame(frames, i) \o g[i + 1]]
        BY <4>1
      <4> QED
        BY <4>2 DEF RestFrom
    <3>2. (n + 1) - 0 = n + 1
      OBVIOUS
    <3> QED
      BY <2>0, <2>1, <3>1, <3>2
  <2>2. CASE d # 0
    <3> DEFINE e == d - 1
               lo == (n + 1) - d
    <3>1. e \in 0 .. n /\ e < d /\ (n + 1) - e = lo + 1 /\ lo \in 1 .. n
      BY <2>0, <2>2
    <3> HIDE DEF e, lo
    <3>2. SUFFICES ASSUME NEW g, RestFrom(frames, lo + 1, g) PROVE FALSE
      BY <3>1
    <3> DEFINE h == [i \in lo .. n + 1 |-> IF i = lo THEN Frame(frames, lo) \o g[lo + 1] ELSE g[i]]
    <3>3. ASSUME NEW i \in lo .. n + 1
          PROVE  h[i] = IF i > n THEN <<>> ELSE Frame(frames, i) \o h[i + 1]
      <4>1. CASE i = lo
        <5>1. lo + 1 \in lo .. n + 1 /\ lo + 1 # lo /\ ~(lo > n)
          BY <3>1
        <5>2. h[lo + 1] = g[lo + 1]
          BY <5>1
        <5>3. h[lo] = Frame(frames, lo) \o g[lo + 1]
          BY <3>1
        <5> QED
          BY <4>1, <5>1, <5>2, <5>3
      <4>2. CASE i # lo
        <5>1. i \in lo + 1 .. n + 1
          BY <3>1, <4>2
        <5>2. h[i] = g[i]
          BY <4>2
        <5>3. g[i] = IF i > n THEN <<>> ELSE Frame(frames, i) \o g[i + 1]
          BY <3>2, <5>1 DEF RestFrom
        <5>4. ~(i > n) => i + 1 \in lo .. n + 1 /\ i + 1 # lo
          BY <3>1, <5>1
        <5>5. ~(i > n) => h[i + 1] = g[i + 1]
          BY <5>4
        <5> QED
          BY <5>2, <5>3, <5>5
      <4> QED
        BY <4>1, <4>2
    <3>4. h = [i \in lo .. n + 1 |-> h[i]]
      OBVIOUS
    <3> HIDE DEF h
    <3>5. RestFrom(frames, lo, h)
      BY <3>3, <3>4 DEF RestFrom
    <3> QED
      BY <2>0, <3>5 DEF lo
  <2> QED
    BY <2>1, <2>2
<1>2. T = {}
  <2>1. T \subseteq Nat
    OBVIOUS
  <2> HIDE DEF T
  <2> QED
    BY <1>1, <2>1, NoLeast
<1>3. n \in 0 .. n /\ (n + 1) - n = 1
  OBVIOUS
<1> QED
  BY <1>2, <1>3

LEMMA FrameBytes ==
    ASSUME NEW frames \in Seq(Seq(Byte)), NEW i \in 1 .. Len(frames)
    PROVE  Frame(frames, i) \in Seq(Byte)
<1> DEFINE x == Len(frames[i]) % 256
           b == IF i < Len(frames) THEN Set(x, 128) ELSE x
<1>1. frames[i] \in Seq(Byte) /\ Len(frames[i]) \in Nat
  OBVIOUS
<1>2. x \in Nat /\ x <= 255
  <2>1. \A a \in Nat : a % 256 \in Nat /\ a % 256 <= 255
    BY SMT
  <2> QED
    BY <1>1, <2>1
<1> HIDE DEF x
<1>3. Set(x, 128) \in Nat /\ Set(x, 128) <= 255
  <2>1. (x \div 128) % 2 = 0 => x < 128
    BY <1>2, SMT
  <2> QED
    BY <1>2, <2>1 DEF Set, Clear
<1>4. b \in Byte
  <2>1. \A a \in Nat : a <= 255 => a \in Byte
    BY DEF Byte
  <2> QED
    BY <1>2, <1>3, <2>1
<1> HIDE DEF b
<1>5. <<b>> \in Seq(Byte)
  BY <1>4
<1>6. <<b>> \o frames[i] \in Seq(Byte)
  BY <1>1, <1>5, ConcatProperties
<1> QED
  BY <1>6 DEF Frame, b, x

LEMMA RestOfFrames ==
    ASSUME NEW frames \in Seq(Seq(Byte))
    PROVE  \E g : /\ RestFrom(frames, 1, g)
                  /\ Frames(frames) = g[1]
                  /\ \A i \in 1 .. Len(frames) + 1 : g[i] \in Seq(Byte)
<1> DEFINE n == Len(frames)
           f == CHOOSE g : RestFrom(frames, 1, g)
<1>1. n \in Nat
  OBVIOUS
<1>2. RestFrom(frames, 1, f)
  BY <1>1, RestExists, Zenon
<1>3. Frames(frames) = f[1]
  BY Zenon DEF Frames, RestFrom
<1> HIDE DEF f
<1>4. \A i \in 1 .. n + 1 : f[i] = IF i > n THEN <<>> ELSE Frame(frames, i) \o f[i + 1]
  BY <1>2 DEF RestFrom
<1> DEFINE T == {d \in 0 .. n : f[(n + 1) - d] \notin Seq(Byte)}
<1>5. ASSUME NEW d \in T PROVE \E m \in T : m < d
  <2>1. d \in 0 .. n /\ f[(n + 1) - d] \notin Seq(Byte)
    OBVIOUS
  <2>2. d # 0
    <3>1. (n + 1) - 0 = n + 1 /\ n + 1 \in 1 .. n + 1 /\ n + 1 > n
      BY <1>1
    <3>2. f[n + 1] = <<>>
      BY <1>4, <3>1
    <3>3. <<>> \in Seq(Byte)
      OBVIOUS
    <3>4. d = 0 => f[(n + 1) - d] = f[n + 1]
      BY <3>1
    <3> QED
      BY <2>1, <3>2, <3>3, <3>4
  <2> DEFINE i == (n + 1) - d
             e == d - 1
  <2>3. i \in 1 .. n /\ i \in 1 .. n + 1 /\ ~(i > n) /\ e \in 0 .. n /\ e < d /\ (n + 1) - e = i + 1
    BY <1>1, <2>1, <2>2
  <2>4. f[i] \notin Seq(Byte)
    BY <2>1
  <2> HIDE DEF i, e
  <2>5. f[i] = Frame(frames, i) \o f[i + 1]
    BY <1>4, <2>3
  <2>6. Frame(frames, i) \in Seq(Byte)
    BY <2>3, FrameBytes
  <2>7. f[i + 1] \notin Seq(Byte)
    BY <2>4, <2>5, <2>6, ConcatProperties
  <2>8. e \in T
    BY <2>3, <2>7
  <2> QED
    BY <2>3, <2>8
<1>6. T = {}
  <2>1. T \subseteq Nat
    OBVIOUS
  <2> HIDE DEF T
  <2> QED
    BY <1>5, <2>1, NoLeast
<1>7. ASSUME NEW i \in 1 .. n + 1 PROVE f[i] \in Seq(Byte)
  <2>1. (n + 1) - i \in 0 .. n /\ (n + 1) - ((n + 1) - i) = i
    BY <1>1
  <2> QED
    BY <1>6, <2>1
<1> QED
  BY <1>2, <1>3, <1>7

\* the frame at position k, and those behind it as read has them
FrameAt(s, k, read) ==
    IF k > Len(s) THEN Err
    ELSE LET len == s[k] % 128
             end == k + len + 1
             one == SubSeq(s, k + 1, end - 1)
         IN  IF end > Len(s) + 1 THEN Err
             ELSE IF s[k] < 128 THEN Parsed(<<one>>, end)
             ELSE IF ~read[end].ok THEN Err
             ELSE Parsed(<<one>> \o read[end].value, read[end].next)

ReadFrom(s, lo, g) == g = [k \in lo .. Len(s) + 1 |-> FrameAt(s, k, g)]

\* it looks only behind k
LEMMA FrameAtLater ==
    ASSUME NEW s \in Seq(Byte), NEW k \in 1 .. Len(s) + 1, NEW g, NEW h,
           \A e \in k + 1 .. Len(s) + 1 : g[e] = h[e]
    PROVE  FrameAt(s, k, g) = FrameAt(s, k, h)
<1>1. CASE k > Len(s)
  BY <1>1 DEF FrameAt
<1>2. CASE ~(k > Len(s))
  <2> DEFINE len == s[k] % 128
             end == k + len + 1
  <2>1. k \in 1 .. Len(s) /\ Len(s) \in Nat
    BY <1>2
  <2>2. s[k] \in Nat
    <3>1. s[k] \in Byte
      BY <2>1
    <3>2. \A b \in Byte : b \in Nat
      BY DEF Byte
    <3> QED
      BY <3>1, <3>2
  <2>3. len \in Nat
    <3>1. \A a \in Nat : a % 128 \in Nat
      BY SMT
    <3> QED
      BY <2>2, <3>1
  <2> HIDE DEF len
  <2>4. ~(end > Len(s) + 1) => end \in k + 1 .. Len(s) + 1
    BY <2>1, <2>3
  <2>5. ~(end > Len(s) + 1) => g[end] = h[end]
    BY <2>4
  <2> HIDE DEF end
  <2> QED
    BY <1>2, <2>5 DEF FrameAt, end, len
<1> QED
  BY <1>1, <1>2

LEMMA ReadExists ==
    ASSUME NEW s \in Seq(Byte)
    PROVE  \E g : ReadFrom(s, 1, g)
<1> DEFINE n == Len(s)
           T == {d \in 0 .. n : ~ \E g : ReadFrom(s, (n + 1) - d, g)}
<1>0. n \in Nat
  OBVIOUS
<1>1. ASSUME NEW d \in T PROVE \E m \in T : m < d
  <2>0. d \in 0 .. n /\ ~ \E g : ReadFrom(s, (n + 1) - d, g)
    OBVIOUS
  <2>1. CASE d = 0
    <3> DEFINE g == [k \in n + 1 .. n + 1 |-> Err]
    <3>1. ReadFrom(s, n + 1, g)
      <4>1. \A k \in n + 1 .. n + 1 : k > n
        BY <1>0
      <4>2. \A k \in n + 1 .. n + 1 : FrameAt(s, k, g) = Err
        BY <4>1 DEF FrameAt
      <4>3. g = [k \in n + 1 .. n + 1 |-> FrameAt(s, k, g)]
        BY <4>2
      <4> QED
        BY <4>3 DEF ReadFrom
    <3>2. (n + 1) - 0 = n + 1
      BY <1>0
    <3> QED
      BY <2>0, <2>1, <3>1, <3>2
  <2>2. CASE d # 0
    <3> DEFINE e == d - 1
               lo == (n + 1) - d
    <3>1. e \in 0 .. n /\ e < d /\ (n + 1) - e = lo + 1 /\ lo \in 1 .. n
      BY <1>0, <2>0, <2>2
    <3> HIDE DEF e, lo
    <3>2. SUFFICES ASSUME NEW g, ReadFrom(s, lo + 1, g) PROVE FALSE
      BY <3>1
    <3> DEFINE h == [k \in lo .. n + 1 |-> IF k = lo THEN FrameAt(s, lo, g) ELSE g[k]]
    <3>3. \A k \in lo + 1 .. n + 1 : k \in lo .. n + 1 /\ k # lo
      BY <1>0, <3>1
    <3>4. \A k \in lo + 1 .. n + 1 : h[k] = g[k]
      BY <3>3
    <3>5. h[lo] = FrameAt(s, lo, g)
      BY <1>0, <3>1
    <3>6. h = [k \in lo .. n + 1 |-> h[k]]
      OBVIOUS
    <3> HIDE DEF h
    <3>7. ASSUME NEW k \in lo .. n + 1 PROVE h[k] = FrameAt(s, k, h)
      <4>1. k \in 1 .. n + 1 /\ \A b \in k + 1 .. n + 1 : b \in lo + 1 .. n + 1
        BY <1>0, <3>1
      <4>2. FrameAt(s, k, g) = FrameAt(s, k, h)
        <5>1. \A b \in k + 1 .. n + 1 : g[b] = h[b]
          BY <3>4, <4>1
        <5> QED
          BY <4>1, <5>1, FrameAtLater
      <4>3. CASE k = lo
        BY <3>5, <4>2, <4>3
      <4>4. CASE k # lo
        <5>1. k \in lo + 1 .. n + 1
          BY <1>0, <3>1, <4>4
        <5>2. g[k] = FrameAt(s, k, g)
          BY <3>2, <5>1 DEF ReadFrom
        <5> QED
          BY <3>4, <4>2, <5>1, <5>2
      <4> QED
        BY <4>3, <4>4
    <3>8. ReadFrom(s, lo, h)
      BY <3>6, <3>7 DEF ReadFrom
    <3> QED
      BY <2>0, <3>8 DEF lo
  <2> QED
    BY <2>1, <2>2
<1>2. T = {}
  <2>1. T \subseteq Nat
    BY <1>0
  <2> HIDE DEF T
  <2> QED
    BY <1>1, <2>1, NoLeast
<1>3. n \in 0 .. n /\ (n + 1) - n = 1
  BY <1>0
<1> QED
  BY <1>2, <1>3

LEMMA ReadOfFrames ==
    ASSUME NEW s \in Seq(Byte), NEW k \in 1 .. Len(s) + 1
    PROVE  \E g : ReadFrom(s, 1, g) /\ ReadFrames(s, k) = g[k]
<1> DEFINE f == CHOOSE g : ReadFrom(s, 1, g)
<1>1. ReadFrom(s, 1, f)
  BY ReadExists, Zenon
<1>2. ReadFrames(s, k) = f[k]
  BY Zenon DEF ReadFrames, ReadFrom, FrameAt
<1> QED
  BY <1>1, <1>2

LEMMA Seq1 ==
    ASSUME NEW S, NEW a \in S
    PROVE  <<a>> \in Seq(S) /\ Len(<<a>>) = 1 /\ <<a>>[1] = a
OBVIOUS

\* the last frames are the first of them and those behind
LEMMA Suffix ==
    ASSUME NEW frames \in Seq(Seq(Byte)), NEW i \in 1 .. Len(frames)
    PROVE  /\ i = Len(frames) => SubSeq(frames, i, Len(frames)) = <<frames[i]>>
           /\ SubSeq(frames, i, Len(frames)) =
                <<frames[i]>> \o SubSeq(frames, i + 1, Len(frames))
<1> DEFINE n == Len(frames)
           S == Seq(Byte)
           a == SubSeq(frames, i, n)
           b == SubSeq(frames, i + 1, n)
           c == <<frames[i]>>
           z == c \o b
<1>1. n \in Nat /\ i \in Nat /\ frames[i] \in S
  OBVIOUS
<1>2. a \in Seq(S) /\ Len(a) = (n - i) + 1 /\ \A j \in 1 .. (n - i) + 1 : a[j] = frames[(i + j) - 1]
  BY <1>1, SubSeqProperties
<1>3. b \in Seq(S) /\ Len(b) = n - i /\ \A j \in 1 .. n - i : b[j] = frames[i + j]
  BY <1>1, SubSeqProperties
<1>4. c \in Seq(S) /\ Len(c) = 1 /\ c[1] = frames[i]
  BY <1>1, Seq1
<1> HIDE DEF S, a, b, c
<1>5. /\ z \in Seq(S) /\ Len(z) = Len(c) + Len(b)
      /\ \A j \in 1 .. Len(c) + Len(b) : z[j] = IF j <= Len(c) THEN c[j] ELSE b[j - Len(c)]
  BY <1>3, <1>4, ConcatProperties
<1> HIDE DEF z
<1>6. Len(z) = (n - i) + 1 /\ \A j \in 1 .. (n - i) + 1 : z[j] = frames[(i + j) - 1]
  <2>1. Len(z) = (n - i) + 1
    BY <1>1, <1>3, <1>4, <1>5
  <2>2. ASSUME NEW j \in 1 .. (n - i) + 1 PROVE z[j] = frames[(i + j) - 1]
    <3>1. j \in 1 .. Len(c) + Len(b)
      BY <1>1, <1>3, <1>4
    <3>2. CASE j = 1
      <4>1. (i + j) - 1 = i /\ j <= Len(c)
        BY <1>1, <1>4, <3>2
      <4> QED
        BY <1>4, <1>5, <3>1, <3>2, <4>1
    <3>3. CASE j # 1
      <4>1. ~(j <= Len(c)) /\ j - Len(c) \in 1 .. n - i /\ i + (j - Len(c)) = (i + j) - 1
        BY <1>1, <1>4, <3>3
      <4>2. b[j - Len(c)] = frames[i + (j - Len(c))]
        BY <1>3, <4>1
      <4> QED
        BY <1>5, <3>1, <4>1, <4>2
    <3> QED
      BY <3>2, <3>3
  <2> QED
    BY <2>1, <2>2
<1>7. a = z
  BY <1>2, <1>5, <1>6, SeqEqual
<1>8. i = n => a = c
  <2> SUFFICES ASSUME i = n PROVE a = c
    OBVIOUS
  <2>1. Len(a) = Len(c) /\ \A j \in 1 .. Len(a) : j = 1
    BY <1>1, <1>2, <1>4
  <2>2. a[1] = frames[i]
    <3>1. 1 \in 1 .. (n - i) + 1 /\ (i + 1) - 1 = i
      BY <1>1
    <3> QED
      BY <1>2, <3>1
  <2>3. \A j \in 1 .. Len(a) : a[j] = c[j]
    BY <1>4, <2>1, <2>2
  <2> QED
    BY <1>2, <1>4, <2>1, <2>3, SeqEqual
<1> QED
  BY <1>7, <1>8 DEF a, b, c, z

\* the byte before a frame: its length, and whether more follow
LEMMA LengthByte ==
    ASSUME NEW len \in Nat, len < 128
    PROVE  /\ len % 256 = len /\ len % 128 = len
           /\ Set(len, 128) = len + 128 /\ (len + 128) % 128 = len
           /\ len \in Byte /\ len + 128 \in Byte
<1>1. len % 256 = len /\ len % 128 = len /\ (len + 128) % 128 = len
  BY SMT
<1>2. Set(len, 128) = len + 128
  BY LengthAndBit
<1> QED
  BY <1>1, <1>2 DEF Byte

\* a byte and what follows it, where they stand in s
LEMMA HeldWithFirst ==
    ASSUME NEW first \in Seq(Byte), NEW frame \in Seq(Byte),
           NEW s \in Seq(Byte), NEW k \in Nat, NEW z, IsJoined(z, first, frame), Holds(s, k, z)
    PROVE  Len(first) = 1 =>
             /\ s[k] = first[1] /\ k \in Nat /\ k > 0 /\ k <= Len(s)
             /\ SubSeq(s, k + 1, k + Len(frame)) = frame
             /\ k + Len(frame) <= Len(s) /\ Len(z) = 1 + Len(frame)
<1>1. Holds(s, k, first) /\ Holds(s, k + Len(first), frame) /\ Len(z) = Len(first) + Len(frame)
  BY HoldsParts
<1> HAVE Len(first) = 1
<1>2. s[k] = first[1] /\ k \in Nat /\ k > 0 /\ k <= Len(s)
  <2>1. /\ k \in Nat /\ k > 0 /\ (k + Len(first)) - 1 <= Len(s)
        /\ \A j \in 1 .. Len(first) : s[(k + j) - 1] = first[j]
    BY <1>1 DEF Holds
  <2>2. (k + 1) - 1 = k /\ 1 \in 1 .. Len(first) /\ (k + Len(first)) - 1 = k
    BY <2>1
  <2> QED
    BY <2>1, <2>2
<1>3. SubSeq(s, k + 1, ((k + 1) + Len(frame)) - 1) = frame
  BY <1>1, HoldsCut
<1>4. ((k + 1) + Len(frame)) - 1 <= Len(s)
  BY <1>1 DEF Holds
<1>5. ((k + 1) + Len(frame)) - 1 = k + Len(frame)
  BY <1>2
<1> QED
  BY <1>1, <1>2, <1>3, <1>4, <1>5

\* The i-th frame stands at k and is followed by end.
FrameRead(frames, i, s, k, read, end) ==
    /\ end \in Nat /\ k \in Nat /\ end <= Len(s) + 1 /\ Len(Frame(frames, i)) = end - k
    /\ FrameAt(s, k, read) =
         IF i = Len(frames) THEN Parsed(<<frames[i]>>, end)
         ELSE IF ~read[end].ok THEN Err
         ELSE Parsed(<<frames[i]>> \o read[end].value, read[end].next)

LEMMA FrameHeld ==
    ASSUME NEW frames \in Seq(Seq(Byte)), NEW i \in 1 .. Len(frames), Len(frames[i]) < 128,
           NEW s \in Seq(Byte), NEW k, Holds(s, k, Frame(frames, i)), NEW read
    PROVE  FrameRead(frames, i, s, k, read, k + Len(frames[i]) + 1)
<1> DEFINE frame == frames[i]
           len == Len(frame)
           b == IF i < Len(frames) THEN len + 128 ELSE len
           end == k + len + 1
<1>1. frame \in Seq(Byte) /\ len \in Nat /\ len < 128 /\ Len(frames) \in Nat /\ i \in Nat
  OBVIOUS
<1> HIDE DEF frame, len
<1>2. b \in Byte /\ b \in Nat /\ (b % 128) = len /\ (b < 128 <=> i = Len(frames))
  <2>1. /\ len \in Byte /\ len + 128 \in Byte /\ len % 128 = len /\ (len + 128) % 128 = len
    BY <1>1, LengthByte
  <2>2. CASE i < Len(frames)
    <3>1. b = len + 128 /\ ~(i = Len(frames)) /\ ~(len + 128 < 128) /\ len + 128 \in Nat
      BY <1>1, <2>2
    <3> QED
      BY <2>1, <3>1
  <2>3. CASE i = Len(frames)
    <3>1. b = len
      BY <1>1, <2>3
    <3> QED
      BY <1>1, <2>1, <2>3, <3>1
  <2>4. i < Len(frames) \/ i = Len(frames)
    BY <1>1
  <2> QED
    BY <2>2, <2>3, <2>4
<1>3. IsJoined(Frame(frames, i), <<b>>, frame)
  <2>1. len % 256 = len /\ Set(len, 128) = len + 128
    BY <1>1, LengthByte
  <2> QED
    BY <2>1 DEF Frame, IsJoined, frame, len
<1> HIDE DEF b
<1>4. /\ s[k] = b /\ k \in Nat /\ k > 0 /\ k <= Len(s)
      /\ SubSeq(s, k + 1, k + Len(frame)) = frame
      /\ k + Len(frame) <= Len(s) /\ Len(Frame(frames, i)) = 1 + Len(frame)
  <2> DEFINE first == <<b>>
  <2>1. first \in Seq(Byte) /\ Len(first) = 1 /\ first[1] = b
    BY <1>2, One
  <2>2. IsJoined(Frame(frames, i), first, frame)
    BY <1>3
  <2> HIDE DEF first
  <2>3. frame \in Seq(Byte)
    BY <1>1
  <2>4. /\ s[k] = first[1] /\ k \in Nat /\ k > 0 /\ k <= Len(s)
        /\ SubSeq(s, k + 1, k + Len(frame)) = frame
        /\ k + Len(frame) <= Len(s) /\ Len(Frame(frames, i)) = 1 + Len(frame)
    <3>1. k \in Nat
      BY DEF Holds
    <3> QED
      BY <2>1, <2>2, <2>3, <3>1, HeldWithFirst
  <2> QED
    BY <2>1, <2>4
<1>5. Len(s) \in Nat /\ len = Len(frame)
  BY DEF len
<1>6. end - 1 = k + Len(frame)
  BY <1>1, <1>4, <1>5
<1>7. SubSeq(s, k + 1, end - 1) = frame
  BY <1>4, <1>6
<1>8. end \in Nat /\ ~(end > Len(s) + 1) /\ end <= Len(s) + 1 /\ ~(k > Len(s)) /\ Len(Frame(frames, i)) = end - k
  BY <1>1, <1>4, <1>5
<1>9. k + (s[k] % 128) + 1 = end
  BY <1>2, <1>4
<1>10. s[k] < 128 <=> i = Len(frames)
  BY <1>2, <1>4
<1> HIDE DEF end
<1>11. FrameAt(s, k, read) =
         IF i = Len(frames) THEN Parsed(<<frame>>, end)
         ELSE IF ~read[end].ok THEN Err
         ELSE Parsed(<<frame>> \o read[end].value, read[end].next)
  BY <1>7, <1>8, <1>9, <1>10 DEF FrameAt
<1> QED
  BY <1>4, <1>8, <1>11 DEF end, frame, len, FrameRead

LEMMA ParsedFields ==
    \A value, next : /\ Parsed(value, next).ok
                     /\ Parsed(value, next).value = value /\ Parsed(value, next).next = next
BY DEF Parsed

\* ReadFrames gives back the frames that Frames wrote, wherever they stand, and
\* goes on right behind them.
LEMMA FramesRoundTrip ==
    ASSUME NEW frames \in Seq(Seq(Byte)), frames # <<>>,
           \A i \in 1 .. Len(frames) : Len(frames[i]) < 128
    PROVE  /\ Frames(frames) \in Seq(Byte)
           /\ \A s \in Seq(Byte) : \A k \in Nat : Holds(s, k, Frames(frames)) =>
                ReadFrames(s, k) = Parsed(frames, k + Len(Frames(frames)))
<1> DEFINE n == Len(frames)
<1>1. n \in Nat /\ n > 0
  OBVIOUS
<1>2. PICK rest : /\ RestFrom(frames, 1, rest)
                  /\ Frames(frames) = rest[1]
                  /\ \A i \in 1 .. n + 1 : rest[i] \in Seq(Byte)
  BY RestOfFrames
<1>3. \A i \in 1 .. n + 1 : rest[i] = IF i > n THEN <<>> ELSE Frame(frames, i) \o rest[i + 1]
  BY <1>2 DEF RestFrom
<1>4. SUFFICES ASSUME NEW s \in Seq(Byte), NEW k \in Nat, Holds(s, k, Frames(frames))
               PROVE  ReadFrames(s, k) = Parsed(frames, k + Len(Frames(frames)))
  <2>1. 1 \in 1 .. n + 1
    BY <1>1
  <2> QED
    BY <1>2, <2>1
<1>5. k \in 1 .. Len(s) + 1
  <2>1. Len(rest[1]) \in Nat
    <3>1. rest[1] \in Seq(Byte)
      BY <1>1, <1>2
    <3> QED
      BY <3>1
  <2> QED
    BY <1>2, <1>4, <2>1 DEF Holds
<1>6. PICK read : ReadFrom(s, 1, read) /\ ReadFrames(s, k) = read[k]
  BY <1>5, ReadOfFrames
<1>7. \A m \in 1 .. Len(s) + 1 : read[m] = FrameAt(s, m, read)
  BY <1>6 DEF ReadFrom
<1> DEFINE Good(i) == \A m \in Nat : Holds(s, m, rest[i]) =>
                        read[m] = Parsed(SubSeq(frames, i, n), m + Len(rest[i]))
           T == {d \in 0 .. n - 1 : ~Good(n - d)}
<1>8. ASSUME NEW d \in T PROVE \E e \in T : e < d
  <2> DEFINE i == n - d
             e == d - 1
  <2>1. d \in 0 .. n - 1 /\ ~Good(i)
    OBVIOUS
  <2>2. i \in 1 .. n /\ i \in 1 .. n + 1 /\ ~(i > n) /\ i + 1 \in 1 .. n + 1 /\ i \in Nat
    BY <1>1, <2>1
  <2>3. ~(d = 0) => e \in 0 .. n - 1 /\ e < d /\ n - e = i + 1
    BY <1>1, <2>1
  <2>4. d = 0 <=> i = n
    BY <1>1, <2>1
  <2> HIDE DEF i, e
  <2>5. SUFFICES ASSUME d = 0 \/ Good(i + 1) PROVE Good(i)
    <3>1. d # 0 /\ ~Good(i + 1) => e \in T
      BY <2>3
    <3> QED
      BY <2>1, <2>3, <2>5, <3>1
  <2>6. SUFFICES ASSUME NEW m \in Nat, Holds(s, m, rest[i])
                 PROVE  read[m] = Parsed(SubSeq(frames, i, n), m + Len(rest[i]))
    OBVIOUS
  <2> DEFINE a == Frame(frames, i)
             b == rest[i + 1]
             z == rest[i]
             end == m + Len(frames[i]) + 1
  <2>7. a \in Seq(Byte) /\ b \in Seq(Byte) /\ IsJoined(z, a, b)
    <3>1. z = a \o b
      BY <1>3, <2>2
    <3> QED
      BY <1>2, <2>2, <3>1, FrameBytes DEF IsJoined
  <2>8. Holds(s, m, a) /\ Holds(s, m + Len(a), b) /\ Len(z) = Len(a) + Len(b)
    <3> HIDE DEF a, b, z
    <3>1. Holds(s, m, z)
      BY <2>6 DEF z
    <3> QED
      BY <2>7, <3>1, HoldsParts
  <2>9. /\ end \in Nat /\ end <= Len(s) + 1 /\ Len(a) = end - m
        /\ FrameAt(s, m, read) =
                    IF i = n THEN Parsed(<<frames[i]>>, end)
                    ELSE IF ~read[end].ok THEN Err
                    ELSE Parsed(<<frames[i]>> \o read[end].value, read[end].next)
    <3>1. Len(frames[i]) < 128 /\ Holds(s, m, Frame(frames, i))
      BY <2>2, <2>8
    <3>2. FrameRead(frames, i, s, m, read, end)
      BY <2>2, <3>1, FrameHeld
    <3> HIDE DEF end
    <3> QED
      BY <3>2 DEF FrameRead
  <2>10. Len(frames[i]) \in Nat /\ Len(s) \in Nat /\ Len(b) \in Nat
    <3>1. frames[i] \in Seq(Byte)
      BY <2>2
    <3> QED
      BY <2>7, <3>1
  <2> HIDE DEF a, b, z
  <2>11. m \in 1 .. Len(s) + 1 /\ m + Len(a) = end /\ m + Len(z) = end + Len(b)
    <3>1. m > 0
      BY <2>8 DEF Holds
    <3> QED
      BY <2>8, <2>9, <2>10, <3>1
  <2> HIDE DEF end
  <2>12. read[m] = FrameAt(s, m, read)
    BY <1>7, <2>11
  <2>13. CASE i = n
    <3>1. b = <<>>
      BY <1>1, <1>3, <2>2, <2>13 DEF b
    <3>2. m + Len(z) = end
      BY <2>9, <2>11, <3>1
    <3>3. SubSeq(frames, i, n) = <<frames[i]>>
      BY <2>2, <2>13, Suffix
    <3> QED
      BY <2>9, <2>12, <2>13, <3>2, <3>3 DEF z
  <2>14. CASE i # n
    <3>1. Good(i + 1)
      BY <2>4, <2>5, <2>14
    <3>2. Holds(s, end, b)
      BY <2>8, <2>11
    <3>3. read[end] = Parsed(SubSeq(frames, i + 1, n), end + Len(b))
      BY <2>9, <3>1, <3>2 DEF b
    <3>4. read[end].ok /\ read[end].value = SubSeq(frames, i + 1, n) /\ read[end].next = end + Len(b)
      <4> DEFINE v == SubSeq(frames, i + 1, n)
                 x == end + Len(b)
      <4>1. read[end] = Parsed(v, x)
        BY <3>3
      <4> HIDE DEF v, x
      <4>2. read[end].ok /\ read[end].value = v /\ read[end].next = x
        BY <4>1, ParsedFields
      <4> QED
        BY <4>2 DEF v, x
    <3>5. SubSeq(frames, i, n) = <<frames[i]>> \o SubSeq(frames, i + 1, n)
      BY <2>2, Suffix
    <3> QED
      BY <2>9, <2>11, <2>12, <2>14, <3>4, <3>5 DEF z
  <2> QED
    BY <2>13, <2>14
<1>9. T = {}
  <2>1. T \subseteq Nat
    BY <1>1
  <2> HIDE DEF T
  <2> QED
    BY <1>8, <2>1, NoLeast
<1>10. Good(1)
  <2>1. n - 1 \in 0 .. n - 1 /\ n - (n - 1) = 1
    BY <1>1
  <2> HIDE DEF Good
  <2>2. ~(n - 1 \in T)
    BY <1>9
  <2>3. Good(n - (n - 1))
    BY <2>1, <2>2
  <2> QED
    BY <2>1, <2>3
<1>11. SubSeq(frames, 1, n) = frames
  BY SubSeqFull
<1>12. read[k] = Parsed(frames, k + Len(rest[1]))
  BY <1>2, <1>4, <1>10, <1>11
<1> QED
  BY <1>2, <1>6, <1>12

-----------------------------------------------------------------------------
(* Audio packets *)

\* the parts of an audio packet, and where each of them stands
InParts(s, h, a, b, c, d) ==
    /\ s \in Seq(Byte)
    /\ Holds(s, 1, h) /\ Holds(s, 1 + Len(h), a)
    /\ Holds(s, 1 + Len(h) + Len(a), b)
    /\ Holds(s, 1 + Len(h) + Len(a) + Len(b), c)
    /\ Holds(s, 1 + Len(h) + Len(a) + Len(b) + Len(c), d)
    /\ Len(s) = Len(h) + Len(a) + Len(b) + Len(c) + Len(d)

LEMMA Parts ==
    ASSUME NEW h \in Seq(Byte), NEW a \in Seq(Byte), NEW b \in Seq(Byte), NEW c \in Seq(Byte),
           NEW d \in Seq(Byte)
    PROVE  InParts(h \o a \o b \o c \o d, h, a, b, c, d)
<1> DEFINE x == h \o a
           y == x \o b
           z == y \o c
           s == z \o d
<1>1. x \in Seq(Byte) /\ Len(x) = Len(h) + Len(a) /\ IsJoined(x, h, a)
  BY ConcatProperties DEF IsJoined
<1> HIDE DEF x
<1>2. y \in Seq(Byte) /\ Len(y) = Len(x) + Len(b) /\ IsJoined(y, x, b)
  BY <1>1, ConcatProperties DEF IsJoined
<1> HIDE DEF y
<1>3. z \in Seq(Byte) /\ Len(z) = Len(y) + Len(c) /\ IsJoined(z, y, c)
  BY <1>2, ConcatProperties DEF IsJoined
<1> HIDE DEF z
<1>4. s \in Seq(Byte) /\ Len(s) = Len(z) + Len(d) /\ IsJoined(s, z, d)
  BY <1>3, ConcatProperties DEF IsJoined
<1> HIDE DEF s
<1>5. Holds(s, 1, s) /\ 1 \in Nat
  BY <1>4, HoldsSelf
<1>6. Holds(s, 1, z) /\ Holds(s, 1 + Len(z), d)
  BY <1>3, <1>4, <1>5, HoldsParts
<1>7. Holds(s, 1, y) /\ Holds(s, 1 + Len(y), c)
  BY <1>2, <1>3, <1>4, <1>5, <1>6, HoldsParts
<1>8. Holds(s, 1, x) /\ Holds(s, 1 + Len(x), b)
  BY <1>1, <1>2, <1>4, <1>5, <1>7, HoldsParts
<1>9. Holds(s, 1, h) /\ Holds(s, 1 + Len(h), a)
  BY <1>1, <1>4, <1>5, <1>8, HoldsParts
<1>10. /\ 1 + Len(x) = 1 + Len(h) + Len(a)
       /\ 1 + Len(y) = 1 + Len(h) + Len(a) + Len(b)
       /\ 1 + Len(z) = 1 + Len(h) + Len(a) + Len(b) + Len(c)
       /\ Len(s) = Len(h) + Len(a) + Len(b) + Len(c) + Len(d)
  BY <1>1, <1>2, <1>3, <1>4
<1>11. InParts(s, h, a, b, c, d)
  BY <1>4, <1>6, <1>7, <1>8, <1>9, <1>10 DEF InParts
<1> QED
  BY <1>11 DEF s, z, y, x

LEMMA SessionRoundTrip ==
    ASSUME NEW dst \in Dsts, NEW v \in U64, Fits(v, 4), dst = "Serverbound" => v = Unit
    PROVE  /\ write_session_id(dst, v) \in Seq(Byte)
           /\ \A s \in Seq(Byte) : \A i \in Nat : Holds(s, i, write_session_id(dst, v)) =>
                read_session_id(dst, s, i) = Parsed(v, i + Len(write_session_id(dst, v)))
<1>1. CASE dst = "Serverbound"
  <2>1. write_session_id(dst, v) = <<>>
    BY <1>1 DEF write_session_id
  <2>2. <<>> \in Seq(Byte) /\ \A i \in Nat : i + Len(<<>>) = i
    OBVIOUS
  <2>3. \A s, i : read_session_id(dst, s, i) = Parsed(v, i)
    BY <1>1 DEF read_session_id
  <2> QED
    BY <2>1, <2>2, <2>3
<1>2. CASE dst # "Serverbound"
  <2>1. dst = "Clientbound"
    BY <1>2 DEF Dsts
  <2>2. write_session_id(dst, v) = write_varint(v)
    BY <2>1 DEF write_session_id
  <2>3. U32(v) = v
    <3>1. v \in Seq(Byte) /\ Len(v) = 8
      BY Bytes8
    <3> DEFINE b == SubSeq(v, 5, 8)
    <3>2. /\ b \in Seq(Byte) /\ Len(b) = (8 - 5) + 1
          /\ \A j \in 1 .. (8 - 5) + 1 : b[j] = v[(5 + j) - 1]
      <4> DEFINE m == 5
                 n == 8
      <4>1. m \in Nat /\ n \in Nat /\ 0 < m /\ m <= n + 1 /\ n <= Len(v)
        BY <3>1
      <4> HIDE DEF m, n
      <4>2. /\ SubSeq(v, m, n) \in Seq(Byte) /\ Len(SubSeq(v, m, n)) = (n - m) + 1
            /\ \A j \in 1 .. (n - m) + 1 : SubSeq(v, m, n)[j] = v[(m + j) - 1]
        BY <3>1, <4>1, Cut
      <4> QED
        BY <4>2 DEF m, n
    <3>3. (8 - 5) + 1 = 4 /\ \A j \in 1 .. 4 : (5 + j) - 1 = (8 - 4) + j
      OBVIOUS
    <3> HIDE DEF b
    <3>4. Len(b) = 4 /\ \A j \in 1 .. 4 : b[j] = v[(8 - 4) + j]
      BY <3>2, <3>3
    <3>5. Widen(b) = v
      <4>1. 4 \in 0 .. 8
        OBVIOUS
      <4> QED
        BY <3>2, <3>4, <4>1, Widening
    <3> QED
      BY <3>5 DEF U32, b
  <2>4. ASSUME NEW s \in Seq(Byte), NEW i \in Nat, Holds(s, i, write_varint(v))
        PROVE  read_session_id(dst, s, i) = Parsed(v, i + Len(write_varint(v)))
    <3> DEFINE next == i + Len(write_varint(v))
    <3>1. read_varint(s, i) = Parsed(v, next)
      BY <2>4, VarintRoundTrip
    <3> HIDE DEF next
    <3>2. read_session_id(dst, s, i) = Parsed(v, next)
      BY <1>2, <2>3, <3>1, ParsedFields DEF read_session_id
    <3> QED
      BY <3>2 DEF next
  <2> QED
    BY <2>2, <2>4, VarintBytes
<1> QED
  BY <1>1, <1>2

LEMMA HeaderByte ==
    ASSUME NEW kind \in {CeltAlpha, Speex, CeltBeta, Opus}, NEW target \in 0 .. 31
    PROVE  LET b == kind * 32 + (target % 32)
           IN  b \in Byte /\ b \div 32 = kind /\ b % 32 = target /\ kind # Ping /\ ~(kind > Opus)
BY SMT DEF CeltAlpha, Speex, CeltBeta, Opus, Ping, Byte

\* the payload of either kind
LEMMA PayloadRoundTrip ==
    ASSUME NEW dst, NEW p \in AudioPackets, Encodable(dst, p)
    PROVE  /\ EncodePayload(p) \in Seq(Byte)
           /\ \A s \in Seq(Byte) : \A i \in Nat : Holds(s, i, EncodePayload(p)) =>
                LET payload == IF p.kind = Opus THEN ReadOpus(s, i) ELSE ReadFrames(s, i)
                IN  /\ payload.ok /\ payload.value = p.frames
                    /\ payload.next = i + Len(EncodePayload(p))
                    /\ (p.kind = Opus /\ payload.term) = p.term
<1>1. /\ p.kind \in {CeltAlpha, Speex, CeltBeta, Opus} /\ p.frames \in Seq(Seq(Byte))
      /\ p.term \in BOOLEAN
  BY DEF AudioPackets
<1>2. p.kind # Ping
  BY <1>1 DEF CeltAlpha, Speex, CeltBeta, Opus, Ping
<1>3. /\ p.frames # <<>>
      /\ p.kind = Opus => Len(p.frames) = 1 /\ Len(p.frames[1]) < TermBit
      /\ p.kind # Opus => ~p.term /\ \A i \in DOMAIN p.frames : Len(p.frames[i]) < 128
  BY <1>2 DEF Encodable
<1>4. CASE p.kind = Opus
  <2> DEFINE frame == p.frames[1]
  <2>1. frame \in Seq(Byte) /\ p.frames = <<frame>> /\ Len(frame) < TermBit
    BY <1>1, <1>3, <1>4
  <2> HIDE DEF frame
  <2>2. /\ EncodePayload(p) \in Seq(Byte)
        /\ \A s \in Seq(Byte) : \A i : Holds(s, i, EncodePayload(p)) =>
                ReadOpus(s, i) = [ok |-> TRUE, term |-> p.term, value |-> p.frames,
                                  next |-> i + Len(EncodePayload(p))]
    BY <1>1, <1>4, <2>1, OpusRoundTrip
  <2> QED
    BY <1>1, <1>4, <2>2
<1>5. CASE p.kind # Opus
  <2> DEFINE frames == p.frames
  <2>1. frames \in Seq(Seq(Byte)) /\ frames # <<>> /\ \A i \in 1 .. Len(frames) : Len(frames[i]) < 128
    BY <1>1, <1>3, <1>5
  <2> HIDE DEF frames
  <2>2. /\ Frames(frames) \in Seq(Byte)
        /\ \A s \in Seq(Byte) : \A k \in Nat : Holds(s, k, Frames(frames)) =>
                ReadFrames(s, k) = Parsed(frames, k + Len(Frames(frames)))
    BY <2>1, FramesRoundTrip
  <2>3. EncodePayload(p) = Frames(frames)
    BY <1>5 DEF EncodePayload, frames
  <2>4. p.term = FALSE
    BY <1>1, <1>3, <1>5
  <2>5. ASSUME NEW s \in Seq(Byte), NEW i \in Nat, Holds(s, i, Frames(frames))
        PROVE  /\ ReadFrames(s, i).ok /\ ReadFrames(s, i).value = frames
               /\ ReadFrames(s, i).next = i + Len(Frames(frames))
    <3> DEFINE next == i + Len(Frames(frames))
    <3>1. ReadFrames(s, i) = Parsed(frames, next)
      BY <2>2, <2>5
    <3> HIDE DEF next
    <3>2. ReadFrames(s, i).ok /\ ReadFrames(s, i).value = frames /\ ReadFrames(s, i).next = next
      BY <3>1, ParsedFields
    <3> QED
      BY <3>2 DEF next
  <2> QED
    BY <1>5, <2>2, <2>3, <2>4, <2>5 DEF frames
<1> QED
  BY <1>4, <1>5

\* what is behind the payload
LEMMA PositionRoundTrip ==
    ASSUME NEW position \in Seq(Seq(Byte)),
           position # <<>> => Len(position) = 1 /\ position[1] # <<>>
    PROVE  LET d == IF position = <<>> THEN <<>> ELSE position[1]
           IN  /\ d \in Seq(Byte)
               /\ \A s \in Seq(Byte) : \A i \in Nat :
                    Holds(s, i, d) /\ Len(s) = (i + Len(d)) - 1 => Position(s, i) = position
<1>1. CASE position = <<>>
  <2>1. <<>> \in Seq(Byte) /\ Len(<<>>) = 0
    OBVIOUS
  <2>2. \A s \in Seq(Byte) : \A i \in Nat : Len(s) = (i + 0) - 1 => i > Len(s)
    OBVIOUS
  <2> QED
    BY <1>1, <2>1, <2>2 DEF Position
<1>2. CASE position # <<>>
  <2> DEFINE d == position[1]
  <2>1. d \in Seq(Byte) /\ position = <<d>> /\ d # <<>>
    BY <1>2
  <2> HIDE DEF d
  <2>2. Len(d) \in Nat /\ Len(d) > 0
    BY <2>1
  <2>3. ASSUME NEW s \in Seq(Byte), NEW i \in Nat, Holds(s, i, d), Len(s) = (i + Len(d)) - 1
        PROVE  Position(s, i) = <<d>>
    <3>1. SubSeq(s, i, (i + Len(d)) - 1) = d
      BY <2>1, <2>3, HoldsCut
    <3>2. ~(i > Len(s))
      BY <2>2, <2>3
    <3> QED
      BY <2>3, <3>1, <3>2 DEF Position
  <2> QED
    BY <1>2, <2>1, <2>3 DEF d
<1> QED
  BY <1>1, <1>2

LEMMA AudioRoundTrip ==
    ASSUME NEW dst \in Dsts, NEW p \in AudioPackets, Encodable(dst, p)
    PROVE  /\ Encode(dst, p) \in Seq(Byte)
           /\ Decode(dst, Encode(dst, p)) = [ok |-> TRUE, packet |-> p]
<1>1. /\ p.kind \in {CeltAlpha, Speex, CeltBeta, Opus} /\ p.session_id \in U64 /\ p.seq_num \in U64
      /\ p.position \in Seq(Seq(Byte))
      /\ p = [kind |-> p.kind, target |-> p.target, session_id |-> p.session_id,
              seq_num |-> p.seq_num, frames |-> p.frames, term |-> p.term,
              position |-> p.position]
  BY DEF AudioPackets
<1>2. p.kind # Ping
  BY <1>1 DEF CeltAlpha, Speex, CeltBeta, Opus, Ping
<1>3. /\ p.target \in 0 .. 31 /\ Fits(p.session_id, 4)
      /\ dst = "Serverbound" => p.session_id = Unit
      /\ p.position # <<>> => Len(p.position) = 1 /\ p.position[1] # <<>>
  BY <1>2 DEF Encodable
<1> DEFINE header == p.kind * 32 + (p.target % 32)
           h == <<header>>
           a == write_session_id(dst, p.session_id)
           b == write_varint(p.seq_num)
           c == EncodePayload(p)
           d == IF p.position = <<>> THEN <<>> ELSE p.position[1]
           s == h \o a \o b \o c \o d
<1>4. Encode(dst, p) = s
  BY <1>2 DEF Encode
<1>5. /\ header \in Byte /\ header \div 32 = p.kind /\ header % 32 = p.target
      /\ ~(p.kind > Opus)
  <2> DEFINE kind == p.kind
             target == p.target
  <2>1. kind \in {CeltAlpha, Speex, CeltBeta, Opus} /\ target \in 0 .. 31
    BY <1>1, <1>3
  <2> HIDE DEF kind, target
  <2>2. LET x == kind * 32 + (target % 32)
        IN  x \in Byte /\ x \div 32 = kind /\ x % 32 = target /\ ~(kind > Opus)
    BY <2>1, HeaderByte
  <2> QED
    BY <2>2 DEF kind, target
<1> HIDE DEF header
<1>6. h \in Seq(Byte) /\ Len(h) = 1
  BY <1>5, One
<1>7. /\ a \in Seq(Byte)
      /\ \A t \in Seq(Byte) : \A i \in Nat : Holds(t, i, a) =>
                read_session_id(dst, t, i) = Parsed(p.session_id, i + Len(a))
  BY <1>1, <1>3, SessionRoundTrip
<1> HIDE DEF a
<1>8. /\ b \in Seq(Byte)
      /\ \A t \in Seq(Byte) : \A i : Holds(t, i, b) =>
                read_varint(t, i) = Parsed(p.seq_num, i + Len(b))
  BY <1>1, VarintBytes, VarintRoundTrip
<1> HIDE DEF b
<1>9. /\ c \in Seq(Byte)
      /\ \A t \in Seq(Byte) : \A i \in Nat : Holds(t, i, c) =>
                LET payload == IF p.kind = Opus THEN ReadOpus(t, i) ELSE ReadFrames(t, i)
                IN  /\ payload.ok /\ payload.value = p.frames
                    /\ payload.next = i + Len(c)
                    /\ (p.kind = Opus /\ payload.term) = p.term
  BY PayloadRoundTrip
<1> HIDE DEF c
<1>10. /\ d \in Seq(Byte)
       /\ \A t \in Seq(Byte) : \A i \in Nat :
                Holds(t, i, d) /\ Len(t) = (i + Len(d)) - 1 => Position(t, i) = p.position
  BY <1>1, <1>3, PositionRoundTrip
<1> HIDE DEF d
<1>11. InParts(s, h, a, b, c, d)
  <2> HIDE DEF h
  <2> QED
    BY <1>6, <1>7, <1>8, <1>9, <1>10, Parts
<1> HIDE DEF s
<1> DEFINE j == 2 + Len(a)
           k == j + Len(b)
           l == k + Len(c)
<1>12. Len(a) \in Nat /\ Len(b) \in Nat /\ Len(c) \in Nat /\ Len(d) \in Nat
  BY <1>7, <1>8, <1>9, <1>10
<1>13. /\ 1 + Len(h) = 2 /\ 1 + Len(h) + Len(a) = j
       /\ 1 + Len(h) + Len(a) + Len(b) = k
       /\ 1 + Len(h) + Len(a) + Len(b) + Len(c) = l
       /\ Len(h) + Len(a) + Len(b) + Len(c) + Len(d) = (l + Len(d)) - 1
       /\ j \in Nat /\ k \in Nat /\ l \in Nat /\ 2 \in Nat
  <2> HIDE DEF h
  <2> QED
    BY <1>6, <1>12
<1>14. /\ s \in Seq(Byte) /\ Holds(s, 1, h) /\ Holds(s, 2, a) /\ Holds(s, j, b)
       /\ Holds(s, k, c) /\ Holds(s, l, d) /\ Len(s) = (l + Len(d)) - 1
  <2> HIDE DEF h, j, k, l
  <2> QED
    BY <1>11, <1>13 DEF InParts
<1>15. s[1] = header /\ 1 <= Len(s)
  BY <1>5, <1>14, HoldsFirst
<1>16. s # <<>>
  BY <1>14, <1>15
<1>17. read_session_id(dst, s, 2) = Parsed(p.session_id, j)
  BY <1>7, <1>13, <1>14
<1>18. read_varint(s, j) = Parsed(p.seq_num, k)
  BY <1>8, <1>14
<1> DEFINE payload == IF p.kind = Opus THEN ReadOpus(s, k) ELSE ReadFrames(s, k)
<1>19. /\ payload.ok /\ payload.value = p.frames /\ payload.next = l
       /\ (p.kind = Opus /\ payload.term) = p.term
  BY <1>9, <1>13, <1>14
<1>20. Position(s, l) = p.position
  BY <1>10, <1>13, <1>14
<1> HIDE DEF j, k, l, h
<1>21. /\ Parsed(p.session_id, j).ok /\ Parsed(p.session_id, j).value = p.session_id
       /\ Parsed(p.session_id, j).next = j
       /\ Parsed(p.seq_num, k).ok /\ Parsed(p.seq_num, k).value = p.seq_num
       /\ Parsed(p.seq_num, k).next = k
  BY ParsedFields
<1>22. DecodeAudio(dst, s) =
          [ok |-> TRUE,
           packet |-> [kind |-> p.kind, target |-> p.target, session_id |-> p.session_id,
                       seq_num |-> p.seq_num, frames |-> payload.value,
                       term |-> (p.kind = Opus /\ payload.term),
                       position |-> Position(s, payload.next)]]
  <2>1. s[1] \div 32 = p.kind /\ s[1] % 32 = p.target
    BY <1>5, <1>15
  <2> QED
    BY <1>5, <1>17, <1>18, <1>19, <1>21, <2>1 DEF DecodeAudio
<1> HIDE DEF payload
<1>23. DecodeAudio(dst, s) = [ok |-> TRUE, packet |-> p]
  BY <1>1, <1>19, <1>20, <1>22
<1>24. Decode(dst, s) = DecodeAudio(dst, s)
  BY <1>2, <1>5, <1>15, <1>16 DEF Decode
<1> QED
  BY <1>4, <1>14, <1>23, <1>24

\* Every voice packet within the limits of its encoding is decoded as itself, for
\* both destinations, all kinds, numbers, frames and positions.
THEOREM VoiceRoundTrip ==
    ASSUME NEW dst \in Dsts, NEW p \in PingPackets \cup AudioPackets, Encodable(dst, p)
    PROVE  /\ Encode(dst, p) \in Seq(Byte)
           /\ Decode(dst, Encode(dst, p)) = [ok |-> TRUE, packet |-> p]
<1>1. CASE p \in PingPackets
  <2>1. p.timestamp \in U64 /\ p = [kind |-> Ping, timestamp |-> p.timestamp]
    BY <1>1 DEF PingPackets
  <2> QED
    BY <2>1, PingRoundTrip
<1>2. CASE p \in AudioPackets
  BY <1>2, AudioRoundTrip
<1> QED
  BY <1>1, <1>2

-----------------------------------------------------------------------------
(* Parts of a voice packet *)

\* s begins with t
Part(t, s) ==
    /\ t \in Seq(Byte) /\ s \in Seq(Byte) /\ Len(t) <= Len(s)
    /\ \A j \in 1 .. Len(t) : t[j] = s[j]

\* What is read from a part, x, is read from the whole, y, as well, and ends
\* within the part, of length n.
Same(x, y, i, n) == x.ok => y = x /\ x.next \in Nat /\ i <= x.next /\ x.next <= n + 1

LEMMA ErrNotOk == ~Err.ok
BY DEF Err

LEMMA PartCut ==
    ASSUME NEW t, NEW s, Part(t, s), NEW m \in Nat, NEW n \in Nat,
           0 < m, m <= n + 1, n <= Len(t)
    PROVE  SubSeq(t, m, n) = SubSeq(s, m, n)
<1>1. /\ t \in Seq(Byte) /\ s \in Seq(Byte) /\ Len(t) <= Len(s) /\ Len(t) \in Nat /\ Len(s) \in Nat
      /\ \A j \in 1 .. Len(t) : t[j] = s[j]
  BY DEF Part
<1>2. n <= Len(s)
  BY <1>1
<1> DEFINE a == SubSeq(t, m, n)
           b == SubSeq(s, m, n)
<1>3. /\ a \in Seq(Byte) /\ Len(a) = (n - m) + 1
      /\ \A j \in 1 .. (n - m) + 1 : a[j] = t[(m + j) - 1]
  BY <1>1, Cut
<1>4. /\ b \in Seq(Byte) /\ Len(b) = (n - m) + 1
      /\ \A j \in 1 .. (n - m) + 1 : b[j] = s[(m + j) - 1]
  BY <1>1, <1>2, Cut
<1>5. \A j \in 1 .. (n - m) + 1 : (m + j) - 1 \in 1 .. Len(t)
  BY <1>1
<1>6. \A j \in 1 .. (n - m) + 1 : a[j] = b[j]
  BY <1>1, <1>3, <1>4, <1>5
<1> HIDE DEF a, b
<1>7. a = b
  BY <1>3, <1>4, <1>6, SeqEqual
<1> QED
  BY <1>7 DEF a, b

\* a first byte says how many follow
LEMMA FollowingNat ==
    ASSUME NEW b
    PROVE  Following(b) \in Nat
BY DEF Following

LEMMA VarintPart ==
    ASSUME NEW t, NEW s, Part(t, s), NEW i \in Nat, i > 0
    PROVE  Same(read_varint(t, i), read_varint(s, i), i, Len(t))
<1>1. /\ t \in Seq(Byte) /\ s \in Seq(Byte) /\ Len(t) <= Len(s) /\ Len(t) \in Nat /\ Len(s) \in Nat
      /\ \A j \in 1 .. Len(t) : t[j] = s[j]
  BY DEF Part
<1> DEFINE first == {k \in i .. Len(t) : ~Negates(t[k]) /\ \A j \in i .. k - 1 : Negates(t[j])}
<1>2. CASE first = {}
  <2>1. read_varint(t, i) = Err
    BY <1>2 DEF read_varint
  <2> QED
    BY <2>1, ErrNotOk DEF Same
<1>3. ASSUME NEW k \in first PROVE Same(read_varint(t, i), read_varint(s, i), i, Len(t))
  <2>1. k \in i .. Len(t) /\ ~Negates(t[k]) /\ \A j \in i .. k - 1 : Negates(t[j])
    OBVIOUS
  <2> HIDE DEF first
  <2>2. /\ k \in i .. Len(s) /\ k \in 1 .. Len(t) /\ k \in Nat
        /\ \A j \in i .. k - 1 : j \in 1 .. Len(t)
    BY <1>1, <2>1
  <2>3. t[k] = s[k] /\ \A j \in i .. k - 1 : t[j] = s[j]
    BY <1>1, <2>2
  <2>4. read_varint(t, i) = ReadAt(t, i, k)
    BY <1>1, <2>1, FirstForm
  <2>5. read_varint(s, i) = ReadAt(s, i, k)
    <3>1. ~Negates(s[k]) /\ \A j \in i .. k - 1 : Negates(s[j])
      BY <2>1, <2>3
    <3> QED
      BY <1>1, <2>2, <3>1, FirstForm
  <2> DEFINE next == k + Following(t[k]) + 1
  <2>6. next \in Nat /\ next - 1 \in Nat /\ i <= next /\ 0 < k + 1 /\ k + 1 <= (next - 1) + 1
    BY <2>1, <2>2, FollowingNat
  <2>7. CASE next > Len(t) + 1
    <3>1. ReadAt(t, i, k) = Err
      BY <2>7 DEF ReadAt
    <3> QED
      BY <2>4, <3>1, ErrNotOk DEF Same
  <2>8. CASE ~(next > Len(t) + 1)
    <3>1. ~(next > Len(s) + 1) /\ next - 1 <= Len(t) /\ next <= Len(t) + 1
      BY <1>1, <2>6, <2>8
    <3>2. SubSeq(t, k + 1, next - 1) = SubSeq(s, k + 1, next - 1)
      <4> DEFINE m == k + 1
                 n == next - 1
      <4>1. m \in Nat /\ n \in Nat /\ 0 < m /\ m <= n + 1 /\ n <= Len(t)
        BY <2>2, <2>6, <3>1
      <4> HIDE DEF m, n
      <4>2. SubSeq(t, m, n) = SubSeq(s, m, n)
        BY <4>1, PartCut
      <4> QED
        BY <4>2 DEF m, n
    <3>3. ReadAt(t, i, k) = ReadAt(s, i, k)
      BY <2>3, <2>8, <3>1, <3>2 DEF ReadAt
    <3>4. ReadAt(t, i, k).next = next
      BY <2>8 DEF ReadAt
    <3> QED
      BY <2>4, <2>5, <2>6, <3>1, <3>3, <3>4 DEF Same
  <2> QED
    BY <2>7, <2>8
<1> QED
  BY <1>2, <1>3

\* the bytes of what read_varint yields
LEMMA VarintValue ==
    ASSUME NEW s \in Seq(Byte), NEW i \in Nat, i > 0, read_varint(s, i).ok
    PROVE  \A j \in 1 .. 8 : read_varint(s, i).value[j] \in Byte
<1> DEFINE first == {k \in i .. Len(s) : ~Negates(s[k]) /\ \A j \in i .. k - 1 : Negates(s[j])}
<1>1. first # {}
  <2>1. first = {} => read_varint(s, i) = Err
    BY DEF read_varint
  <2> QED
    BY <2>1, ErrNotOk
<1>2. PICK k \in first : TRUE
  BY <1>1
<1>3. k \in i .. Len(s) /\ ~Negates(s[k]) /\ \A j \in i .. k - 1 : Negates(s[j])
  BY <1>2
<1> HIDE DEF first
<1>4. read_varint(s, i) = ReadAt(s, i, k)
  BY <1>3, FirstForm
<1>5. k \in 1 .. Len(s) /\ k \in Nat /\ s[k] \in Byte /\ Len(s) \in Nat
  BY <1>3
<1> DEFINE b == s[k]
           next == k + Following(b) + 1
           rest == SubSeq(s, k + 1, next - 1)
           value == IF b >= 252 THEN Not(Widen(<<b % 4>>)) ELSE Widen(Leading(b) \o rest)
<1>6. next \in Nat /\ next - 1 \in Nat /\ 0 < k + 1 /\ k + 1 <= (next - 1) + 1
  BY <1>5, FollowingNat
<1>7. ~(next > Len(s) + 1)
  <2>1. next > Len(s) + 1 => ReadAt(s, i, k) = Err
    BY DEF ReadAt
  <2> QED
    BY <1>4, <2>1, ErrNotOk
<1>8. ReadAt(s, i, k).value = IF (k - i) % 2 = 0 THEN value ELSE Not(value)
  BY <1>7 DEF ReadAt
<1>9. rest \in Seq(Byte)
  <2> DEFINE m == k + 1
             n == next - 1
  <2>1. m \in Nat /\ n \in Nat /\ 0 < m /\ m <= n + 1 /\ n <= Len(s)
    BY <1>5, <1>6, <1>7
  <2> HIDE DEF m, n
  <2>2. SubSeq(s, m, n) \in Seq(Byte)
    BY <2>1, Cut
  <2> QED
    BY <2>2 DEF m, n
<1> HIDE DEF rest, next
<1>10. \A x \in Seq(Byte) : \A j \in 1 .. 8 : Widen(x)[j] \in Byte
  <2> SUFFICES ASSUME NEW x \in Seq(Byte), NEW j \in 1 .. 8 PROVE Widen(x)[j] \in Byte
    OBVIOUS
  <2>1. Widen(x)[j] = IF j + Len(x) > 8 THEN x[j + Len(x) - 8] ELSE 0
    BY DEF Widen
  <2>2. Len(x) \in Nat /\ 0 \in Byte
    BY DEF Byte
  <2>3. j + Len(x) > 8 => j + Len(x) - 8 \in 1 .. Len(x)
    BY <2>2
  <2>4. j + Len(x) > 8 => x[j + Len(x) - 8] \in Byte
    BY <2>3
  <2> QED
    BY <2>1, <2>2, <2>4
<1>11. \A v : (\A j \in 1 .. 8 : v[j] \in Byte) => \A j \in 1 .. 8 : Not(v)[j] \in Byte
  <2>1. \A a \in Byte : 255 - a \in Byte
    BY DEF Byte
  <2> QED
    BY <2>1 DEF Not
<1>12. \A a \in Byte : a % 4 \in Byte /\ a % 128 \in Byte /\ a % 64 \in Byte /\ a % 32 \in Byte
                       /\ a % 16 \in Byte
  BY SMT DEF Byte
<1>13. <<b % 4>> \in Seq(Byte) /\ Leading(b) \in Seq(Byte)
  <2>1. b \in Byte
    BY <1>5
  <2> HIDE DEF b
  <2>2. \A a \in Byte : <<a>> \in Seq(Byte)
    OBVIOUS
  <2>3. <<>> \in Seq(Byte)
    OBVIOUS
  <2> QED
    BY <1>12, <2>1, <2>2, <2>3 DEF Leading
<1> HIDE DEF b
<1>14. Leading(b) \o rest \in Seq(Byte)
  BY <1>9, <1>13, ConcatProperties
<1>15. \A j \in 1 .. 8 : value[j] \in Byte
  BY <1>10, <1>11, <1>13, <1>14
<1> HIDE DEF value
<1> QED
  BY <1>4, <1>8, <1>11, <1>15

\* clearing a bit keeps a length a natural number
LEMMA UnsetNat ==
    ASSUME NEW n \in Nat
    PROVE  Unset(n, TermBit) \in Nat
<1> DEFINE bit == TermBit
<1>1. bit \in Nat /\ bit > 0
  BY TermBitWidth
<1> HIDE DEF bit
<1>2. n < bit => n \div bit = 0
  BY <1>1
<1>3. 0 % 2 = 0
  BY SMT
<1>4. ~Clear(n, bit) => n >= bit
  BY <1>1, <1>2, <1>3 DEF Clear
<1> QED
  BY <1>1, <1>4 DEF Unset, bit

LEMMA OpusPart ==
    ASSUME NEW t, NEW s, Part(t, s), NEW i \in Nat, i > 0
    PROVE  Same(ReadOpus(t, i), ReadOpus(s, i), i, Len(t))
<1>1. /\ t \in Seq(Byte) /\ s \in Seq(Byte) /\ Len(t) <= Len(s) /\ Len(t) \in Nat /\ Len(s) \in Nat
  BY DEF Part
<1> DEFINE header == read_varint(t, i)
           value == header.value
           next == header.next
           n == NatOf(value)
           end == next + Unset(n, TermBit)
<1>2. CASE ~header.ok \/ ~Fits(value, 3)
  <2>1. ReadOpus(t, i) = Err
    BY <1>2 DEF ReadOpus
  <2> QED
    BY <2>1, ErrNotOk DEF Same
<1>3. CASE header.ok /\ Fits(value, 3)
  <2>1. read_varint(s, i) = header /\ next \in Nat /\ i <= next /\ next <= Len(t) + 1
    BY <1>3, VarintPart DEF Same
  <2>2. n \in Nat
    <3>1. value[6] \in Byte /\ value[7] \in Byte /\ value[8] \in Byte
      BY <1>1, <1>3, VarintValue
    <3>2. \A b \in Byte : b \in Nat
      BY DEF Byte
    <3>3. \A a, b, c \in Nat : (a * 256 + b) * 256 + c \in Nat
      BY SMT
    <3>4. n = (value[6] * 256 + value[7]) * 256 + value[8]
      BY DEF NatOf
    <3> HIDE DEF value, n
    <3> QED
      BY <3>1, <3>2, <3>3, <3>4
  <2>3. Unset(n, TermBit) \in Nat
    <3> HIDE DEF n
    <3> QED
      BY <2>2, UnsetNat
  <2>4. ReadOpus(t, i) =
          IF end > Len(t) + 1 THEN Err
          ELSE [ok |-> TRUE, term |-> ~Clear(n, TermBit),
                value |-> <<SubSeq(t, next, end - 1)>>, next |-> end]
    BY <1>3 DEF ReadOpus
  <2>5. ReadOpus(s, i) =
          IF end > Len(s) + 1 THEN Err
          ELSE [ok |-> TRUE, term |-> ~Clear(n, TermBit),
                value |-> <<SubSeq(s, next, end - 1)>>, next |-> end]
    BY <1>3, <2>1 DEF ReadOpus
  <2> HIDE DEF header, value, next, n
  <2>6. end \in Nat /\ next <= end /\ i <= end
    BY <2>1, <2>3
  <2> HIDE DEF end
  <2>7. CASE end > Len(t) + 1
    BY <2>4, <2>7, ErrNotOk DEF Same
  <2>8. CASE ~(end > Len(t) + 1)
    <3>1. ~(end > Len(s) + 1) /\ end <= Len(t) + 1
      BY <1>1, <2>6, <2>8
    <3>2. SubSeq(t, next, end - 1) = SubSeq(s, next, end - 1)
      <4> DEFINE e == end - 1
      <4>1. e \in Nat /\ 0 < next /\ next <= e + 1 /\ e <= Len(t)
        BY <1>1, <2>1, <2>6, <3>1
      <4> HIDE DEF e
      <4>2. SubSeq(t, next, e) = SubSeq(s, next, e)
        BY <2>1, <4>1, PartCut
      <4> QED
        BY <4>2 DEF e
    <3>3. ReadOpus(t, i) = ReadOpus(s, i)
      BY <2>4, <2>5, <2>8, <3>1, <3>2
    <3>4. ReadOpus(t, i).next = end
      BY <2>4, <2>8
    <3> QED
      BY <2>6, <3>1, <3>3, <3>4 DEF Same
  <2> QED
    BY <2>7, <2>8
<1> QED
  BY <1>2, <1>3

\* one function reads the frames from every position on
LEMMA ReadOfAll ==
    ASSUME NEW s \in Seq(Byte)
    PROVE  \E g : ReadFrom(s, 1, g) /\ \A k : ReadFrames(s, k) = g[k]
<1> DEFINE f == CHOOSE g : ReadFrom(s, 1, g)
<1>1. ReadFrom(s, 1, f)
  BY ReadExists, Zenon
<1>2. \A k : ReadFrames(s, k) = f[k]
  BY Zenon DEF ReadFrames, ReadFrom, FrameAt
<1> QED
  BY <1>1, <1>2

\* A frame is the same in a part if those behind it are.
LEMMA FramePart ==
    ASSUME NEW t, NEW s, Part(t, s), NEW k \in 1 .. Len(t) + 1, NEW g, NEW h,
           \A e \in k + 1 .. Len(t) + 1 : Same(g[e], h[e], e, Len(t))
    PROVE  Same(FrameAt(t, k, g), FrameAt(s, k, h), k, Len(t))
<1>1. /\ t \in Seq(Byte) /\ s \in Seq(Byte) /\ Len(t) <= Len(s) /\ Len(t) \in Nat /\ Len(s) \in Nat
      /\ \A j \in 1 .. Len(t) : t[j] = s[j]
  BY DEF Part
<1>2. CASE k > Len(t)
  <2>1. FrameAt(t, k, g) = Err
    BY <1>2 DEF FrameAt
  <2> QED
    BY <2>1, ErrNotOk DEF Same
<1>3. CASE ~(k > Len(t))
  <2> DEFINE len == t[k] % 128
             end == k + len + 1
             one == SubSeq(t, k + 1, end - 1)
  <2>1. k \in 1 .. Len(t) /\ k \in Nat /\ ~(k > Len(s)) /\ s[k] = t[k]
    BY <1>1, <1>3
  <2>2. t[k] \in Nat
    <3>1. t[k] \in Byte
      BY <1>1, <2>1
    <3>2. \A b \in Byte : b \in Nat
      BY DEF Byte
    <3> QED
      BY <3>1, <3>2
  <2>3. len \in Nat
    <3>1. \A a \in Nat : a % 128 \in Nat
      BY SMT
    <3> QED
      BY <2>2, <3>1
  <2>4. FrameAt(t, k, g) =
          IF end > Len(t) + 1 THEN Err
          ELSE IF t[k] < 128 THEN Parsed(<<one>>, end)
          ELSE IF ~g[end].ok THEN Err
          ELSE Parsed(<<one>> \o g[end].value, g[end].next)
    BY <1>3 DEF FrameAt
  <2>5. FrameAt(s, k, h) =
          IF end > Len(s) + 1 THEN Err
          ELSE IF t[k] < 128 THEN Parsed(<<SubSeq(s, k + 1, end - 1)>>, end)
          ELSE IF ~h[end].ok THEN Err
          ELSE Parsed(<<SubSeq(s, k + 1, end - 1)>> \o h[end].value, h[end].next)
    BY <2>1 DEF FrameAt
  <2> HIDE DEF len
  <2>6. end \in Nat /\ k + 1 <= end /\ end - 1 \in Nat
    BY <2>1, <2>3
  <2> HIDE DEF end
  <2>7. CASE end > Len(t) + 1
    BY <2>4, <2>7, ErrNotOk DEF Same
  <2>8. CASE ~(end > Len(t) + 1)
    <3>1. /\ ~(end > Len(s) + 1) /\ end <= Len(t) + 1 /\ end \in k + 1 .. Len(t) + 1
          /\ k <= end
      BY <1>1, <2>1, <2>6, <2>8
    <3>2. one = SubSeq(s, k + 1, end - 1)
      <4> DEFINE m == k + 1
                 n == end - 1
      <4>1. m \in Nat /\ n \in Nat /\ 0 < m /\ m <= n + 1 /\ n <= Len(t)
        BY <1>1, <2>1, <2>6, <3>1
      <4> HIDE DEF m, n
      <4>2. SubSeq(t, m, n) = SubSeq(s, m, n)
        BY <4>1, PartCut
      <4> QED
        BY <4>2 DEF m, n
    <3>3. Same(g[end], h[end], end, Len(t))
      BY <3>1
    <3> HIDE DEF one
    <3>4. CASE t[k] < 128
      <4>1. FrameAt(t, k, g) = Parsed(<<one>>, end) /\ FrameAt(s, k, h) = Parsed(<<one>>, end)
        BY <2>4, <2>5, <2>8, <3>1, <3>2, <3>4
      <4> QED
        BY <2>6, <3>1, <4>1, ParsedFields DEF Same
    <3>5. CASE ~(t[k] < 128) /\ ~g[end].ok
      <4>1. FrameAt(t, k, g) = Err
        BY <2>4, <2>8, <3>5
      <4> QED
        BY <4>1, ErrNotOk DEF Same
    <3>6. CASE ~(t[k] < 128) /\ g[end].ok
      <4>1. h[end] = g[end] /\ g[end].next \in Nat /\ end <= g[end].next /\ g[end].next <= Len(t) + 1
        BY <3>3, <3>6 DEF Same
      <4> DEFINE x == Parsed(<<one>> \o g[end].value, g[end].next)
      <4>2. FrameAt(t, k, g) = x /\ FrameAt(s, k, h) = x
        BY <2>4, <2>5, <2>8, <3>1, <3>2, <3>6, <4>1
      <4>3. x.next = g[end].next
        BY ParsedFields
      <4> HIDE DEF x
      <4>4. k <= g[end].next
        BY <2>1, <2>6, <3>1, <4>1
      <4> QED
        BY <4>1, <4>2, <4>3, <4>4 DEF Same
    <3> QED
      BY <3>4, <3>5, <3>6
  <2> QED
    BY <2>7, <2>8
<1> QED
  BY <1>2, <1>3

LEMMA FramesPart ==
    ASSUME NEW t, NEW s, Part(t, s), NEW k \in 1 .. Len(t) + 1
    PROVE  Same(ReadFrames(t, k), ReadFrames(s, k), k, Len(t))
<1>1. /\ t \in Seq(Byte) /\ s \in Seq(Byte) /\ Len(t) <= Len(s) /\ Len(t) \in Nat /\ Len(s) \in Nat
  BY DEF Part
<1>2. PICK g : ReadFrom(t, 1, g) /\ \A e : ReadFrames(t, e) = g[e]
  BY <1>1, ReadOfAll
<1>3. PICK h : ReadFrom(s, 1, h) /\ \A e : ReadFrames(s, e) = h[e]
  BY <1>1, ReadOfAll
<1>4. \A e \in 1 .. Len(t) + 1 : g[e] = FrameAt(t, e, g) /\ h[e] = FrameAt(s, e, h)
  <2>1. \A e \in 1 .. Len(t) + 1 : e \in 1 .. Len(s) + 1
    BY <1>1
  <2> QED
    BY <1>2, <1>3, <2>1 DEF ReadFrom
<1> DEFINE n == Len(t)
           T == {d \in 0 .. n : ~Same(g[(n + 1) - d], h[(n + 1) - d], (n + 1) - d, n)}
<1>5. ASSUME NEW d \in T PROVE \E m \in T : m < d
  <2> DEFINE e == (n + 1) - d
  <2>1. d \in 0 .. n /\ ~Same(g[e], h[e], e, n)
    OBVIOUS
  <2>2. e \in 1 .. n + 1
    BY <1>1, <2>1
  <2> SUFFICES ASSUME ~ \E m \in T : m < d PROVE FALSE
    OBVIOUS
  <2>3. ASSUME NEW f \in e + 1 .. n + 1 PROVE Same(g[f], h[f], f, n)
    <3>1. (n + 1) - f \in 0 .. n /\ (n + 1) - f < d /\ (n + 1) - ((n + 1) - f) = f
      BY <1>1, <2>1, <2>2
    <3> QED
      BY <3>1
  <2> HIDE DEF e, T
  <2>4. Same(FrameAt(t, e, g), FrameAt(s, e, h), e, n)
    BY <2>2, <2>3, FramePart
  <2> QED
    BY <1>4, <2>1, <2>2, <2>4
<1>6. T = {}
  <2>1. T \subseteq Nat
    BY <1>1
  <2> HIDE DEF T
  <2> QED
    BY <1>5, <2>1, NoLeast
<1>7. (n + 1) - k \in 0 .. n /\ (n + 1) - ((n + 1) - k) = k
  BY <1>1
<1> QED
  BY <1>2, <1>3, <1>6, <1>7

LEMMA SessionPart ==
    ASSUME NEW dst, NEW t, NEW s, Part(t, s), NEW i \in Nat, i > 0, i <= Len(t) + 1
    PROVE  Same(read_session_id(dst, t, i), read_session_id(dst, s, i), i, Len(t))
<1>1. CASE dst = "Serverbound"
  <2>1. read_session_id(dst, t, i) = Parsed(Unit, i) /\ read_session_id(dst, s, i) = Parsed(Unit, i)
    BY <1>1 DEF read_session_id
  <2> QED
    BY <2>1, ParsedFields DEF Same
<1>2. CASE dst # "Serverbound"
  <2> DEFINE id == read_varint(t, i)
  <2>1. Same(id, read_varint(s, i), i, Len(t))
    BY VarintPart
  <2>2. CASE id.ok
    <3>1. read_varint(s, i) = id /\ id.next \in Nat /\ i <= id.next /\ id.next <= Len(t) + 1
      BY <2>1, <2>2 DEF Same
    <3> DEFINE x == Parsed(U32(id.value), id.next)
    <3>2. read_session_id(dst, t, i) = x /\ read_session_id(dst, s, i) = x
      BY <1>2, <2>2, <3>1 DEF read_session_id
    <3>3. x.next = id.next
      BY ParsedFields
    <3> HIDE DEF x, id
    <3> QED
      BY <3>1, <3>2, <3>3 DEF Same
  <2>3. CASE ~id.ok
    <3>1. read_session_id(dst, t, i) = Err
      BY <1>2, <2>3 DEF read_session_id
    <3> QED
      BY <3>1, ErrNotOk DEF Same
  <2> QED
    BY <2>2, <2>3
<1> QED
  BY <1>1, <1>2

\* If a part of a packet is decoded as audio, then so is the whole, with what is
\* not in the part as its position.
LEMMA AudioPart ==
    ASSUME NEW dst, NEW t, NEW s, Part(t, s), t # <<>>, Len(t) < Len(s), DecodeAudio(dst, t).ok
    PROVE  DecodeAudio(dst, s).packet.position # <<>>
<1>1. /\ t \in Seq(Byte) /\ s \in Seq(Byte) /\ Len(t) \in Nat /\ Len(s) \in Nat /\ Len(t) > 0
      /\ t[1] = s[1]
  BY DEF Part
<1> DEFINE kind == t[1] \div 32
           id == read_session_id(dst, t, 2)
           seq == read_varint(t, id.next)
           payload == IF kind = Opus THEN ReadOpus(t, seq.next) ELSE ReadFrames(t, seq.next)
<1>2. id.ok /\ seq.ok /\ ~(kind > Opus) /\ payload.ok
  BY ErrNotOk DEF DecodeAudio
<1>3. read_session_id(dst, s, 2) = id /\ id.next \in Nat /\ 2 <= id.next /\ id.next <= Len(t) + 1
  <2>1. 2 \in Nat /\ 2 > 0 /\ 2 <= Len(t) + 1
    BY <1>1
  <2>2. Same(read_session_id(dst, t, 2), read_session_id(dst, s, 2), 2, Len(t))
    BY <2>1, SessionPart
  <2> QED
    BY <1>2, <2>2 DEF Same
<1>4. read_varint(s, id.next) = seq /\ seq.next \in Nat /\ id.next <= seq.next
      /\ seq.next <= Len(t) + 1
  <2> DEFINE i == id.next
  <2>1. i \in Nat /\ i > 0
    BY <1>3
  <2> HIDE DEF i
  <2>2. Same(read_varint(t, i), read_varint(s, i), i, Len(t))
    BY <2>1, VarintPart
  <2> QED
    BY <1>2, <2>2 DEF Same, i
<1> DEFINE whole == IF kind = Opus THEN ReadOpus(s, seq.next) ELSE ReadFrames(s, seq.next)
<1>5. whole = payload /\ payload.next \in Nat /\ payload.next <= Len(t) + 1
  <2> DEFINE i == seq.next
  <2>1. i \in Nat /\ i > 0 /\ i \in 1 .. Len(t) + 1
    BY <1>1, <1>3, <1>4
  <2> HIDE DEF i
  <2>2. Same(ReadOpus(t, i), ReadOpus(s, i), i, Len(t))
        /\ Same(ReadFrames(t, i), ReadFrames(s, i), i, Len(t))
    BY <2>1, OpusPart, FramesPart
  <2> QED
    BY <1>2, <2>2 DEF Same, i
<1>6. DecodeAudio(dst, s).packet.position = Position(s, payload.next)
  <2>1. s[1] \div 32 = kind
    BY <1>1
  <2> HIDE DEF kind, id, seq
  <2>2. payload.ok /\ whole = payload
    BY <1>2, <1>5
  <2> HIDE DEF payload
  <2> QED
    BY <1>2, <1>3, <1>4, <2>1, <2>2 DEF DecodeAudio
<1>7. ~(payload.next > Len(s))
  BY <1>1, <1>5
<1> QED
  BY <1>6, <1>7 DEF Position

LEMMA PingPart ==
    ASSUME NEW dst, NEW v \in U64, NEW t,
           Part(t, Encode(dst, [kind |-> Ping, timestamp |-> v])), t # <<>>,
           Len(t) < Len(Encode(dst, [kind |-> Ping, timestamp |-> v]))
    PROVE  ~Decode(dst, t).ok
<1> DEFINE w == write_varint(v)
           h == <<32>>
           s == h \o w
<1>1. Encode(dst, [kind |-> Ping, timestamp |-> v]) = s
  BY DEF Encode
<1>2. 32 \in Byte
  BY DEF Byte
<1>3. h \in Seq(Byte) /\ Len(h) = 1 /\ h[1] = 32 /\ w \in Seq(Byte)
  BY <1>2, One, VarintBytes
<1> HIDE DEF h, w
<1>4. s \in Seq(Byte) /\ Len(s) = Len(h) + Len(w) /\ IsJoined(s, h, w)
  BY <1>3, ConcatProperties DEF IsJoined
<1> HIDE DEF s
<1>5. Holds(s, 1, s)
  BY <1>4, HoldsSelf
<1>6. Holds(s, 1, h) /\ Holds(s, 1 + Len(h), w)
  BY <1>3, <1>4, <1>5, HoldsParts
<1>7. Holds(s, 2, w) /\ Len(s) = 1 + Len(w) /\ Len(w) \in Nat
  <2>1. 1 + Len(h) = 2
    BY <1>3
  <2> QED
    BY <1>3, <1>4, <1>6, <2>1
<1>8. s[1] = 32
  BY <1>2, <1>4, <1>6, HoldsFirst DEF h
<1>9. Part(t, s) /\ Len(t) < Len(s) /\ t \in Seq(Byte) /\ Len(t) \in Nat /\ t[1] = 32
  <2>1. Part(t, s) /\ Len(t) < Len(s)
    BY <1>1
  <2>2. t \in Seq(Byte) /\ \A j \in 1 .. Len(t) : t[j] = s[j]
    BY <2>1 DEF Part
  <2>3. 1 \in 1 .. Len(t)
    BY <2>2
  <2> QED
    BY <1>8, <2>1, <2>2, <2>3
<1>10. read_varint(s, 2) = Parsed(v, 2 + Len(w))
  BY <1>4, <1>7, VarintRoundTrip DEF w
<1>11. Same(read_varint(t, 2), read_varint(s, 2), 2, Len(t))
  BY <1>9, VarintPart
<1>12. ~read_varint(t, 2).ok
  <2>1. SUFFICES ASSUME read_varint(t, 2).ok PROVE FALSE
    OBVIOUS
  <2>2. read_varint(t, 2) = Parsed(v, 2 + Len(w)) /\ read_varint(t, 2).next <= Len(t) + 1
    BY <1>10, <1>11, <2>1 DEF Same
  <2>3. 2 + Len(w) <= Len(t) + 1
    BY <2>2, ParsedFields
  <2> QED
    BY <1>7, <1>9, <2>3
<1>13. t[1] \div 32 = Ping
  BY <1>9 DEF Ping
<1> QED
  BY <1>12, <1>13, ErrNotOk DEF Decode

\* No proper part of the encoding of a voice packet without a position is decoded
\* as a packet, whatever the packet and wherever it is cut.
THEOREM CutVoiceRefused ==
    ASSUME NEW dst \in Dsts, NEW p \in PingPackets \cup AudioPackets, Encodable(dst, p),
           p.kind # Ping => p.position = <<>>,
           NEW t, Part(t, Encode(dst, p)), Len(t) < Len(Encode(dst, p))
    PROVE  ~Decode(dst, t).ok
<1> DEFINE s == Encode(dst, p)
<1>1. s \in Seq(Byte) /\ Decode(dst, s) = [ok |-> TRUE, packet |-> p]
  BY VoiceRoundTrip
<1>2. CASE t = <<>>
  BY <1>2, ErrNotOk DEF Decode
<1>3. CASE t # <<>> /\ p \in PingPackets
  <2>1. p.timestamp \in U64 /\ p = [kind |-> Ping, timestamp |-> p.timestamp]
    BY <1>3 DEF PingPackets
  <2> QED
    BY <1>3, <2>1, PingPart
<1>4. CASE t # <<>> /\ p \in AudioPackets
  <2>1. p.kind # Ping
    BY <1>4 DEF AudioPackets, CeltAlpha, Speex, CeltBeta, Opus, Ping
  <2>2. Part(t, s) /\ Len(t) < Len(s)
    OBVIOUS
  <2> HIDE DEF s
  <2>3. t[1] = s[1] /\ s # <<>>
    <3>1. /\ t \in Seq(Byte) /\ s \in Seq(Byte) /\ \A j \in 1 .. Len(t) : t[j] = s[j]
      BY <2>2 DEF Part
    <3>2. 1 \in 1 .. Len(t)
      BY <1>4, <3>1
    <3> QED
      BY <2>2, <3>1, <3>2
  <2>4. s[1] \div 32 # Ping
    <3>1. SUFFICES ASSUME s[1] \div 32 = Ping PROVE FALSE
      OBVIOUS
    <3> DEFINE timestamp == read_varint(s, 2)
    <3>2. Decode(dst, s) =
            IF timestamp.ok
            THEN [ok |-> TRUE, packet |-> [kind |-> Ping, timestamp |-> timestamp.value]]
            ELSE Err
      BY <2>3, <3>1 DEF Decode
    <3> HIDE DEF timestamp
    <3>3. timestamp.ok
      BY <1>1, <3>2, ErrNotOk
    <3> DEFINE value == timestamp.value
               q == [kind |-> Ping, timestamp |-> value]
    <3>4. Decode(dst, s) = [ok |-> TRUE, packet |-> q] /\ q.kind = Ping
      BY <3>2, <3>3
    <3> HIDE DEF q, value
    <3>5. p = q
      BY <1>1, <3>4
    <3> QED
      BY <2>1, <3>4, <3>5
  <2>5. Decode(dst, s) = DecodeAudio(dst, s) /\ Decode(dst, t) = DecodeAudio(dst, t)
    BY <1>4, <2>3, <2>4 DEF Decode
  <2>6. SUFFICES ASSUME DecodeAudio(dst, t).ok PROVE FALSE
    BY <2>5
  <2>7. DecodeAudio(dst, s).packet.position # <<>>
    BY <1>4, <2>2, <2>6, AudioPart
  <2>8. DecodeAudio(dst, s).packet = p
    BY <1>1, <2>5
  <2> QED
    BY <2>1, <2>7, <2>8
<1> QED
  BY <1>2, <1>3, <1>4

-----------------------------------------------------------------------------
(***************************************************************************)
(* What is asked of the codec and of the packets: the fields of the header *)
(* hold their ids and lengths, a sound packet is decoded as itself, and    *)
(* one that is not sound is refused.                                       *)
(***************************************************************************)
Faithful(p) ==
    /\ IntoRaw(p) \in RawPackets
    /\ Sound(p) => FromRaw(IntoRaw(p)) = [ok |-> TRUE, packet |-> p]
    /\ ~Sound(p) => Len(IntoRaw(p).bytes) > MaxLength \/ ~FromRaw(IntoRaw(p)).ok

CodecFaithful == \A p \in Packets : Faithful(p)

LEMMA Names ==
    /\ DOMAIN PacketNames = 1 .. 26
    /\ PacketNames[2] = "UDPTunnel"
    /\ \A i \in 1 .. 26 : PacketNames[i] # "Other"
BY DEF PacketNames

\* a type is found again by its id
LEMMA IdFound ==
    ASSUME NEW name, \E i \in 1 .. 26 : PacketNames[i] = name
    PROVE  /\ IdOf(name) \in Nat /\ U16Number(IdOf(name)) /\ Known(IdOf(name))
           /\ PacketNames[IdOf(name) + 1] = name
<1> DEFINE e == CHOOSE i \in 1 .. 26 : PacketNames[i] = name
<1>1. e \in 1 .. 26 /\ PacketNames[e] = name
  BY Zenon
<1>2. IdOf(name) = e - 1
  BY Names DEF IdOf
<1> HIDE DEF e
<1>3. e - 1 \in Nat /\ (e - 1) + 1 = e /\ (e - 1) \div 256 = 0
  BY <1>1
<1> QED
  BY <1>1, <1>2, <1>3, Names DEF U16Number, Known, Byte

LEMMA VoiceFaithful ==
    ASSUME NEW p \in Packets, p \in [name : {"UDPTunnel"}, body : PingPackets \cup AudioPackets],
           Encodable(Dst, p.body)
    PROVE  Faithful(p)
<1> DEFINE id == IdOf("UDPTunnel")
           bytes == Encode(Dst, p.body)
<1>1. p.name = "UDPTunnel" /\ p = [name |-> "UDPTunnel", body |-> p.body]
      /\ p.body \in PingPackets \cup AudioPackets
  OBVIOUS
<1>2. bytes \in Seq(Byte) /\ Decode(Dst, bytes) = [ok |-> TRUE, packet |-> p.body]
  BY <1>1, WireAssumption, VoiceRoundTrip
<1>3. id \in Nat /\ U16Number(id) /\ Known(id) /\ PacketNames[id + 1] = "UDPTunnel"
  <2>1. 2 \in 1 .. 26
    OBVIOUS
  <2> QED
    BY <2>1, Names, IdFound
<1>4. IntoRaw(p) = [id |-> id, bytes |-> bytes]
  BY <1>1 DEF IntoRaw, VoiceIntoRaw
<1> HIDE DEF id, bytes
<1>5. U32Number(Len(bytes))
  BY <1>4, PacketsAssumption
<1>6. IntoRaw(p) \in RawPackets
  BY <1>2, <1>3, <1>4, <1>5 DEF RawPackets
<1>7. FromRaw(IntoRaw(p)) = VoiceFromBytes(bytes)
  BY <1>3, <1>4 DEF FromRaw
<1>8. VoiceFromBytes(bytes) = [ok |-> TRUE, packet |-> p]
  <2> DEFINE voice == p.body
  <2>1. Decode(Dst, bytes) = [ok |-> TRUE, packet |-> voice] /\ p = [name |-> "UDPTunnel", body |-> voice]
    BY <1>1, <1>2
  <2> HIDE DEF voice
  <2>2. Decode(Dst, bytes).ok /\ Decode(Dst, bytes).packet = voice
    BY <2>1
  <2>3. VoiceFromBytes(bytes) = Packet("UDPTunnel", voice)
    BY <2>2 DEF VoiceFromBytes
  <2> QED
    BY <2>1, <2>3 DEF Packet
<1>9. ~Sound(p) => Len(IntoRaw(p).bytes) > MaxLength
  <2>1. Len(bytes) \in Nat /\ IntoRaw(p).bytes = bytes
    BY <1>2, <1>4
  <2>2. Sound(p) <=> Len(bytes) <= MaxLength
    BY <1>1, <2>1 DEF Sound
  <2> QED
    BY <2>1, <2>2, WireAssumption
<1> QED
  BY <1>6, <1>7, <1>8, <1>9 DEF Faithful

LEMMA OtherFaithful ==
    ASSUME NEW p \in Packets, p \in [name : {"Other"}, body : RawPackets],
           Known(p.body.id) => ~FromRaw(p.body).ok \/ Len(p.body.bytes) > MaxLength
    PROVE  Faithful(p)
<1> DEFINE raw == p.body
<1>1. p.name = "Other" /\ p = [name |-> "Other", body |-> raw] /\ raw \in RawPackets
  OBVIOUS
<1>2. IntoRaw(p) = raw
  BY <1>1 DEF IntoRaw
<1>3. Len(raw.bytes) \in Nat
  BY <1>1 DEF RawPackets
<1>4. Sound(p) <=> ~Known(raw.id) /\ Len(raw.bytes) <= MaxLength
  BY <1>1, <1>2 DEF Sound
<1> HIDE DEF raw
<1>5. ~Known(raw.id) => FromRaw(raw) = [ok |-> TRUE, packet |-> p]
  BY <1>1 DEF FromRaw, Packet
<1>6. ~Sound(p) => Len(raw.bytes) > MaxLength \/ ~FromRaw(raw).ok
  BY <1>3, <1>4, WireAssumption DEF raw
<1> QED
  BY <1>1, <1>2, <1>4, <1>5, <1>6 DEF Faithful

LEMMA MessageFaithful ==
    ASSUME NEW p \in Packets,
           p \in [name : {PacketNames[i] : i \in DOMAIN PacketNames} \ {"UDPTunnel"}, body : Seq(Byte)]
    PROVE  Faithful(p)
<1> DEFINE name == p.name
           body == p.body
           id == IdOf(name)
<1>1. /\ name # "UDPTunnel" /\ name # "Other" /\ \E i \in 1 .. 26 : PacketNames[i] = name
      /\ body \in Seq(Byte) /\ p = [name |-> name, body |-> body]
  BY Names
<1>2. id \in Nat /\ U16Number(id) /\ Known(id) /\ PacketNames[id + 1] = name
  BY <1>1, IdFound
<1>3. IntoRaw(p) = [id |-> id, bytes |-> body]
  BY <1>1 DEF IntoRaw, MessageIntoRaw
<1> HIDE DEF id, name, body
<1>4. U32Number(Len(body))
  BY <1>3, PacketsAssumption
<1>5. IntoRaw(p) \in RawPackets
  BY <1>1, <1>2, <1>3, <1>4 DEF RawPackets
<1>6. FromRaw(IntoRaw(p)) = ParseFromBytes(name, body)
  BY <1>1, <1>2, <1>3 DEF FromRaw
<1>7. /\ body \notin Malformed => ParseFromBytes(name, body) = [ok |-> TRUE, packet |-> p]
      /\ body \in Malformed => ~ParseFromBytes(name, body).ok
  BY <1>1 DEF ParseFromBytes, Packet, Err
<1>8. Sound(p) <=> body \notin Malformed /\ Len(body) <= MaxLength
  <2>1. p.name # "UDPTunnel" /\ p.name # "Other" /\ p.body = body /\ IntoRaw(p).bytes = body
    BY <1>1, <1>3
  <2> QED
    BY <2>1 DEF Sound
<1>9. ~Sound(p) => Len(IntoRaw(p).bytes) > MaxLength \/ ~FromRaw(IntoRaw(p)).ok
  <2>1. Len(body) \in Nat /\ IntoRaw(p).bytes = body
    BY <1>1, <1>3
  <2> QED
    BY <1>6, <1>7, <1>8, <2>1, WireAssumption
<1> QED
  BY <1>5, <1>6, <1>7, <1>8, <1>9 DEF Faithful

\* The decoder gives every sound packet back and refuses every other.
THEOREM PacketRoundTrip == CodecFaithful
<1>1. ASSUME NEW p \in Packets PROVE Faithful(p)
  <2>1. Sendable(p)
    BY PacketsAssumption
  <2> QED
    BY <2>1, VoiceFaithful, OtherFaithful, MessageFaithful DEF Sendable
<1> QED
  BY <1>1 DEF CodecFaithful

-----------------------------------------------------------------------------
(* The frame of a packet *)

LEMMA Quads ==
    ASSUME NEW n, U32Number(n)
    PROVE  /\ n \div 16777216 \in Byte /\ (n \div 65536) % 256 \in Byte
           /\ (n \div 256) % 256 \in Byte /\ n % 256 \in Byte
           /\ (((n \div 16777216) * 256 + ((n \div 65536) % 256)) * 256
                 + ((n \div 256) % 256)) * 256 + (n % 256) = n
<1> DEFINE x == n \div 256
           y == x \div 256
           z == y \div 256
<1>1. n \in Nat /\ n \div 65536 = y /\ n \div 16777216 = z
  BY SMT DEF U32Number
<1>2. n \in Nat /\ z <= 255
  BY <1>1 DEF U32Number, Byte
<1>3. x \in Nat /\ n = x * 256 + (n % 256) /\ n % 256 \in 0 .. 255
  BY <1>2, SMT
<1>4. y \in Nat /\ x = y * 256 + (x % 256) /\ x % 256 \in 0 .. 255
  <2> HIDE DEF x
  <2> QED
    BY <1>3, SMT
<1>5. z \in Nat /\ y = z * 256 + (y % 256) /\ y % 256 \in 0 .. 255
  <2> HIDE DEF y
  <2> QED
    BY <1>4, SMT
<1>6. z \in Byte /\ y % 256 \in Byte /\ x % 256 \in Byte /\ n % 256 \in Byte
  <2> HIDE DEF x, y, z
  <2> QED
    BY <1>2, <1>3, <1>4, <1>5, SMT DEF Byte
<1>7. ((z * 256 + (y % 256)) * 256 + (x % 256)) * 256 + (n % 256) = n
  <2> HIDE DEF x, y, z
  <2> QED
    BY <1>3, <1>4, <1>5
<1> QED
  BY <1>1, <1>6, <1>7, SMT

LEMMA Pairs ==
    ASSUME NEW n, U16Number(n)
    PROVE  /\ n \div 256 \in Byte /\ n % 256 \in Byte
           /\ (n \div 256) * 256 + (n % 256) = n
BY SMT DEF Byte, U16Number

\* id, length and body come out as they went in
LEMMA EncodeRawFacts ==
    ASSUME NEW raw \in RawPackets
    PROVE  /\ EncodeRaw(raw) \in Seq(Byte)
           /\ Len(EncodeRaw(raw)) = HeaderSize + Len(raw.bytes)
           /\ RawId(EncodeRaw(raw)) = raw.id
           /\ RawLength(EncodeRaw(raw)) = Len(raw.bytes)
           /\ \A i \in 1 .. Len(raw.bytes) : EncodeRaw(raw)[HeaderSize + i] = raw.bytes[i]
<1> DEFINE len == Len(raw.bytes)
           a == raw.id \div 256
           b == raw.id % 256
           c == len \div 16777216
           d == (len \div 65536) % 256
           e == (len \div 256) % 256
           f == len % 256
           head == <<a, b>> \o <<c, d, e, f>>
<1>1. U16Number(raw.id) /\ raw.bytes \in Seq(Byte) /\ len \in Nat /\ U32Number(len)
  BY DEF RawPackets
<1>2. a \in Byte /\ b \in Byte /\ a * 256 + b = raw.id
  BY <1>1, Pairs
<1>3. c \in Byte /\ d \in Byte /\ e \in Byte /\ f \in Byte
      /\ ((c * 256 + d) * 256 + e) * 256 + f = len
  <2> HIDE DEF len
  <2> QED
    BY <1>1, Quads
<1>4. EncodeRaw(raw) = head \o raw.bytes
  BY DEF EncodeRaw
<1> HIDE DEF len, a, b, c, d, e, f
<1>5. /\ head \in Seq(Byte) /\ Len(head) = 6
      /\ head[1] = a /\ head[2] = b /\ head[3] = c /\ head[4] = d /\ head[5] = e /\ head[6] = f
  BY <1>2, <1>3
<1> HIDE DEF head
<1>6. /\ head \o raw.bytes \in Seq(Byte)
      /\ Len(head \o raw.bytes) = 6 + Len(raw.bytes)
      /\ \A i \in 1 .. 6 : (head \o raw.bytes)[i] = head[i]
      /\ \A i \in 1 .. Len(raw.bytes) : (head \o raw.bytes)[6 + i] = raw.bytes[i]
  <2>1. /\ head \o raw.bytes \in Seq(Byte)
        /\ Len(head \o raw.bytes) = Len(head) + Len(raw.bytes)
        /\ \A i \in 1 .. Len(head) + Len(raw.bytes) :
              (head \o raw.bytes)[i] =
                 IF i <= Len(head) THEN head[i] ELSE raw.bytes[i - Len(head)]
    BY <1>1, <1>5, ConcatProperties
  <2>2. Len(raw.bytes) \in Nat
    BY <1>1
  <2>3. ASSUME NEW i \in 1 .. Len(raw.bytes)
        PROVE  (head \o raw.bytes)[6 + i] = raw.bytes[i]
    <3>1. 6 + i \in 1 .. Len(head) + Len(raw.bytes) /\ ~(6 + i <= Len(head))
          /\ (6 + i) - Len(head) = i
      BY <1>5, <2>2
    <3> QED
      BY <2>1, <3>1
  <2> QED
    BY <1>5, <2>1, <2>2, <2>3
<1> QED
  BY <1>2, <1>3, <1>4, <1>5, <1>6 DEF RawId, RawLength, HeaderSize, len

\* Of a stream that begins with a frame some part is in the buffer. A header in
\* the buffer is the frame's header,
LEMMA HeaderInBuffer ==
    ASSUME NEW raw \in RawPackets, NEW b \in Seq(Byte), NEW w \in Seq(Byte), NEW r \in Seq(Byte),
           b \o w = EncodeRaw(raw) \o r, Len(b) >= HeaderSize
    PROVE  RawId(b) = raw.id /\ RawLength(b) = Len(raw.bytes)
<1> DEFINE e == EncodeRaw(raw)
<1>1. e \in Seq(Byte) /\ Len(e) >= 6 /\ Len(raw.bytes) \in Nat
      /\ RawId(e) = raw.id /\ RawLength(e) = Len(raw.bytes)
  <2>1. Len(raw.bytes) \in Nat
    BY DEF RawPackets
  <2> QED
    BY <2>1, EncodeRawFacts DEF HeaderSize
<1> HIDE DEF e
<1>2. \A i \in 1 .. 6 : (b \o w)[i] = b[i] /\ (e \o r)[i] = e[i]
  BY <1>1 DEF HeaderSize
<1>3. \A i \in 1 .. 6 : b[i] = e[i]
  BY <1>2 DEF e
<1> QED
  BY <1>1, <1>3 DEF RawId, RawLength

Joined(a, b) == a \o b

\* and if the buffer has as many bytes as it says, it holds the frame.
LEMMA FrameInBuffer ==
    ASSUME NEW raw \in RawPackets, NEW b \in Seq(Byte), NEW w \in Seq(Byte), NEW r \in Seq(Byte),
           b \o w = EncodeRaw(raw) \o r, HasPacket(b)
    PROVE  /\ RawPacket(b) = raw
           /\ Rest(b) \in Seq(Byte) /\ Joined(Rest(b), w) = r
<1> DEFINE e == EncodeRaw(raw)
           n == HeaderSize + Len(raw.bytes)
<1>1. RawId(b) = raw.id /\ RawLength(b) = Len(raw.bytes)
  BY HeaderInBuffer DEF HasPacket
<1>2. raw.bytes \in Seq(Byte) /\ Len(raw.bytes) \in Nat /\ raw = [id |-> raw.id, bytes |-> raw.bytes]
  BY DEF RawPackets
<1>3. n \in Nat /\ n <= Len(b) /\ Len(b) \in Nat
  BY <1>1, <1>2 DEF HasPacket, HeaderSize
<1>4. e \in Seq(Byte) /\ Len(e) = n
      /\ \A i \in 1 .. Len(raw.bytes) : e[HeaderSize + i] = raw.bytes[i]
  BY EncodeRawFacts
<1>5. b \o w = e \o r
  OBVIOUS
<1> HIDE DEF e, n
<1>6. \A i \in 1 .. n : b[i] = e[i]
  <2>1. \A i \in 1 .. n : (b \o w)[i] = b[i] /\ (e \o r)[i] = e[i]
    BY <1>3, <1>4
  <2> QED
    BY <1>5, <2>1
<1>7. SubSeq(b, HeaderSize + 1, HeaderSize + RawLength(b)) = raw.bytes
  <2> DEFINE s == SubSeq(b, HeaderSize + 1, HeaderSize + RawLength(b))
  <2>1. s \in Seq(Byte) /\ Len(s) = Len(raw.bytes)
        /\ \A i \in 1 .. Len(raw.bytes) : s[i] = b[HeaderSize + i]
    BY <1>1, <1>2, <1>3 DEF HeaderSize, n
  <2>2. \A i \in 1 .. Len(raw.bytes) : s[i] = raw.bytes[i]
    <3> SUFFICES ASSUME NEW i \in 1 .. Len(raw.bytes) PROVE s[i] = raw.bytes[i]
      OBVIOUS
    <3>1. HeaderSize + i \in 1 .. n
      BY <1>2 DEF HeaderSize, n
    <3> QED
      BY <1>4, <1>6, <2>1, <3>1
  <2> HIDE DEF s
  <2>3. s = raw.bytes
    BY <1>2, <2>1, <2>2, SeqEqual
  <2> QED
    BY <2>3 DEF s
<1>8. RawPacket(b) = raw
  BY <1>1, <1>2, <1>7 DEF RawPacket
<1> DEFINE rest == Rest(b)
<1>9. rest = SubSeq(b, n + 1, Len(b))
  BY <1>1 DEF Rest, n
<1>10. rest \in Seq(Byte) /\ Len(rest) = Len(b) - n
       /\ \A i \in 1 .. Len(rest) : rest[i] = b[n + i]
  BY <1>3, <1>9
<1> HIDE DEF rest
<1>11. rest \o w = r
  <2>1. Len(b) + Len(w) = n + Len(r) /\ Len(w) \in Nat /\ Len(r) \in Nat
    <3>1. Len(b \o w) = Len(b) + Len(w) /\ Len(w) \in Nat
      OBVIOUS
    <3>2. Len(e \o r) = Len(e) + Len(r) /\ Len(r) \in Nat
      <4>1. e \in Seq(Byte)
        BY <1>4
      <4> QED
        BY <4>1, ConcatProperties
    <3> QED
      BY <1>4, <1>5, <3>1, <3>2
  <2>2. rest \o w \in Seq(Byte) /\ Len(rest \o w) = Len(r)
    BY <1>3, <1>10, <2>1
  <2>3. ASSUME NEW i \in 1 .. Len(r) PROVE (rest \o w)[i] = r[i]
    <3>1. r[i] = (e \o r)[n + i]
      BY <1>3, <1>4
    <3>2. CASE i <= Len(rest)
      <4>1. (rest \o w)[i] = rest[i]
        BY <1>10, <3>2
      <4>2. (b \o w)[n + i] = b[n + i]
        BY <1>3, <1>10, <3>2
      <4> QED
        BY <1>5, <1>10, <3>1, <3>2, <4>1, <4>2
    <3>3. CASE i > Len(rest)
      <4>1. (rest \o w)[i] = w[i - Len(rest)]
        BY <1>10, <2>1, <2>2, <3>3
      <4>2. (b \o w)[n + i] = w[(n + i) - Len(b)]
        <5>1. n + i \in 1 .. Len(b) + Len(w) /\ ~(n + i <= Len(b))
          BY <1>3, <1>10, <2>1, <3>3
        <5> QED
          BY <5>1, ConcatProperties
      <4>3. (n + i) - Len(b) = i - Len(rest)
        BY <1>3, <1>10
      <4> QED
        BY <1>5, <3>1, <4>1, <4>2, <4>3
    <3> QED
      BY <1>3, <1>10, <2>1, <3>2, <3>3
  <2> QED
    BY <2>2, <2>3, SeqEqual
<1> QED
  BY <1>8, <1>10, <1>11 DEF rest, Joined

-----------------------------------------------------------------------------
(***************************************************************************)
(* The invariant. What is still to be decoded, read or not, is cut into    *)
(* the frames of the packets not received yet: rest[k] is the stream from  *)
(* the k-th packet on. After a break only a first part of it is left.      *)
(***************************************************************************)

BytesOf(p) == EncodeRaw(IntoRaw(p))

Framing(rest, lost) ==
    /\ rest \in [Len(received) + 1 .. Len(sent) + 1 -> Seq(Byte)]
    /\ lost \in Seq(Byte)
    /\ rest[Len(received) + 1] = (buf \o wire) \o lost
    /\ rest[Len(sent) + 1] = <<>>
    /\ \A k \in Len(received) + 1 .. Len(sent) : rest[k] = BytesOf(sent[k]) \o rest[k + 1]
    /\ writer # "broken" => lost = <<>>

\* what came out is what went in first
Prefix ==
    /\ Len(received) <= Len(sent)
    /\ \A k \in 1 .. Len(received) : received[k] = sent[k]

IInv ==
    /\ TypeOK /\ Prefix /\ FailsOnlyOnUnsound
    /\ reader \in {"reading", "decoding"} => \E rest, lost : Framing(rest, lost)
    /\ reader = "reading" => ~HasPacket(buf) /\ ~TooLong(buf)

-----------------------------------------------------------------------------
LEMMA BytesOfType ==
    ASSUME CodecFaithful, NEW p \in Packets
    PROVE  BytesOf(p) \in Seq(Byte)
BY EncodeRawFacts DEF CodecFaithful, Faithful, BytesOf

LEMMA Counts ==
    ASSUME TypeOK
    PROVE  /\ Len(sent) \in Nat /\ Len(received) \in Nat
           /\ Len(wire) \in Nat /\ Len(buf) \in Nat
BY DEF TypeOK

LEMMA ConcatAssoc ==
    ASSUME NEW a \in Seq(Byte), NEW b \in Seq(Byte), NEW c \in Seq(Byte)
    PROVE  (a \o b) \o c = a \o (b \o c) /\ a \o b \in Seq(Byte)
OBVIOUS

\* The bytes in the buffer and those of the first packet that is not received.
LEMMA FirstFrame ==
    ASSUME TypeOK, CodecFaithful, Prefix, NEW rest, NEW lost, Framing(rest, lost),
           Len(buf) >= HeaderSize
    PROVE  LET p == sent[Len(received) + 1]
               r == rest[Len(received) + 2]
           IN  /\ Len(received) < Len(sent) /\ p \in Packets
               /\ r \in Seq(Byte)
               /\ buf \o (wire \o lost) = BytesOf(p) \o r
               /\ wire \o lost \in Seq(Byte)
<1> DEFINE n == Len(received)
           p == sent[n + 1]
           r == rest[n + 2]
<1>1. Len(sent) \in Nat /\ n \in Nat /\ n <= Len(sent) /\ Len(buf) \in Nat
  BY Counts DEF Prefix
<1>2. buf \in Seq(Byte) /\ wire \in Seq(Byte) /\ lost \in Seq(Byte)
  BY DEF TypeOK, Framing
<1>3. (buf \o wire) \o lost = buf \o (wire \o lost) /\ wire \o lost \in Seq(Byte)
  BY <1>2, ConcatAssoc
<1>4. n # Len(sent)
  <2>1. SUFFICES ASSUME n = Len(sent) PROVE FALSE
    OBVIOUS
  <2>2. buf \o (wire \o lost) = <<>>
    BY <1>3, <2>1 DEF Framing
  <2>3. buf = <<>>
    BY <1>2, <1>3, <2>2, ConcatEqualIffEmpty
  <2> QED
    BY <2>3 DEF HeaderSize
<1>5. n + 1 \in n + 1 .. Len(sent) /\ n + 2 \in n + 1 .. Len(sent) + 1 /\ n + 1 \in 1 .. Len(sent)
      /\ (n + 1) + 1 = n + 2
  BY <1>1, <1>4
<1>6. rest[n + 1] = BytesOf(p) \o r /\ r \in Seq(Byte)
  <2>1. rest[n + 1] = BytesOf(sent[n + 1]) \o rest[(n + 1) + 1]
    BY <1>5 DEF Framing
  <2>2. rest \in [n + 1 .. Len(sent) + 1 -> Seq(Byte)]
    BY DEF Framing
  <2> QED
    BY <1>5, <2>1, <2>2
<1>7. p \in Packets
  BY <1>5 DEF TypeOK
<1>8. rest[n + 1] = (buf \o wire) \o lost
  BY DEF Framing
<1> QED
  BY <1>1, <1>3, <1>4, <1>6, <1>7, <1>8

\* decode takes the first packet that is not received out of the buffer
LEMMA FirstPacket ==
    ASSUME TypeOK, CodecFaithful, Prefix, NEW rest, NEW lost, Framing(rest, lost),
           HasPacket(buf)
    PROVE  LET p == sent[Len(received) + 1]
           IN  /\ Len(received) < Len(sent) /\ p \in Packets
               /\ RawPacket(buf) = IntoRaw(p) /\ Len(IntoRaw(p).bytes) <= MaxLength
               /\ Rest(buf) \in Seq(Byte)
               /\ (Rest(buf) \o wire) \o lost = rest[Len(received) + 2]
<1> DEFINE p == sent[Len(received) + 1]
           r == rest[Len(received) + 2]
           w == wire \o lost
<1>1. /\ Len(received) < Len(sent) /\ p \in Packets
      /\ r \in Seq(Byte)
      /\ buf \o w = BytesOf(p) \o r
      /\ w \in Seq(Byte)
  BY FirstFrame DEF HasPacket
<1>2. IntoRaw(p) \in RawPackets
  BY <1>1 DEF CodecFaithful, Faithful
<1>3. buf \in Seq(Byte) /\ wire \in Seq(Byte) /\ lost \in Seq(Byte)
  BY DEF TypeOK, Framing
<1> DEFINE raw == IntoRaw(p)
<1>4. raw \in RawPackets /\ buf \o w = EncodeRaw(raw) \o r
  BY <1>1, <1>2 DEF BytesOf
<1> HIDE DEF p, r, w, raw
<1>5. RawPacket(buf) = raw /\ Rest(buf) \in Seq(Byte) /\ Rest(buf) \o w = r
  <2>1. /\ raw \in RawPackets /\ buf \in Seq(Byte) /\ w \in Seq(Byte) /\ r \in Seq(Byte)
        /\ buf \o w = EncodeRaw(raw) \o r /\ HasPacket(buf)
    BY <1>1, <1>3, <1>4
  <2>2. RawPacket(buf) = raw /\ Rest(buf) \in Seq(Byte) /\ Joined(Rest(buf), w) = r
    BY <2>1, FrameInBuffer
  <2> QED
    BY <2>2 DEF Joined
<1>6. Len(raw.bytes) <= MaxLength
  <2>1. RawLength(buf) = Len(raw.bytes)
    BY <1>1, <1>3, <1>4, HeaderInBuffer DEF HasPacket
  <2> QED
    BY <2>1 DEF HasPacket
<1>7. (Rest(buf) \o wire) \o lost = Rest(buf) \o w
  BY <1>3, <1>5, ConcatAssoc DEF w
<1> QED
  BY <1>1, <1>5, <1>6, <1>7 DEF p, r, raw

LEMMA InitIInv == ASSUME CodecFaithful PROVE Init => IInv
<1> SUFFICES ASSUME Init PROVE IInv
  OBVIOUS
<1>1. TypeOK
  BY WireAssumption DEF Init, TypeOK
<1>2. Prefix
  BY DEF Init, Prefix
<1>3. Framing([k \in 1 .. 1 |-> <<>>], <<>>)
  <2>1. <<>> \in Seq(Byte) /\ (<<>> \o <<>>) \o <<>> = <<>> /\ Len(<<>>) + 1 = 1
    OBVIOUS
  <2>2. Len(received) + 1 = 1 /\ Len(sent) + 1 = 1 /\ Len(sent) = 0
    BY DEF Init
  <2> QED
    BY <2>1, <2>2 DEF Init, Framing
<1>4. ~HasPacket(buf) /\ ~TooLong(buf)
  BY DEF Init, HasPacket, TooLong, HeaderSize
<1> QED
  BY <1>1, <1>2, <1>3, <1>4 DEF IInv, FailsOnlyOnUnsound, Init

LEMMA SendIInv == ASSUME CodecFaithful, IInv, NEW p \in Packets, Send(p) PROVE IInv'
<1>1. TypeOK /\ Prefix /\ BytesOf(p) \in Seq(Byte)
  BY BytesOfType DEF IInv
<1>2. Len(sent) \in Nat /\ Len(received) \in Nat /\ Len(received) <= Len(sent)
  BY <1>1, Counts DEF Prefix
<1>3. /\ sent' = Append(sent, p) /\ wire' = wire \o BytesOf(p) /\ writer = "open"
      /\ UNCHANGED <<buf, received, writer, reader>>
  BY DEF Send, BytesOf
<1>4. /\ sent' \in Seq(Packets) /\ Len(sent') = Len(sent) + 1
      /\ sent'[Len(sent) + 1] = p
      /\ \A k \in 1 .. Len(sent) : sent'[k] = sent[k]
  BY <1>1, <1>3, AppendProperties DEF TypeOK
<1>5. wire \in Seq(Byte) /\ buf \in Seq(Byte) /\ wire' \in Seq(Byte)
  BY <1>1, <1>3 DEF TypeOK
<1>6. TypeOK'
  <2>1. Len(sent') <= MaxSent
    BY <1>2, <1>4, WireAssumption DEF Send
  <2> QED
    BY <1>1, <1>3, <1>4, <1>5, <2>1 DEF TypeOK
<1>7. Prefix'
  <2>1. Len(received') <= Len(sent')
    BY <1>2, <1>3, <1>4
  <2>2. \A k \in 1 .. Len(received) : k \in 1 .. Len(sent)
    BY <1>2
  <2> QED
    BY <1>1, <1>3, <1>4, <2>1, <2>2 DEF Prefix
<1>8. FailsOnlyOnUnsound'
  <2>1. SUFFICES ASSUME reader = "failed"
                 PROVE  Len(received) < Len(sent') /\ ~Sound(sent'[Len(received) + 1])
    BY <1>3 DEF FailsOnlyOnUnsound, Sound
  <2>2. Len(received) < Len(sent) /\ ~Sound(sent[Len(received) + 1])
    BY <1>3, <2>1 DEF IInv, FailsOnlyOnUnsound
  <2>3. Len(received) + 1 \in 1 .. Len(sent) /\ Len(received) < Len(sent')
    BY <1>2, <1>4, <2>2
  <2> QED
    BY <1>4, <2>2, <2>3
<1>9. ASSUME NEW rest, NEW lost, Framing(rest, lost)
      PROVE  \E r, l : Framing(r, l)'
  <2> DEFINE n == Len(received)
             m == Len(sent)
             e == BytesOf(p)
  <2>1. PICK r : r = [k \in n + 1 .. m + 2 |-> IF k = m + 2 THEN <<>> ELSE rest[k] \o e]
    OBVIOUS
  <2>2. \A k \in n + 1 .. m + 1 : rest[k] \in Seq(Byte)
    BY <1>9 DEF Framing
  <2>3. r \in [n + 1 .. m + 2 -> Seq(Byte)]
    <3>1. ASSUME NEW k \in n + 1 .. m + 2, k # m + 2 PROVE rest[k] \o e \in Seq(Byte)
      <4>1. k \in n + 1 .. m + 1
        BY <1>2, <3>1
      <4> QED
        BY <1>1, <2>2, <4>1
    <3> QED
      BY <2>1, <3>1
  <2>4. lost = <<>>
    BY <1>3, <1>9 DEF Framing
  <2>5. r[n + 1] = (buf \o wire') \o <<>>
    <3>1. n + 1 \in n + 1 .. m + 2 /\ n + 1 # m + 2
      BY <1>2
    <3>2. rest[n + 1] = (buf \o wire) \o <<>>
      BY <1>9, <2>4 DEF Framing
    <3>3. /\ (buf \o wire) \o <<>> = buf \o wire
          /\ (buf \o wire') \o <<>> = buf \o wire'
      BY <1>5
    <3>4. (buf \o wire) \o e = buf \o (wire \o e)
      BY <1>1, <1>5, ConcatAssoc
    <3> QED
      BY <1>3, <2>1, <3>1, <3>2, <3>3, <3>4
  <2>6. r[m + 2] = <<>>
    BY <1>2, <2>1
  <2>7. ASSUME NEW k \in n + 1 .. m + 1
        PROVE  r[k] = BytesOf(sent'[k]) \o r[k + 1]
    <3>1. k \in n + 1 .. m + 2 /\ k # m + 2 /\ k + 1 \in n + 1 .. m + 2
      BY <1>2
    <3>2. r[k] = rest[k] \o e
      BY <2>1, <3>1
    <3>3. CASE k = m + 1
      <4>1. rest[k] = <<>>
        BY <1>9, <3>3 DEF Framing
      <4>2. r[k + 1] = <<>> /\ sent'[k] = p
        BY <1>2, <1>4, <2>6, <3>3
      <4> QED
        BY <1>1, <3>2, <4>1, <4>2
    <3>4. CASE k # m + 1
      <4>1. k \in n + 1 .. m /\ k \in 1 .. m /\ k + 1 # m + 2 /\ k + 1 \in n + 1 .. m + 1
        BY <1>2, <3>4
      <4>2. rest[k] = BytesOf(sent[k]) \o rest[k + 1] /\ sent'[k] = sent[k]
        BY <1>4, <1>9, <4>1 DEF Framing
      <4>3. r[k + 1] = rest[k + 1] \o e
        BY <2>1, <3>1, <4>1
      <4>4. BytesOf(sent[k]) \in Seq(Byte) /\ rest[k + 1] \in Seq(Byte)
        <5>1. sent[k] \in Packets
          BY <1>1, <4>1 DEF TypeOK
        <5> QED
          BY <2>2, <4>1, <5>1, BytesOfType
      <4>5. (BytesOf(sent[k]) \o rest[k + 1]) \o e = BytesOf(sent[k]) \o (rest[k + 1] \o e)
        BY <1>1, <4>4, ConcatAssoc
      <4> QED
        BY <3>2, <4>2, <4>3, <4>5
    <3> QED
      BY <3>3, <3>4
  <2>8. Framing(r, lost)'
    <3>1. Len(received') = n /\ Len(sent') = m + 1 /\ (m + 1) + 1 = m + 2
      BY <1>2, <1>3, <1>4
    <3>2. \A k \in n + 1 .. m + 1 : r[k] = BytesOf(sent[k])' \o r[k + 1]
      BY <2>7
    <3>3. r \in [Len(received') + 1 .. Len(sent') + 1 -> Seq(Byte)] /\ lost \in Seq(Byte)
      BY <2>3, <2>4, <3>1
    <3>4. r[Len(received') + 1] = (buf' \o wire') \o lost /\ r[Len(sent') + 1] = <<>>
      BY <1>3, <2>4, <2>5, <2>6, <3>1
    <3>5. \A k \in Len(received') + 1 .. Len(sent') : r[k] = BytesOf(sent[k])' \o r[k + 1]
      BY <3>1, <3>2
    <3> QED
      BY <2>4, <3>3, <3>4, <3>5 DEF Framing
  <2> QED
    BY <2>8
<1> QED
  BY <1>3, <1>6, <1>7, <1>8, <1>9 DEF IInv, HasPacket, TooLong

LEMMA FramingKept ==
    ASSUME NEW rest, NEW lost, NEW l \in Seq(Byte), Framing(rest, lost),
           UNCHANGED <<sent, received>>,
           Joined(Joined(buf', wire'), l) = Joined(Joined(buf, wire), lost),
           writer' # "broken" => l = <<>>
    PROVE  Framing(rest, l)'
BY DEF Framing, Joined

LEMMA CloseIInv == ASSUME CodecFaithful, IInv, Close PROVE IInv'
<1>1. /\ UNCHANGED <<sent, wire, buf, received, reader>>
      /\ writer = "open" /\ writer' = "closed"
  BY DEF Close
<1>2. \A rest, lost : Framing(rest, lost) => Framing(rest, lost)'
  BY <1>1 DEF Framing
<1> QED
  BY <1>1, <1>2 DEF IInv, TypeOK, Prefix, FailsOnlyOnUnsound, HasPacket, TooLong

LEMMA BreakIInv == ASSUME CodecFaithful, IInv, Break PROVE IInv'
<1>1. /\ UNCHANGED <<sent, buf, received, reader>> /\ wire' = <<>>
      /\ writer = "open" /\ writer' = "broken"
  BY DEF Break
<1>2. ASSUME NEW rest, NEW lost, Framing(rest, lost)
      PROVE  \E r, l : Framing(r, l)'
  <2>1. PICK l : l = wire \o lost
    OBVIOUS
  <2>2. buf \in Seq(Byte) /\ wire \in Seq(Byte) /\ lost \in Seq(Byte)
    BY <1>2 DEF IInv, TypeOK, Framing
  <2>3. l \in Seq(Byte) /\ (buf \o <<>>) \o l = (buf \o wire) \o lost
    <3>1. buf \o <<>> = buf
      BY <2>2
    <3> QED
      BY <2>1, <2>2, <3>1, ConcatAssoc
  <2>4. Joined(Joined(buf', wire'), l) = Joined(Joined(buf, wire), lost)
    BY <1>1, <2>3 DEF Joined
  <2>5. Framing(rest, l)'
    BY <1>1, <1>2, <2>3, <2>4, FramingKept
  <2> QED
    BY <2>5
<1>3. TypeOK'
  BY <1>1 DEF IInv, TypeOK
<1> QED
  BY <1>1, <1>2, <1>3 DEF IInv, Prefix, FailsOnlyOnUnsound, HasPacket, TooLong

LEMMA ReadIInv == ASSUME CodecFaithful, IInv, NEW size \in ReadSizes, Read(size) PROVE IInv'
<1>1. size \in Nat \ {0} /\ wire \in Seq(Byte) /\ buf \in Seq(Byte) /\ Len(wire) \in Nat
  BY WireAssumption DEF IInv, TypeOK
<1> DEFINE k == IF size < Len(wire) THEN size ELSE Len(wire)
           a == SubSeq(wire, 1, k)
           b == SubSeq(wire, k + 1, Len(wire))
<1>2. /\ buf' = buf \o a /\ wire' = b /\ reader = "reading" /\ reader' = "decoding"
      /\ UNCHANGED <<sent, received, writer>>
  BY DEF Read
<1>3. k \in 0 .. Len(wire)
  BY <1>1
<1> HIDE DEF k
<1>4. a \in Seq(Byte) /\ b \in Seq(Byte)
  BY <1>1, <1>3
<1>5. a \o b = wire
  <2>1. SubSeq(wire, 1, Len(wire)) = wire
    BY <1>1, SubSeqFull
  <2>2. 1 \in 1 .. Len(wire) + 1 /\ k \in 1 - 1 .. Len(wire) /\ Len(wire) \in k .. Len(wire)
    BY <1>1, <1>3
  <2>3. a \o b = SubSeq(wire, 1, Len(wire))
    BY <1>1, <2>2, ConcatAdjacentSubSeq
  <2> QED
    BY <2>1, <2>3
<1> HIDE DEF a, b
<1>6. buf' \in Seq(Byte) /\ wire' \in Seq(Byte) /\ buf' \o wire' = buf \o wire
  <2>1. (buf \o a) \o b = buf \o (a \o b) /\ buf \o a \in Seq(Byte)
    BY <1>1, <1>4, ConcatAssoc
  <2> QED
    BY <1>2, <1>4, <1>5, <2>1
<1>7. \A rest, lost : Framing(rest, lost) => Framing(rest, lost)'
  <2> SUFFICES ASSUME NEW rest, NEW lost, Framing(rest, lost) PROVE Framing(rest, lost)'
    OBVIOUS
  <2>1. Joined(Joined(buf', wire'), lost) = Joined(Joined(buf, wire), lost)
    BY <1>6 DEF Joined
  <2>2. lost \in Seq(Byte) /\ (writer' # "broken" => lost = <<>>)
    BY <1>2 DEF Framing
  <2> QED
    BY <1>2, <2>1, <2>2, FramingKept
<1>8. TypeOK'
  BY <1>2, <1>6 DEF IInv, TypeOK
<1> QED
  BY <1>2, <1>7, <1>8 DEF IInv, Prefix, FailsOnlyOnUnsound

LEMMA DecodePacketSent ==
    ASSUME CodecFaithful, IInv, DecodePacket
    PROVE  /\ Len(received) < Len(sent)
           /\ received' = Append(received, sent[Len(received) + 1])
<1>1. PICK rest, lost : Framing(rest, lost)
  BY DEF IInv, DecodePacket
<1> DEFINE p == sent[Len(received) + 1]
<1>2. /\ Len(received) < Len(sent) /\ p \in Packets
      /\ RawPacket(buf) = IntoRaw(p) /\ Len(IntoRaw(p).bytes) <= MaxLength
  BY <1>1, FirstPacket DEF IInv, DecodePacket
<1>3. FromRaw(IntoRaw(p)).ok /\ received' = Append(received, FromRaw(IntoRaw(p)).packet)
  BY <1>2 DEF DecodePacket
<1>4. Faithful(p)
  BY <1>2 DEF CodecFaithful
<1>5. Len(IntoRaw(p).bytes) \in Nat
  BY <1>4 DEF Faithful, RawPackets
<1>6. Sound(p)
  BY <1>2, <1>3, <1>4, <1>5, WireAssumption DEF Faithful
<1>7. FromRaw(IntoRaw(p)).packet = p
  BY <1>4, <1>6 DEF Faithful
<1> QED
  BY <1>2, <1>3, <1>7

LEMMA DecodePacketIInv == ASSUME CodecFaithful, IInv, DecodePacket PROVE IInv'
<1>1. TypeOK /\ Prefix
  BY DEF IInv
<1>2. Len(sent) \in Nat /\ Len(received) \in Nat
  BY <1>1, Counts
<1> DEFINE n == Len(received)
           p == sent[n + 1]
<1>3. n < Len(sent) /\ received' = Append(received, p)
  BY DecodePacketSent
<1>4. /\ buf' = Rest(buf) /\ reader = "decoding" /\ HasPacket(buf)
      /\ UNCHANGED <<sent, wire, writer, reader>>
  BY DEF DecodePacket
<1>5. PICK rest, lost : Framing(rest, lost)
  BY <1>4 DEF IInv
<1>6. /\ p \in Packets /\ Rest(buf) \in Seq(Byte)
      /\ (Rest(buf) \o wire) \o lost = rest[n + 2]
  BY <1>1, <1>4, <1>5, FirstPacket
<1>7. /\ received' \in Seq(Packets) /\ Len(received') = n + 1 /\ received'[n + 1] = p
      /\ \A k \in 1 .. n : received'[k] = received[k]
  BY <1>1, <1>3, <1>6, AppendProperties DEF TypeOK
<1>8. TypeOK'
  BY <1>1, <1>4, <1>6, <1>7 DEF TypeOK
<1>9. Prefix'
  <2>1. n + 1 <= Len(sent)
    BY <1>2, <1>3
  <2>2. ASSUME NEW k \in 1 .. n + 1 PROVE received'[k] = sent[k]
    <3>1. CASE k = n + 1
      BY <1>7, <3>1
    <3>2. CASE k # n + 1
      <4>1. k \in 1 .. n
        BY <1>2, <3>2
      <4> QED
        BY <1>1, <1>7, <4>1 DEF Prefix
    <3> QED
      BY <3>1, <3>2
  <2> QED
    BY <1>4, <1>7, <2>1, <2>2 DEF Prefix
<1>10. PICK r : r = [k \in n + 2 .. Len(sent) + 1 |-> rest[k]]
  OBVIOUS
<1>11. Framing(r, lost)'
  <2>1. rest \in [n + 1 .. Len(sent) + 1 -> Seq(Byte)] /\ lost \in Seq(Byte)
        /\ (writer # "broken" => lost = <<>>) /\ rest[Len(sent) + 1] = <<>>
        /\ \A k \in n + 1 .. Len(sent) : rest[k] = BytesOf(sent[k]) \o rest[k + 1]
    BY <1>5 DEF Framing
  <2>2. \A k \in n + 2 .. Len(sent) + 1 : k \in n + 1 .. Len(sent) + 1 /\ r[k] = rest[k]
    BY <1>2, <1>10
  <2>3. r \in [n + 2 .. Len(sent) + 1 -> Seq(Byte)]
    BY <1>10, <2>1, <2>2
  <2>4. n + 2 \in n + 2 .. Len(sent) + 1 /\ Len(sent) + 1 \in n + 2 .. Len(sent) + 1
        /\ Len(received') + 1 = n + 2 /\ Len(sent') = Len(sent)
    BY <1>2, <1>3, <1>4, <1>7
  <2>5. r[n + 2] = (buf' \o wire') \o lost /\ r[Len(sent) + 1] = <<>>
    BY <1>4, <1>6, <2>1, <2>2, <2>4
  <2>6. ASSUME NEW k \in n + 2 .. Len(sent) PROVE r[k] = BytesOf(sent'[k]) \o r[k + 1]
    <3>1. k \in n + 1 .. Len(sent) /\ k \in n + 2 .. Len(sent) + 1 /\ k + 1 \in n + 2 .. Len(sent) + 1
      BY <1>2
    <3> QED
      BY <1>4, <2>1, <2>2, <3>1
  <2> QED
    BY <1>4, <2>1, <2>3, <2>4, <2>5, <2>6 DEF Framing
<1> QED
  BY <1>4, <1>8, <1>9, <1>11 DEF IInv, FailsOnlyOnUnsound

LEMMA DecodeNoneIInv == ASSUME CodecFaithful, IInv, DecodeNone PROVE IInv'
<1>1. /\ UNCHANGED <<sent, wire, buf, received, writer>>
      /\ reader = "decoding" /\ reader' = "reading" /\ ~HasPacket(buf) /\ ~TooLong(buf)
  BY DEF DecodeNone
<1>2. \A rest, lost : Framing(rest, lost) => Framing(rest, lost)'
  BY <1>1 DEF Framing
<1> QED
  BY <1>1, <1>2 DEF IInv, TypeOK, Prefix, FailsOnlyOnUnsound, HasPacket, TooLong

LEMMA DecodeErrorIInv == ASSUME CodecFaithful, IInv, DecodeError PROVE IInv'
<1>1. TypeOK /\ Prefix /\ reader = "decoding"
  BY DEF IInv, DecodeError
<1>2. PICK rest, lost : Framing(rest, lost)
  BY <1>1 DEF IInv
<1> DEFINE p == sent[Len(received) + 1]
<1>3. CASE TooLong(buf) /\ UNCHANGED buf
  <2>1. Len(buf) >= HeaderSize /\ RawLength(buf) > MaxLength
    BY <1>3 DEF TooLong
  <2> DEFINE r == rest[Len(received) + 2]
             w == wire \o lost
             raw == IntoRaw(p)
  <2>2. /\ Len(received) < Len(sent) /\ p \in Packets /\ r \in Seq(Byte)
        /\ buf \o w = BytesOf(p) \o r /\ w \in Seq(Byte)
    BY <1>1, <1>2, <2>1, FirstFrame
  <2>3. raw \in RawPackets /\ buf \o w = EncodeRaw(raw) \o r /\ buf \in Seq(Byte)
    BY <1>1, <2>2 DEF CodecFaithful, Faithful, BytesOf, TypeOK
  <2>4. RawLength(buf) = Len(raw.bytes)
    <3> HIDE DEF raw, r, w
    <3> QED
      BY <2>1, <2>2, <2>3, HeaderInBuffer
  <2>5. Len(raw.bytes) \in Nat
    BY <2>3 DEF RawPackets
  <2>6. ~Sound(p)
    BY <2>1, <2>4, <2>5, WireAssumption DEF Sound
  <2> QED
    BY <1>1, <1>3, <2>2, <2>6 DEF DecodeError, IInv, TypeOK, Prefix, FailsOnlyOnUnsound
<1>4. CASE HasPacket(buf) /\ ~FromRaw(RawPacket(buf)).ok /\ buf' = Rest(buf)
  <2>1. /\ Len(received) < Len(sent) /\ p \in Packets /\ RawPacket(buf) = IntoRaw(p)
        /\ Rest(buf) \in Seq(Byte)
    BY <1>1, <1>2, <1>4, FirstPacket
  <2>2. ~Sound(p)
    BY <1>4, <2>1 DEF CodecFaithful, Faithful
  <2> QED
    BY <1>1, <1>4, <2>1, <2>2 DEF DecodeError, IInv, TypeOK, Prefix, FailsOnlyOnUnsound
<1> QED
  BY <1>3, <1>4 DEF DecodeError

\* No whole packet stays in the buffer, and no part of one once all is read.
LEMMA Withheld == ASSUME CodecFaithful, IInv PROVE NothingWithheld
<1> SUFFICES ASSUME reader = "reading", wire = <<>>, writer # "broken"
             PROVE  received = sent /\ buf = <<>>
  BY DEF NothingWithheld
<1>1. TypeOK /\ Prefix /\ ~HasPacket(buf) /\ ~TooLong(buf)
  BY DEF IInv
<1>2. PICK rest, lost : Framing(rest, lost)
  BY DEF IInv
<1> DEFINE n == Len(received)
<1>3. Len(sent) \in Nat /\ n \in Nat /\ n <= Len(sent) /\ buf \in Seq(Byte) /\ Len(buf) \in Nat
  BY <1>1, Counts DEF TypeOK, Prefix
<1>4. rest[n + 1] = buf
  <2>1. rest[n + 1] = (buf \o <<>>) \o <<>>
    BY <1>2 DEF Framing
  <2> QED
    BY <1>3, <2>1
<1>5. n = Len(sent)
  <2>1. SUFFICES ASSUME n < Len(sent) PROVE FALSE
    BY <1>3
  <2> DEFINE p == sent[n + 1]
             r == rest[n + 2]
             raw == IntoRaw(p)
  <2>2. n + 1 \in n + 1 .. Len(sent) /\ n + 1 \in 1 .. Len(sent) /\ (n + 1) + 1 = n + 2
        /\ n + 2 \in n + 1 .. Len(sent) + 1
    BY <1>3, <2>1
  <2>3. p \in Packets /\ r \in Seq(Byte)
    <3>1. rest \in [n + 1 .. Len(sent) + 1 -> Seq(Byte)]
      BY <1>2 DEF Framing
    <3>2. r \in Seq(Byte)
      BY <2>2, <3>1
    <3>3. p \in Packets
      BY <1>1, <2>2 DEF TypeOK
    <3> QED
      BY <3>2, <3>3
  <2>4. raw \in RawPackets
    BY <2>3 DEF CodecFaithful, Faithful
  <2>5. buf = EncodeRaw(raw) \o r
    <3>1. rest[n + 1] = BytesOf(p) \o rest[(n + 1) + 1]
      BY <1>2, <2>2 DEF Framing
    <3> QED
      BY <1>4, <2>2, <3>1 DEF BytesOf
  <2> HIDE DEF p, r, raw
  <2>6. Len(buf) >= HeaderSize + Len(raw.bytes) /\ Len(raw.bytes) \in Nat
    <3>1. EncodeRaw(raw) \in Seq(Byte) /\ Len(EncodeRaw(raw)) = HeaderSize + Len(raw.bytes)
      BY <2>4, EncodeRawFacts
    <3>2. Len(EncodeRaw(raw) \o r) = Len(EncodeRaw(raw)) + Len(r) /\ Len(r) \in Nat
      BY <2>3, <3>1, ConcatProperties
    <3>3. Len(raw.bytes) \in Nat
      BY <2>4 DEF RawPackets
    <3> QED
      BY <2>5, <3>1, <3>2, <3>3 DEF HeaderSize
  <2>7. RawLength(buf) = Len(raw.bytes)
    <3>1. buf \o <<>> = EncodeRaw(raw) \o r /\ <<>> \in Seq(Byte)
      BY <1>3, <2>5
    <3>2. Len(buf) >= HeaderSize
      BY <1>3, <2>6 DEF HeaderSize
    <3> QED
      BY <1>3, <2>3, <2>4, <3>1, <3>2, HeaderInBuffer
  <2> QED
    BY <1>1, <1>3, <2>6, <2>7, WireAssumption DEF HasPacket, TooLong, HeaderSize
<1>6. buf = <<>>
  BY <1>2, <1>4, <1>5 DEF Framing
<1>7. received = sent
  <2>1. received \in Seq(Packets) /\ sent \in Seq(Packets)
        /\ \A k \in 1 .. Len(received) : received[k] = sent[k]
    BY <1>1 DEF TypeOK, Prefix
  <2> QED
    BY <1>5, <2>1, SeqEqual
<1> QED
  BY <1>6, <1>7

LEMMA EofIInv == ASSUME CodecFaithful, IInv, Eof PROVE IInv'
<1>1. /\ UNCHANGED <<sent, wire, buf, received, writer>>
      /\ reader = "reading" /\ wire = <<>> /\ writer # "open"
      /\ reader' = IF buf = <<>> THEN "closed" ELSE "failed"
  BY DEF Eof
<1>2. reader' = "failed" => writer = "broken"
  BY <1>1, Withheld DEF NothingWithheld
<1> QED
  BY <1>1, <1>2 DEF IInv, TypeOK, Prefix, FailsOnlyOnUnsound

LEMMA NextIInv == ASSUME CodecFaithful, IInv, [Next]_vars PROVE IInv'
<1>1. CASE UNCHANGED vars
  <2>1. UNCHANGED <<sent, wire, buf, received, writer, reader>>
    BY <1>1 DEF vars
  <2>2. \A rest, lost : Framing(rest, lost) => Framing(rest, lost)'
    BY <2>1 DEF Framing
  <2> QED
    BY <2>1, <2>2 DEF IInv, TypeOK, Prefix, FailsOnlyOnUnsound, HasPacket, TooLong
<1>2. CASE Ended
  BY <1>1, <1>2 DEF Ended
<1> QED
  BY <1>1, <1>2, SendIInv, CloseIInv, BreakIInv, ReadIInv, DecodePacketIInv, DecodeNoneIInv,
     DecodeErrorIInv, EofIInv DEF Next, Framed

-----------------------------------------------------------------------------
\* The hypothesis of the lemmas above holds.
LEMMA Start == Init => IInv
BY PacketRoundTrip, InitIInv

LEMMA Step == IInv /\ [Next]_vars => IInv'
BY PacketRoundTrip, NextIInv

\* Buffers hold bytes and the tasks are given packets that were sent, whatever
\* the packets, the reads and the breaks.
THEOREM TypeCorrect == Spec => []TypeOK
<1>1. IInv => TypeOK
  BY DEF IInv
<1> QED
  BY Start, Step, <1>1, PTL DEF Spec

\* When Framed waits for more bytes and none are on their way, decode has
\* returned every packet that was sent.
THEOREM AllDecoded == Spec => []NothingWithheld
<1>1. IInv => NothingWithheld
  BY PacketRoundTrip, Withheld
<1> QED
  BY Start, Step, <1>1, PTL DEF Spec

\* decode and decode_eof return an error only for a packet that is not sound, or
\* on a connection that broke off within one.
THEOREM OnlyUnsoundFails == Spec => []FailsOnlyOnUnsound
<1>1. IInv => FailsOnlyOnUnsound
  BY DEF IInv
<1> QED
  BY Start, Step, <1>1, PTL DEF Spec

\* Encoder, network and decoder together are the channel of packets: each step
\* sends a packet, receives the next one, ends the channel or changes nothing.
THEOREM ImplementsChannel == Spec => InOrder
<1>1. Init => Channel!Init
  BY DEF Init, Channel!Init
<1>2. ASSUME IInv, [Next]_vars PROVE [Channel!Next]_(Channel!vars)
  <2>1. CASE UNCHANGED vars
    BY <2>1 DEF vars, Channel!vars
  <2>2. ASSUME NEW p \in Packets, Send(p) PROVE Channel!Next
    BY <2>2 DEF Send, Channel!Next, Channel!Send
  <2>3. CASE Close \/ Break \/ DecodeNone \/ \E size \in ReadSizes : Read(size)
    BY <2>3 DEF Close, Break, DecodeNone, Read, Channel!vars
  <2>4. CASE DecodePacket
    <3>1. Len(received) < Len(sent) /\ received' = Append(received, sent[Len(received) + 1])
      BY <1>2, <2>4, PacketRoundTrip, DecodePacketSent
    <3> QED
      BY <2>4, <3>1 DEF DecodePacket, Channel!Next, Channel!Receive
  <2>5. CASE DecodeError \/ Eof
    BY <2>5 DEF DecodeError, Eof, Channel!Next, Channel!End
  <2>6. CASE Ended
    BY <2>1, <2>6 DEF Ended
  <2> QED
    BY <1>2, <2>1, <2>2, <2>3, <2>4, <2>5, <2>6 DEF Next, Framed
<1> QED
  BY Start, Step, <1>1, <1>2, PTL DEF Spec, InOrder, Channel!Spec

LEMMA LengthNat ==
    ASSUME NEW b \in Seq(Byte), Len(b) >= 6
    PROVE  RawLength(b) \in Nat
<1>1. b[3] \in Byte /\ b[4] \in Byte /\ b[5] \in Byte /\ b[6] \in Byte
  OBVIOUS
<1>2. \A x \in Byte : x \in Nat
  BY DEF Byte
<1>3. \A w, x, y, z \in Nat : ((w * 256 + x) * 256 + y) * 256 + z \in Nat
  BY SMT
<1> DEFINE w == b[3]
           x == b[4]
           y == b[5]
           z == b[6]
<1>4. w \in Nat /\ x \in Nat /\ y \in Nat /\ z \in Nat
  BY <1>1, <1>2
<1>5. RawLength(b) = ((w * 256 + x) * 256 + y) * 256 + z
  BY DEF RawLength
<1> HIDE DEF w, x, y, z
<1> QED
  BY <1>3, <1>4, <1>5

\* The parts that PartsRefused speaks of are proper parts of the encoding of the
\* packet that decode returns.
LEMMA DecodedParts ==
    ASSUME IInv, DecodePacket, NEW k \in 0 .. RawLength(buf) - 1,
           LET p == received'[Len(received')]
           IN  p.name = "UDPTunnel" /\ (p.body.kind # Ping => p.body.position = <<>>)
    PROVE  ~Decode(Dst, SubSeq(buf, HeaderSize + 1, HeaderSize + k)).ok
<1> DEFINE p == sent[Len(received) + 1]
           body == p.body
           part == SubSeq(buf, HeaderSize + 1, HeaderSize + k)
<1>1. PICK rest, lost : Framing(rest, lost)
  BY DEF IInv, DecodePacket
<1>2. /\ TypeOK /\ p \in Packets /\ RawPacket(buf) = IntoRaw(p)
  BY <1>1, PacketRoundTrip, FirstPacket DEF IInv, DecodePacket
<1>3. received'[Len(received')] = p
  <2>1. received' = Append(received, p)
    BY PacketRoundTrip, DecodePacketSent
  <2>2. received \in Seq(Packets)
    BY <1>2 DEF TypeOK
  <2> HIDE DEF p
  <2> QED
    BY <1>2, <2>1, <2>2
<1>4. p.name = "UDPTunnel" /\ (body.kind # Ping => body.position = <<>>)
  BY <1>3
<1>5. body \in PingPackets \cup AudioPackets /\ Encodable(Dst, body)
  <2>1. Sendable(p)
    BY <1>2, PacketsAssumption
  <2> QED
    BY <1>4, <2>1 DEF Sendable
<1>6. IntoRaw(p).bytes = Encode(Dst, body)
  BY <1>4 DEF IntoRaw, VoiceIntoRaw
<1> HIDE DEF p
<1> DEFINE n == RawLength(buf)
           s == Encode(Dst, body)
<1>7. s = SubSeq(buf, HeaderSize + 1, HeaderSize + n)
  BY <1>2, <1>6 DEF RawPacket
<1>8. buf \in Seq(Byte) /\ Len(buf) >= 6 /\ Len(buf) >= 6 + n
  BY <1>2 DEF TypeOK, DecodePacket, HasPacket, HeaderSize
<1>9. n \in Nat
  BY <1>8, LengthNat DEF n
<1>10. k \in Nat /\ k < n
  <2>1. k \in 0 .. n - 1
    OBVIOUS
  <2> HIDE DEF n
  <2> QED
    BY <1>9, <2>1
<1> HIDE DEF n, s, body
<1>11. /\ s \in Seq(Byte) /\ Len(s) = n
       /\ \A j \in 1 .. n : s[j] = buf[(7 + j) - 1]
  <2> DEFINE e == 6 + n
  <2>1. e \in Nat /\ 7 <= e + 1 /\ e <= Len(buf) /\ (e - 7) + 1 = n /\ s = SubSeq(buf, 7, e)
    BY <1>7, <1>8, <1>9 DEF HeaderSize
  <2> HIDE DEF e
  <2>2. /\ SubSeq(buf, 7, e) \in Seq(Byte) /\ Len(SubSeq(buf, 7, e)) = (e - 7) + 1
        /\ \A j \in 1 .. (e - 7) + 1 : SubSeq(buf, 7, e)[j] = buf[(7 + j) - 1]
    BY <1>8, <2>1, Cut
  <2> QED
    BY <2>1, <2>2
<1>12. /\ part \in Seq(Byte) /\ Len(part) = k
       /\ \A j \in 1 .. k : part[j] = buf[(7 + j) - 1]
  <2> DEFINE e == 6 + k
  <2>1. e \in Nat /\ 7 <= e + 1 /\ e <= Len(buf) /\ (e - 7) + 1 = k /\ part = SubSeq(buf, 7, e)
    BY <1>8, <1>9, <1>10 DEF HeaderSize
  <2> HIDE DEF e, part
  <2>2. /\ SubSeq(buf, 7, e) \in Seq(Byte) /\ Len(SubSeq(buf, 7, e)) = (e - 7) + 1
        /\ \A j \in 1 .. (e - 7) + 1 : SubSeq(buf, 7, e)[j] = buf[(7 + j) - 1]
    BY <1>8, <2>1, Cut
  <2> QED
    BY <2>1, <2>2
<1> HIDE DEF part
<1>13. \A j \in 1 .. k : j \in 1 .. n
  BY <1>9, <1>10
<1>14. Part(part, s) /\ Len(part) < Len(s)
  BY <1>9, <1>10, <1>11, <1>12, <1>13 DEF Part
<1>15. ~Decode(Dst, part).ok
  BY <1>4, <1>5, <1>14, WireAssumption, CutVoiceRefused DEF s
<1> QED
  BY <1>15 DEF part

\* Wherever a voice packet that decode returns had been cut, the voice decoder
\* would have returned an error.
THEOREM CutPacketsRefused == Spec => PartsRefused
<1> DEFINE Refused ==
      received' # received =>
        LET p == received'[Len(received')]
        IN  p.name = "UDPTunnel" /\ (p.body.kind # Ping => p.body.position = <<>>) =>
                \A part \in {SubSeq(buf, HeaderSize + 1, HeaderSize + k) :
                                k \in 0 .. RawLength(buf) - 1} :
                    ~Decode(Dst, part).ok
<1>1. ASSUME IInv, [Next]_vars PROVE [Refused]_vars
  <2>1. CASE received' = received
    BY <2>1
  <2>2. CASE DecodePacket
    BY <1>1, <2>2, DecodedParts
  <2> QED
    BY <1>1, <2>1, <2>2 DEF Next, Framed, vars, Send, Close, Break, Read, DecodeNone, DecodeError,
       Eof, Ended
<1> QED
  BY Start, Step, <1>1, PTL DEF Spec, PartsRefused

=============================================================================
