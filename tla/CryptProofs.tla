----------------------------- MODULE CryptProofs -----------------------------
(***************************************************************************)
(* The receiver of an encrypted voice channel, for any size of a byte, any *)
(* late window of at most half a byte and any starting nonce. Some of it   *)
(* holds on every network, the rest on one that delays packets by less     *)
(* than the window and loses fewer in a row than half a byte counts; both  *)
(* repeat, reorder and damage packets, headers included.                   *)
(***************************************************************************)
EXTENDS Crypt, FiniteSetTheorems, TLAPS

GoodNetwork == MaxDelay <= LateWindow /\ MaxLoss < ByteSize \div 2

-----------------------------------------------------------------------------
(* Remainders *)

\* Division with remainder.
LEMMA DivMod ==
    ASSUME NEW x \in Int, NEW C \in Nat \ {0}
    PROVE  /\ x % C \in 0 .. C - 1
           /\ x \div C \in Int
           /\ x = C * (x \div C) + (x % C)
OBVIOUS

\* A multiple of C other than 0 is not between -C and C.
LEMMA SmallMultiple ==
    ASSUME NEW k \in Int, NEW C \in Nat \ {0}, C * k < C, -C < C * k
    PROVE  k = 0
<1>1. k >= 1 => C * k >= C
  OBVIOUS
<1>2. k <= -1 => C * k <= -C
  OBVIOUS
<1> QED
  BY <1>1, <1>2

LEMMA Distribute ==
    ASSUME NEW a \in Int, NEW b \in Int, NEW c \in Int
    PROVE  c * (a - b) = c * a - c * b /\ c * (a + b) = c * a + c * b
OBVIOUS

\* Numbers less than C apart with the same remainder are equal.
LEMMA SameRemainder ==
    ASSUME NEW x \in Int, NEW y \in Int, NEW C \in Nat \ {0},
           x - y < C, y - x < C, x % C = y % C
    PROVE  x = y
<1> DEFINE a == x \div C
           b == y \div C
           k == a - b
<1>1. x - y = C * k /\ k \in Int
  <2>1. /\ a \in Int /\ b \in Int /\ x % C \in Int
        /\ x = C * a + (x % C) /\ y = C * b + (x % C)
    BY DivMod
  <2>2. C * k = C * a - C * b
    <3> HIDE DEF a, b
    <3> QED
      BY <2>1, Distribute
  <2> HIDE DEF a, b
  <2>3. C * a \in Int /\ C * b \in Int
    BY <2>1
  <2> QED
    BY <2>1, <2>2, <2>3
<1>2. k = 0
  <2> HIDE DEF k
  <2> QED
    BY <1>1, SmallMultiple
<1> QED
  BY <1>1, <1>2

\* A remainder is determined by being one.
LEMMA RemainderUnique ==
    ASSUME NEW x \in Int, NEW C \in Nat \ {0}, NEW r \in 0 .. C - 1, NEW q \in Int,
           x = C * q + r
    PROVE  x % C = r
<1> DEFINE k == (x \div C) - q
<1>1. C * k = r - (x % C) /\ k \in Int
  BY DivMod
<1>2. k = 0
  <2>1. x % C \in 0 .. C - 1
    BY DivMod
  <2> HIDE DEF k
  <2> QED
    BY <1>1, <2>1, SmallMultiple
<1>3. C * k = 0
  <2> HIDE DEF k
  <2> QED
    BY <1>2
<1>4. x % C \in Int
  BY DivMod
<1> HIDE DEF k
<1> QED
  BY <1>1, <1>3, <1>4

\* Adding to a remainder.
LEMMA AddRemainder ==
    ASSUME NEW x \in Int, NEW d \in Int, NEW C \in Nat \ {0}
    PROVE  ((x % C) + d) % C = (x + d) % C
<1> DEFINE q == (x \div C) + (((x % C) + d) \div C)
           r == ((x % C) + d) % C
<1>1. r \in 0 .. C - 1 /\ q \in Int
  BY DivMod
<1>2. x + d = C * q + r
  <2>1. x = C * (x \div C) + (x % C) /\ x % C \in Int /\ x \div C \in Int
    BY DivMod
  <2>2. (x % C) + d = C * (((x % C) + d) \div C) + r /\ ((x % C) + d) \div C \in Int
    BY <2>1, DivMod
  <2> QED
    BY <2>1, <2>2, <1>1
<1>3. (x + d) % C = r
  <2>1. x + d \in Int
    OBVIOUS
  <2> HIDE DEF q, r
  <2> QED
    BY <1>1, <1>2, <2>1, RemainderUnique
<1> QED
  BY <1>3

\* Taking away a remainder.
LEMMA SubRemainder ==
    ASSUME NEW a \in Int, NEW x \in Int, NEW C \in Nat \ {0}
    PROVE  (a - (x % C)) % C = (a - x) % C
<1> DEFINE k == x \div C
           y == a - x
           q == y \div C
           r == y % C
           z == a - (x % C)
<1>1. k \in Int /\ x % C \in Int /\ x = C * k + (x % C) /\ y \in Int
  BY DivMod
<1>2. q \in Int /\ r \in 0 .. C - 1 /\ y = C * q + r
  <2> HIDE DEF y
  <2> QED
    BY <1>1, DivMod
<1>3. z = y + C * k /\ z \in Int
  <2> HIDE DEF k
  <2>1. C * k \in Int
    BY <1>1
  <2> QED
    BY <1>1, <2>1
<1> HIDE DEF k, y, q, r, z
<1>4. z = C * (q + k) + r /\ q + k \in Int
  <2>1. C * (q + k) = C * q + C * k
    BY <1>1, <1>2, Distribute
  <2>2. C * q \in Int /\ C * k \in Int
    BY <1>1, <1>2
  <2> QED
    BY <1>1, <1>2, <1>3, <2>1, <2>2
<1>5. z % C = r
  BY <1>2, <1>3, <1>4, RemainderUnique
<1> QED
  BY <1>5 DEF z, r, y

-----------------------------------------------------------------------------
(* Bytes *)

\* Bytes are bytes.
LEMMA ByteTypes ==
    ASSUME NEW x \in Int
    PROVE  Low(x) \in Byte /\ High(x) \in Byte /\ SignedByte(x) \in Int
<1>1. x % ByteSize \in 0 .. ByteSize - 1 /\ x \div ByteSize \in Int
  BY CryptAssumption, DivMod
<1>2. (x \div ByteSize) % ByteSize \in 0 .. ByteSize - 1
  BY <1>1, CryptAssumption, DivMod
<1> QED
  BY <1>1, <1>2, CryptAssumption DEF Low, High, SignedByte, Byte

\* A difference that fits a signed byte is what "as u8 as i8" yields.
LEMMA SignedByteExact ==
    ASSUME NEW x \in Int, -(ByteSize \div 2) < x, x < ByteSize \div 2
    PROVE  SignedByte(x) = x
<1> DEFINE half == ByteSize \div 2
<1>1. half \in Int /\ 2 * half <= ByteSize /\ ByteSize \in Nat \ {0}
  BY CryptAssumption
<1>2. CASE x >= 0
  <2>1. x % ByteSize = x
    <3>1. x = ByteSize * 0 + x /\ x \in 0 .. ByteSize - 1
      BY <1>1, <1>2
    <3> QED
      BY <1>1, <3>1, RemainderUnique
  <2> QED
    BY <2>1 DEF SignedByte, Low
<1>3. CASE x < 0
  <2>1. x % ByteSize = x + ByteSize
    <3>1. x = ByteSize * (-1) + (x + ByteSize) /\ x + ByteSize \in 0 .. ByteSize - 1
      BY <1>1, <1>3
    <3> QED
      BY <1>1, <3>1, RemainderUnique
  <2> QED
    BY <1>1, <1>3, <2>1 DEF SignedByte, Low
<1> QED
  BY <1>2, <1>3

-----------------------------------------------------------------------------
(* Types *)

\* A guess is a nonce, right or wrong.
LEMMA GuessType ==
    ASSUME TypeOK, NEW b \in Byte
    PROVE  Diff(b) \in Int /\ Guess(b) \in Int /\ Lost(b) \in Int
<1>1. decrypt_nonce \in Int /\ b - decrypt_nonce \in Int
  BY CryptAssumption DEF TypeOK, Byte
<1>2. Diff(b) \in Int
  BY <1>1, ByteTypes DEF Diff
<1> QED
  BY <1>1, <1>2 DEF Guess, Lost

\* Decrypting keeps the types.
LEMMA OkType ==
    ASSUME TypeOK, NEW n \in Int, NEW b \in Byte, NEW intact \in BOOLEAN,
           DecryptOk(n, b, intact)
    PROVE  TypeOK'
<1>1. High(Guess(b)) \in Byte /\ Guess(b) \in Int /\ Lost(b) \in Int
  BY GuessType, ByteTypes
<1>2. decrypt_nonce' \in Int /\ decrypt_history' \in [Byte -> Byte]
  BY <1>1 DEF TypeOK, DecryptOk, NonceAfter, HistoryAfter
<1>3. /\ good' \in 0 .. CounterSize - 1
      /\ late' \in 0 .. CounterSize - 1
      /\ lost' \in 0 .. CounterSize - 1
  <2>1. good \in Int /\ late \in Int /\ lost \in Int /\ CounterSize \in Nat \ {0}
    BY CryptAssumption DEF TypeOK
  <2> DEFINE one == IF Behind(b) THEN 1 ELSE 0
  <2>2. good + 1 \in Int /\ late + one \in Int /\ lost + Lost(b) \in Int
    BY <1>1, <2>1
  <2>3. /\ (good + 1) % CounterSize \in 0 .. CounterSize - 1
        /\ (late + one) % CounterSize \in 0 .. CounterSize - 1
        /\ (lost + Lost(b)) % CounterSize \in 0 .. CounterSize - 1
    <3> HIDE DEF one
    <3> QED
      BY <2>1, <2>2, DivMod
  <2> QED
    BY <2>3 DEF DecryptOk, Wrapped
<1>4. result' \in [kind : {"None", "Eof", "Repeat", "Late", "Mac", "Ok"}, n : Int, intact : BOOLEAN]
  BY CryptAssumption DEF DecryptOk, Returns
<1>5. newest' \in Int
  BY DEF DecryptOk, Arrives, TypeOK
<1> QED
  BY <1>2, <1>3, <1>4, <1>5 DEF TypeOK, DecryptOk

\* What is delivered is an integer and a byte, and an intact packet has the
\* low byte of its nonce in its header.
LEMMA Delivered ==
    ASSUME TypeOK, DeliverIntact \/ DeliverDamaged
    PROVE  \E n \in Int, b \in Byte, intact \in BOOLEAN :
                Decrypt(n, b, intact) /\ (intact => b = Low(n))
<1>1. encrypt_nonce \in Int /\ Start \in Int
  BY CryptAssumption DEF TypeOK
<1>2. CASE DeliverIntact
  <2>1. PICK n \in (Start + 1) .. encrypt_nonce : Decrypt(n, Low(n), TRUE)
    BY <1>2 DEF DeliverIntact
  <2>2. n \in Int /\ Low(n) \in Byte
    BY <1>1, ByteTypes
  <2> QED
    BY <2>1, <2>2
<1>3. CASE DeliverDamaged
  BY <1>1, <1>3 DEF DeliverDamaged
<1> QED
  BY <1>2, <1>3

\* Every step keeps the types, on whatever network.
LEMMA NextType == TypeOK /\ [Next]_vars => TypeOK'
<1> SUFFICES ASSUME TypeOK, [Next]_vars PROVE TypeOK'
  OBVIOUS
<1>1. /\ encrypt_nonce \in Int /\ decrypt_nonce \in Int /\ Start \in Int /\ newest \in Int
      /\ skipped \in Int /\ astray \in Nat /\ resyncs \in Nat /\ CounterSize \in Nat \ {0}
  BY CryptAssumption DEF TypeOK
<1>2. CASE Encrypt
  BY <1>1, <1>2 DEF Encrypt, TypeOK, counters, ghosts
<1>3. ASSUME NEW kind \in {"Eof", "Repeat", "Late", "Mac"}, NEW n \in Int,
             NEW intact \in BOOLEAN, Returns(kind, n, intact), newest' \in Int,
             decrypt_nonce' \in Int, skipped' \in Int, astray' \in Nat,
             UNCHANGED <<encrypt_nonce, decrypt_history, counters, accepted, resyncs>>
      PROVE  TypeOK'
  BY <1>1, <1>3 DEF Returns, TypeOK, counters
<1>4. CASE DecryptEof
  BY <1>1, <1>3, <1>4 DEF DecryptEof, ghosts
<1>5. CASE DeliverIntact \/ DeliverDamaged
  <2>1. PICK n \in Int, b \in Byte, intact \in BOOLEAN : Decrypt(n, b, intact)
    BY <1>5, Delivered
  <2>2. Arrives(n, intact) => newest' \in Int
    BY <1>1 DEF Arrives
  <2>3. CASE DecryptRepeat(n, b, intact)
    BY <1>1, <1>3, <2>2, <2>3 DEF DecryptRepeat, ghosts
  <2>4. CASE DecryptLate(n, b, intact)
    <3>1. decrypt_nonce' \in Int
      BY <2>4, GuessType DEF DecryptLate
    <3>2. skipped + decrypt_nonce' - decrypt_nonce \in Int
      BY <1>1, <3>1
    <3>3. skipped' \in Int
      BY <1>1, <2>4, <3>2, DivMod DEF DecryptLate
    <3> QED
      BY <1>1, <1>3, <2>2, <2>4, <3>1, <3>3 DEF DecryptLate
  <2>5. CASE DecryptMac(n, b, intact)
    BY <1>1, <1>3, <2>2, <2>5 DEF DecryptMac, ghosts
  <2>6. CASE DecryptOk(n, b, intact)
    BY <2>6, OkType
  <2> QED
    BY <2>1, <2>3, <2>4, <2>5, <2>6 DEF Decrypt
<1>6. CASE Resync
  <2>1. skipped + decrypt_nonce' - decrypt_nonce \in Int
    BY <1>1, <1>6 DEF Resync
  <2>2. skipped' \in Int
    BY <1>1, <1>6, <2>1, DivMod DEF Resync
  <2> QED
    BY <1>1, <1>6, <2>2 DEF Resync, NoCall, TypeOK, counters
<1>7. CASE UNCHANGED vars
  BY <1>7 DEF vars, counters, ghosts, TypeOK
<1> QED
  BY <1>2, <1>4, <1>5, <1>6, <1>7 DEF Next

LEMMA InitType == Init => TypeOK
<1>1. 0 \in Byte
  BY CryptAssumption DEF Byte
<1> QED
  BY <1>1, CryptAssumption DEF Init, NoCall, TypeOK

\* Whatever the network does, every state is well typed: the counters are
\* words, although decrypt takes 1 from lost, and the history holds bytes,
\* although nonces behind a wrong guess may be negative.
THEOREM TypeCorrect == Spec => []TypeOK
BY InitType, NextType, PTL DEF Spec

\* What decrypting a packet does to the nonce, on whatever network.
LEMMA OkMoves ==
    ASSUME TypeOK, NEW n \in Int, NEW b \in Byte, NEW intact, DecryptOk(n, b, intact)
    PROVE  /\ decrypt_nonce' \in Int
           /\ decrypt_nonce' >= decrypt_nonce
           /\ Lost(b) = decrypt_nonce' - decrypt_nonce - 1
<1>1. Diff(b) \in Int /\ decrypt_nonce \in Int
  BY GuessType DEF TypeOK
<1>2. InOrder(b) \/ Ahead(b) \/ Behind(b)
  BY DEF DecryptOk, Passes
<1>3. decrypt_nonce' = IF Behind(b) THEN decrypt_nonce ELSE Guess(b)
  BY DEF DecryptOk, NonceAfter
<1>4. CASE InOrder(b)
  BY <1>1, <1>3, <1>4 DEF Behind, Guess, Lost
<1>5. CASE Ahead(b)
  BY <1>1, <1>3, <1>5 DEF Behind, Ahead, Guess, Lost
<1>6. CASE Behind(b)
  BY <1>1, <1>3, <1>6 DEF Behind, Ahead, Guess, Lost
<1> QED
  BY <1>2, <1>4, <1>5, <1>6

\* On whatever network, and however wrong the guesses, decrypt moves the nonce
\* back only when it returns Late, and set_decrypt_nonce is all else that may.
THEOREM OnlyLateGoesBack == Spec => NoncesAdvance
<1>1. TypeOK /\ [Next]_vars =>
        [decrypt_nonce' < decrypt_nonce => result'.kind = "Late" \/ resyncs' > resyncs]_vars
  <2> SUFFICES ASSUME TypeOK, Next, decrypt_nonce' < decrypt_nonce
               PROVE  result'.kind = "Late" \/ resyncs' > resyncs
    OBVIOUS
  <2>1. decrypt_nonce \in Int /\ resyncs \in Nat
    BY DEF TypeOK
  <2>2. CASE Resync
    BY <2>1, <2>2 DEF Resync
  <2>3. CASE DeliverIntact \/ DeliverDamaged
    <3>1. PICK n \in Int, b \in Byte, intact \in BOOLEAN : Decrypt(n, b, intact)
      BY <2>3, Delivered
    <3>2. CASE DecryptLate(n, b, intact)
      BY <3>2 DEF DecryptLate, Returns
    <3>3. CASE DecryptOk(n, b, intact)
      <4>1. decrypt_nonce' \in Int /\ decrypt_nonce' >= decrypt_nonce
        BY <3>3, OkMoves
      <4> QED
        BY <2>1, <4>1
    <3>4. CASE DecryptRepeat(n, b, intact) \/ DecryptMac(n, b, intact)
      BY <2>1, <3>4 DEF DecryptRepeat, DecryptMac
    <3> QED
      BY <3>1, <3>2, <3>3, <3>4 DEF Decrypt
  <2>4. CASE Encrypt \/ DecryptEof
    <3>1. decrypt_nonce' = decrypt_nonce
      BY <2>4 DEF Encrypt, DecryptEof
    <3> QED
      BY <2>1, <3>1
  <2> QED
    BY <2>2, <2>3, <2>4 DEF Next
<1> QED
  BY <1>1, TypeCorrect, PTL DEF Spec, NoncesAdvance

-----------------------------------------------------------------------------
(* Statistics *)

\* Decrypting moves the loss count by the nonces jumped over.
LEMMA OkCounts ==
    ASSUME TypeOK, Accounting, NEW n \in Int, NEW b \in Byte, NEW intact,
           DecryptOk(n, b, intact)
    PROVE  Accounting'
<1>1. /\ CounterSize \in Nat \ {0} /\ Start \in Int /\ decrypt_nonce \in Int
      /\ skipped \in Int /\ good \in Int /\ lost \in Int
  BY CryptAssumption DEF TypeOK
<1> DEFINE x == decrypt_nonce - Start - skipped - good
           d == decrypt_nonce' - decrypt_nonce - 1
           e == decrypt_nonce' - Start - skipped
           g == good + 1
<1>2. decrypt_nonce' \in Int /\ Lost(b) = d
  BY OkMoves
<1>3. x \in Int /\ d \in Int /\ e \in Int /\ g \in Int /\ x + d = e - g
  BY <1>1, <1>2
<1>4. lost = x % CounterSize /\ lost' = (lost + d) % CounterSize
  BY <1>2 DEF Accounting, DecryptOk, Wrapped
<1>5. good' = g % CounterSize /\ skipped' = skipped
  BY DEF DecryptOk, Wrapped
<1>6. lost' = (e - good') % CounterSize
  <2> HIDE DEF x, d, e, g
  <2>1. lost' = (x + d) % CounterSize
    BY <1>1, <1>3, <1>4, AddRemainder
  <2>2. (e - (g % CounterSize)) % CounterSize = (e - g) % CounterSize
    <3>1. \A y, z \in Int : (y - (z % CounterSize)) % CounterSize = (y - z) % CounterSize
      BY <1>1, SubRemainder
    <3> QED
      BY <1>3, <3>1, Zenon
  <2> QED
    BY <1>3, <1>5, <2>1, <2>2
<1> QED
  BY <1>5, <1>6 DEF Accounting

\* Moving the nonce by hand changes skipped by as much.
LEMMA JumpCounts ==
    ASSUME TypeOK, Accounting, decrypt_nonce' \in Int, UNCHANGED <<good, lost>>,
           skipped' = (skipped + decrypt_nonce' - decrypt_nonce) % CounterSize
    PROVE  Accounting'
<1>1. /\ CounterSize \in Nat \ {0} /\ Start \in Int /\ decrypt_nonce \in Int
      /\ skipped \in Int /\ good \in Int
  BY CryptAssumption DEF TypeOK
<1> DEFINE a == decrypt_nonce' - Start - good
           j == skipped + decrypt_nonce' - decrypt_nonce
<1>2. /\ a \in Int /\ j \in Int
      /\ a - j = decrypt_nonce - Start - skipped - good
  <2>1. \A p \in Int : /\ p - Start - good \in Int
                       /\ skipped + p - decrypt_nonce \in Int
                       /\ (p - Start - good) - (skipped + p - decrypt_nonce)
                            = decrypt_nonce - Start - skipped - good
    BY <1>1
  <2> QED
    BY <2>1, Zenon
<1>3. skipped' = j % CounterSize /\ j % CounterSize \in Int
  <2> HIDE DEF j
  <2>1. j % CounterSize \in Int
    BY <1>1, <1>2, DivMod
  <2> QED
    BY <2>1 DEF j
<1>4. decrypt_nonce' - Start - skipped' - good' = a - (j % CounterSize)
  <2>1. \A p, k \in Int : p - Start - k - good = (p - Start - good) - k
    BY <1>1
  <2>2. decrypt_nonce' - Start - (j % CounterSize) - good = a - (j % CounterSize)
    <3> HIDE DEF j
    <3> QED
      BY <1>3, <2>1, Zenon
  <2> QED
    BY <1>3, <2>2, Zenon
<1>5. (a - (j % CounterSize)) % CounterSize = (a - j) % CounterSize
  <2> HIDE DEF a, j
  <2> QED
    BY <1>1, <1>2, SubRemainder
<1>6. lost = (a - j) % CounterSize
  BY <1>2 DEF Accounting
<1> QED
  BY <1>4, <1>5, <1>6 DEF Accounting

\* On whatever network, and wherever Late returns and resyncs have taken the
\* nonce, the statistics of decrypt add up.
THEOREM StatisticsAddUp == Spec => []Accounting
<1>1. Init => Accounting
  <2> SUFFICES ASSUME Init PROVE Accounting
    OBVIOUS
  <2>1. CounterSize \in Nat \ {0} /\ Start \in Int
    BY CryptAssumption
  <2>2. 0 = CounterSize * 0 + 0 /\ 0 \in 0 .. CounterSize - 1
    BY <2>1
  <2>3. 0 % CounterSize = 0
    BY <2>1, <2>2, RemainderUnique
  <2> QED
    BY <2>1, <2>3 DEF Init, Accounting
<1>2. TypeOK /\ Accounting /\ [Next]_vars => Accounting'
  <2> SUFFICES ASSUME TypeOK, Accounting, [Next]_vars PROVE Accounting'
    OBVIOUS
  <2>1. ASSUME UNCHANGED <<decrypt_nonce, skipped, good, lost>> PROVE Accounting'
    BY <2>1 DEF Accounting
  <2>2. CASE Encrypt \/ DecryptEof \/ UNCHANGED vars
    BY <2>1, <2>2 DEF Encrypt, DecryptEof, vars, counters, ghosts
  <2>3. CASE DeliverIntact \/ DeliverDamaged
    <3>1. PICK n \in Int, b \in Byte, intact \in BOOLEAN : Decrypt(n, b, intact)
      BY <2>3, Delivered
    <3>2. CASE DecryptLate(n, b, intact)
      <4>1. decrypt_nonce' \in Int
        BY <3>2, GuessType DEF DecryptLate
      <4> QED
        BY <3>2, <4>1, JumpCounts DEF DecryptLate, counters
    <3>3. CASE DecryptOk(n, b, intact)
      BY <3>3, OkCounts
    <3>4. CASE DecryptRepeat(n, b, intact) \/ DecryptMac(n, b, intact)
      BY <2>1, <3>4 DEF DecryptRepeat, DecryptMac, counters, ghosts
    <3> QED
      BY <3>1, <3>2, <3>3, <3>4 DEF Decrypt
  <2>4. CASE Resync
    <3>1. decrypt_nonce' \in Int
      BY <2>4 DEF Resync, TypeOK
    <3> QED
      BY <2>4, <3>1, JumpCounts DEF Resync, counters
  <2> QED
    BY <2>2, <2>3, <2>4 DEF Next
<1> QED
  BY <1>1, <1>2, TypeCorrect, PTL DEF Spec

-----------------------------------------------------------------------------
(* A good network: the inductive invariant *)

\* The receiver is not ahead of the sender, and the sender is ahead of what has
\* arrived by less than a signed byte can tell. Until a Late return leads it
\* astray, the receiver has moved to the newest packet that arrived.
Sync ==
    /\ Start <= newest /\ newest <= encrypt_nonce
    /\ encrypt_nonce <= newest + MaxLoss
    /\ decrypt_nonce <= encrypt_nonce
    /\ accepted \subseteq (Start + 1) .. newest
    /\ astray = 0 => newest <= decrypt_nonce

\* The history knows the packets decrypted that may still arrive, astray or not.
Remembered ==
    \A n \in accepted :
        n > encrypt_nonce - MaxDelay => decrypt_history[Low(n)] = High(n)

\* Nothing is in the history but its zeros and packets that were decrypted.
Known ==
    \A b \in Byte :
        \/ decrypt_history[b] = 0
        \/ \E m \in accepted : Low(m) = b /\ High(m) = decrypt_history[b]

\* No intact packet was refused for its nonce.
NoneRefused == astray = 0 => ~(result.intact /\ result.kind \in {"Mac", "Late"})

IInv ==
    /\ TypeOK
    /\ Sync
    /\ Remembered
    /\ Known
    /\ NoneRefused
    /\ RepeatsExplained

\* A receiver that is not astray guesses the nonce of whatever arrives intact,
\* and nothing is too late.
LEMMA GuessRight ==
    ASSUME GoodNetwork, TypeOK, Sync, astray = 0, NEW n \in Int, Arrives(n, TRUE),
           NEW b \in Byte, b = Low(n)
    PROVE  /\ Guess(b) = n
           /\ ~TooLate(b)
           /\ Behind(b) <=> n <= decrypt_nonce
<1> DEFINE half == ByteSize \div 2
<1>1. /\ half \in Int /\ 2 * half <= ByteSize /\ ByteSize \in Nat \ {0}
      /\ LateWindow \in Int /\ LateWindow <= half /\ MaxDelay \in Int /\ MaxLoss \in Int
      /\ decrypt_nonce \in Int /\ encrypt_nonce \in Int /\ Start \in Int /\ newest \in Int
  BY CryptAssumption DEF TypeOK
<1>2. n - decrypt_nonce > -LateWindow /\ n - decrypt_nonce < half
  BY <1>1 DEF GoodNetwork, Sync, Arrives
<1>3. Diff(b) = n - decrypt_nonce
  <2> DEFINE d == -decrypt_nonce
  <2>1. d \in Int /\ b - decrypt_nonce = (n % ByteSize) + d /\ n - decrypt_nonce = n + d
    BY <1>1, DivMod DEF Low
  <2>2. ((n % ByteSize) + d) % ByteSize = (n + d) % ByteSize
    <3> HIDE DEF d
    <3> QED
      BY <1>1, <2>1, AddRemainder
  <2>3. SignedByte(b - decrypt_nonce) = SignedByte(n - decrypt_nonce)
    BY <2>1, <2>2 DEF SignedByte, Low
  <2>4. SignedByte(n - decrypt_nonce) = n - decrypt_nonce
    BY <1>1, <1>2, SignedByteExact
  <2> QED
    BY <2>3, <2>4 DEF Diff
<1>4. InOrder(b) <=> n = decrypt_nonce + 1
  <2>1. ASSUME InOrder(b) PROVE n = decrypt_nonce + 1
    <3> DEFINE m == decrypt_nonce + 1
    <3>1. m \in Int /\ n % ByteSize = m % ByteSize
      BY <1>1, <2>1 DEF InOrder, Low
    <3>2. n - m < ByteSize /\ m - n < ByteSize
      BY <1>1, <1>2
    <3> HIDE DEF m
    <3>3. n = m
      BY <1>1, <3>1, <3>2, SameRemainder
    <3> QED
      BY <3>3 DEF m
  <2> QED
    BY <2>1 DEF InOrder
<1> QED
  BY <1>1, <1>2, <1>3, <1>4 DEF Guess, TooLate, Behind

\* Nothing but the history check keeps a packet in the window from being
\* decrypted twice: what reaches the tag check is new.
LEMMA PassesIsNew ==
    ASSUME GoodNetwork, TypeOK, Sync, Remembered, astray = 0,
           NEW n \in Int, Arrives(n, TRUE), NEW b \in Byte, b = Low(n), Passes(b)
    PROVE  n \notin accepted
<1>1. Guess(b) = n /\ (Behind(b) <=> n <= decrypt_nonce)
  BY GuessRight
<1>2. decrypt_nonce \in Int /\ newest \in Int /\ Start \in Int
  BY CryptAssumption DEF TypeOK
<1>3. n <= decrypt_nonce => decrypt_history[Low(n)] # High(n)
  <2>1. Diff(b) \in Int
    BY GuessType
  <2> QED
    BY <1>1, <1>2, <2>1 DEF Passes, Ahead, Behind, Repeated
<1>4. n > decrypt_nonce => n \notin accepted
  BY <1>2 DEF Sync
<1> QED
  BY <1>2, <1>3, <1>4 DEF Remembered, Arrives

-----------------------------------------------------------------------------
(* The invariant is inductive *)

LEMMA InitIInv == Init => IInv
<1> SUFFICES ASSUME Init PROVE IInv
  OBVIOUS
<1> USE CryptAssumption DEF Init, NoCall
<1>1. TypeOK
  BY InitType
<1>2. Sync
  BY DEF Sync
<1>3. Remembered /\ Known /\ NoneRefused /\ RepeatsExplained
  BY DEF Remembered, Known, NoneRefused, RepeatsExplained
<1> QED
  BY <1>1, <1>2, <1>3 DEF IInv

\* A call that leaves the receiver as it was keeps what the history knows.
LEMMA SameReceiver ==
    ASSUME TypeOK, Sync, Remembered, Known, NEW n \in Int, NEW intact \in BOOLEAN,
           Arrives(n, intact), intact /\ astray = 0 => n <= decrypt_nonce,
           UNCHANGED <<encrypt_nonce, decrypt_nonce, decrypt_history, accepted, astray>>
    PROVE  Sync' /\ Remembered' /\ Known'
<1>1. /\ encrypt_nonce \in Int /\ decrypt_nonce \in Int /\ newest \in Int
      /\ MaxLoss \in Nat /\ Start \in Int
  BY CryptAssumption DEF TypeOK
<1>2. Sync'
  BY <1>1 DEF Sync, Arrives
<1> QED
  BY <1>2 DEF Remembered, Known

\* Decrypting keeps the receiver in sync.
LEMMA OkSync ==
    ASSUME GoodNetwork, TypeOK, Sync, NEW n \in Int, NEW b \in Byte, b = Low(n),
           DecryptOk(n, b, TRUE)
    PROVE  Sync'
<1>1. /\ encrypt_nonce \in Int /\ decrypt_nonce \in Int /\ newest \in Int
      /\ MaxLoss \in Nat /\ Start \in Int
  BY CryptAssumption DEF TypeOK
<1>2. Arrives(n, TRUE) /\ Guess(b) = n
  BY DEF DecryptOk, TagMatches
<1>3. /\ decrypt_nonce' = IF Behind(b) THEN decrypt_nonce ELSE n
      /\ accepted' = accepted \cup {n}
      /\ newest' = IF n > newest THEN n ELSE newest
      /\ n \in (Start + 1) .. encrypt_nonce
      /\ UNCHANGED <<encrypt_nonce, astray>>
  BY <1>2 DEF DecryptOk, NonceAfter, Arrives
<1>4. ASSUME astray = 0 PROVE newest' <= decrypt_nonce'
  <2>1. Behind(b) <=> n <= decrypt_nonce
    BY <1>2, <1>4, GuessRight
  <2> QED
    BY <1>1, <1>3, <1>4, <2>1 DEF Sync
<1> QED
  BY <1>1, <1>3, <1>4 DEF Sync

\* Decrypting remembers the packet: the slots of two packets that may still
\* arrive differ.
LEMMA OkRemembers ==
    ASSUME GoodNetwork, TypeOK, Sync, Remembered, Known, NEW n \in Int, NEW b \in Byte,
           b = Low(n), DecryptOk(n, b, TRUE)
    PROVE  Remembered' /\ Known'
<1>1. /\ encrypt_nonce \in Int /\ newest \in Int /\ Start \in Int /\ ByteSize \in Nat \ {0}
      /\ MaxDelay \in Nat /\ MaxDelay <= ByteSize /\ accepted \subseteq Int
      /\ decrypt_history \in [Byte -> Byte]
  BY CryptAssumption DEF TypeOK, GoodNetwork
<1>2. /\ Guess(b) = n
      /\ n \in (Start + 1) .. encrypt_nonce
      /\ n > encrypt_nonce - MaxDelay
      /\ encrypt_nonce' = encrypt_nonce
      /\ accepted' = accepted \cup {n}
  BY DEF DecryptOk, TagMatches, Arrives
<1>3. decrypt_history' = [decrypt_history EXCEPT ![Low(n)] = High(n)]
  BY <1>2 DEF DecryptOk, HistoryAfter
<1>4. ASSUME NEW m \in accepted', m > encrypt_nonce' - MaxDelay
      PROVE  decrypt_history'[Low(m)] = High(m)
  <2>1. m \in Int /\ Low(m) \in Byte /\ Low(n) \in Byte
    BY <1>1, <1>2, <1>4, ByteTypes
  <2>2. CASE m = n
    BY <1>1, <1>3, <2>1, <2>2
  <2>3. CASE m # n
    <3>1. m \in accepted /\ m > encrypt_nonce - MaxDelay
      BY <1>2, <1>4, <2>3
    <3>2. m <= encrypt_nonce
      BY <1>1, <2>1, <3>1 DEF Sync
    <3>3. m - n < ByteSize /\ n - m < ByteSize
      BY <1>1, <1>2, <2>1, <3>1, <3>2
    <3>4. Low(m) # Low(n)
      BY <1>1, <2>1, <2>3, <3>3, SameRemainder DEF Low
    <3>5. decrypt_history[Low(m)] = High(m)
      BY <3>1 DEF Remembered
    <3> QED
      BY <1>1, <1>3, <2>1, <3>4, <3>5
  <2> QED
    BY <2>2, <2>3
<1>5. ASSUME NEW c \in Byte
      PROVE  \/ decrypt_history'[c] = 0
             \/ \E m \in accepted' : Low(m) = c /\ High(m) = decrypt_history'[c]
  <2>1. CASE c = Low(n)
    BY <1>1, <1>2, <1>3, <2>1
  <2>2. CASE c # Low(n)
    <3>1. decrypt_history'[c] = decrypt_history[c] /\ accepted \subseteq accepted'
      BY <1>1, <1>2, <1>3, <2>2
    <3> QED
      BY <3>1 DEF Known
  <2> QED
    BY <2>1, <2>2
<1> QED
  BY <1>4, <1>5 DEF Remembered, Known

\* What decrypt answers to a packet that is known before it reaches the tag
\* check: with the guess right, its two bytes are in the history.
LEMMA RepeatExplained ==
    ASSUME GoodNetwork, TypeOK, Sync, Known, NEW n \in Int, NEW b \in Byte, b = Low(n),
           DecryptRepeat(n, b, TRUE)
    PROVE  RepeatsExplained'
<1> SUFFICES ASSUME astray = 0
             PROVE  \/ \E m \in accepted : Low(m) = Low(n) /\ High(m) = High(n)
                    \/ High(n) = 0
  BY DEF RepeatsExplained, DecryptRepeat, Returns, ghosts
<1>1. Guess(b) = n
  BY GuessRight DEF DecryptRepeat
<1>2. decrypt_history[Low(n)] = High(n)
  BY <1>1 DEF DecryptRepeat, Repeated
<1> QED
  BY <1>2 DEF Known

\* Every step keeps the invariant on a good network.
LEMMA NextIInv ==
    ASSUME GoodNetwork, IInv, [Next]_vars
    PROVE  IInv'
<1>1. TypeOK /\ Sync /\ Remembered /\ Known /\ NoneRefused /\ RepeatsExplained
  BY DEF IInv
<1>2. /\ encrypt_nonce \in Int /\ decrypt_nonce \in Int /\ Start \in Int /\ newest \in Int
      /\ MaxLoss \in Nat /\ MaxDelay \in Nat /\ accepted \subseteq Int /\ astray \in Nat
  BY <1>1, CryptAssumption DEF TypeOK
<1>3. TypeOK'
  BY <1>1, NextType
<1>4. CASE Encrypt
  <2>1. Sync'
    BY <1>1, <1>2, <1>4 DEF Encrypt, Sync, ghosts
  <2>2. Remembered'
    BY <1>1, <1>2, <1>4 DEF Encrypt, Remembered, ghosts
  <2>3. Known' /\ NoneRefused' /\ RepeatsExplained'
    BY <1>1, <1>4 DEF Encrypt, Known, NoneRefused, RepeatsExplained, ghosts
  <2> QED
    BY <1>3, <2>1, <2>2, <2>3 DEF IInv
<1>5. CASE DecryptEof
  <2>1. Sync' /\ Remembered' /\ Known'
    BY <1>1, <1>5 DEF DecryptEof, Sync, Remembered, Known, ghosts
  <2>2. NoneRefused' /\ RepeatsExplained'
    BY <1>5 DEF DecryptEof, Returns, NoneRefused, RepeatsExplained
  <2> QED
    BY <1>3, <2>1, <2>2 DEF IInv
<1>6. CASE DeliverIntact \/ DeliverDamaged
  <2>1. PICK n \in Int, b \in Byte, intact \in BOOLEAN :
                Decrypt(n, b, intact) /\ (intact => b = Low(n))
    BY <1>1, <1>6, Delivered
  <2>2. ASSUME intact, astray = 0, Arrives(n, intact)
        PROVE  Guess(b) = n /\ ~TooLate(b) /\ (Behind(b) <=> n <= decrypt_nonce)
    BY <1>1, <2>1, <2>2, GuessRight
  <2>3. CASE DecryptRepeat(n, b, intact)
    <3>1. /\ Arrives(n, intact) /\ Behind(b)
          /\ Returns("Repeat", n, intact)
          /\ UNCHANGED <<encrypt_nonce, decrypt_nonce, decrypt_history, accepted, astray>>
      BY <2>3 DEF DecryptRepeat, Repeated, ghosts
    <3>2. Sync' /\ Remembered' /\ Known'
      BY <1>1, <2>2, <3>1, SameReceiver
    <3>3. NoneRefused'
      BY <3>1 DEF Returns, NoneRefused
    <3>4. CASE intact
      BY <1>1, <1>3, <2>1, <2>3, <3>2, <3>3, <3>4, RepeatExplained DEF IInv
    <3>5. CASE ~intact
      BY <1>3, <3>1, <3>2, <3>3, <3>5 DEF Returns, RepeatsExplained, IInv
    <3> QED
      BY <3>4, <3>5
  <2>4. CASE DecryptLate(n, b, intact)
    <3>1. /\ Arrives(n, intact) /\ TooLate(b)
          /\ decrypt_nonce' = Guess(b)
          /\ astray' = astray + 1
          /\ UNCHANGED <<encrypt_nonce, decrypt_history, accepted>>
      BY <2>4 DEF DecryptLate
    <3>2. decrypt_nonce' <= decrypt_nonce
      <4>1. Diff(b) \in Int /\ LateWindow \in Nat
        BY <1>1, GuessType, CryptAssumption
      <4> QED
        BY <1>2, <3>1, <4>1 DEF TooLate, Guess
    <3>3. astray' # 0 /\ decrypt_nonce' \in Int
      BY <1>1, <1>2, <3>1, GuessType
    <3>4. Sync'
      BY <1>1, <1>2, <3>1, <3>2, <3>3 DEF Sync, Arrives
    <3>5. Remembered' /\ Known'
      BY <1>1, <3>1 DEF Remembered, Known
    <3>6. NoneRefused' /\ RepeatsExplained'
      BY <3>3 DEF NoneRefused, RepeatsExplained
    <3> QED
      BY <1>3, <3>4, <3>5, <3>6 DEF IInv
  <2>5. CASE DecryptMac(n, b, intact)
    <3>1. /\ Arrives(n, intact)
          /\ Returns("Mac", n, intact)
          /\ ~(intact /\ Guess(b) = n)
          /\ UNCHANGED <<encrypt_nonce, decrypt_nonce, decrypt_history, accepted, astray>>
      BY <2>5 DEF DecryptMac, TagMatches, ghosts
    <3>2. ~(intact /\ astray = 0)
      BY <2>2, <3>1
    <3>3. Sync' /\ Remembered' /\ Known'
      BY <1>1, <3>1, <3>2, SameReceiver
    <3>4. NoneRefused' /\ RepeatsExplained'
      BY <3>1, <3>2 DEF Returns, NoneRefused, RepeatsExplained
    <3> QED
      BY <1>3, <3>3, <3>4 DEF IInv
  <2>6. CASE DecryptOk(n, b, intact)
    <3>1. intact = TRUE /\ b = Low(n) /\ DecryptOk(n, b, TRUE)
      BY <2>1, <2>6 DEF DecryptOk, TagMatches
    <3>2. Sync' /\ Remembered' /\ Known'
      BY <1>1, <3>1, OkSync, OkRemembers
    <3>3. NoneRefused' /\ RepeatsExplained'
      BY <2>6 DEF DecryptOk, Returns, NoneRefused, RepeatsExplained
    <3> QED
      BY <1>3, <3>2, <3>3 DEF IInv
  <2> QED
    BY <2>1, <2>3, <2>4, <2>5, <2>6 DEF Decrypt
<1>7. CASE Resync
  <2>1. Sync' /\ Remembered' /\ Known'
    BY <1>1, <1>2, <1>7 DEF Resync, Sync, Remembered, Known
  <2>2. NoneRefused' /\ RepeatsExplained'
    BY <1>7 DEF Resync, NoCall, NoneRefused, RepeatsExplained
  <2> QED
    BY <1>3, <2>1, <2>2 DEF IInv
<1>8. CASE UNCHANGED vars
  <2>1. Sync' /\ Remembered' /\ Known'
    BY <1>1, <1>8 DEF vars, ghosts, Sync, Remembered, Known
  <2>2. NoneRefused' /\ RepeatsExplained'
    BY <1>1, <1>8 DEF vars, ghosts, NoneRefused, RepeatsExplained
  <2> QED
    BY <1>3, <2>1, <2>2 DEF IInv
<1> QED
  BY <1>4, <1>5, <1>6, <1>7, <1>8 DEF Next

LEMMA Inductive == ASSUME GoodNetwork PROVE Spec => []IInv
<1>1. Init => IInv
  BY InitIInv
<1>2. IInv /\ [Next]_vars => IInv'
  BY NextIInv
<1> QED
  BY <1>1, <1>2, PTL DEF Spec

-----------------------------------------------------------------------------
(* The theorems *)

\* Within the limits of the network, with whatever damage to headers and
\* bodies, no packet is decrypted twice unless a Late return has led the
\* receiver astray and no resync has brought it back.
THEOREM NoPacketTwice == ASSUME GoodNetwork PROVE Spec => AcceptedOnce
<1>1. IInv /\ [Next]_vars => [good' # good /\ astray = 0 => accepted' # accepted]_vars
  <2> SUFFICES ASSUME IInv, Next, good' # good, astray = 0
               PROVE  accepted' # accepted
    OBVIOUS
  <2>1. TypeOK /\ Sync /\ Remembered
    BY DEF IInv
  <2>2. DeliverIntact \/ DeliverDamaged
    BY DEF Next, Encrypt, DecryptEof, Resync, counters
  <2>3. PICK n \in Int, b \in Byte, intact \in BOOLEAN :
                Decrypt(n, b, intact) /\ (intact => b = Low(n))
    BY <2>1, <2>2, Delivered
  <2>4. DecryptOk(n, b, intact)
    BY <2>3 DEF Decrypt, DecryptRepeat, DecryptLate, DecryptMac, counters
  <2>5. /\ intact = TRUE /\ b = Low(n) /\ Arrives(n, TRUE) /\ Passes(b)
        /\ accepted' = accepted \cup {n}
    BY <2>3, <2>4 DEF DecryptOk, TagMatches
  <2>6. n \notin accepted
    BY <2>1, <2>5, PassesIsNew
  <2> QED
    BY <2>5, <2>6
<1> QED
  BY <1>1, Inductive, PTL DEF Spec, AcceptedOnce

\* Within the limits of the network, with whatever damage to headers and
\* bodies, decrypt refuses no intact packet by its tag or as far too late unless
\* a Late return has led it astray and no resync has brought it back.
THEOREM StaysInSync == ASSUME GoodNetwork PROVE Spec => InSync
<1>1. IInv /\ IInv' /\ [Next]_vars =>
        [astray = 0 => ~(result'.intact /\ result'.kind \in {"Mac", "Late"})]_vars
  <2> SUFFICES ASSUME IInv, IInv', Next, astray = 0,
                      result'.intact, result'.kind \in {"Mac", "Late"}
               PROVE  FALSE
    OBVIOUS
  <2>1. TypeOK /\ Sync /\ NoneRefused /\ NoneRefused'
    BY DEF IInv
  <2>2. astray' # 0
    BY <2>1 DEF NoneRefused
  <2>3. DeliverIntact \/ DeliverDamaged
    BY <2>2 DEF Next, Encrypt, DecryptEof, Resync, ghosts
  <2>4. PICK n \in Int, b \in Byte, intact \in BOOLEAN :
                Decrypt(n, b, intact) /\ (intact => b = Low(n))
    BY <2>1, <2>3, Delivered
  <2>5. DecryptLate(n, b, intact)
    BY <2>2, <2>4 DEF Decrypt, DecryptRepeat, DecryptOk, DecryptMac, ghosts
  <2>6. intact = TRUE /\ b = Low(n) /\ Arrives(n, TRUE) /\ TooLate(b)
    BY <2>4, <2>5 DEF DecryptLate, Returns
  <2> QED
    BY <2>1, <2>6, GuessRight
<1> QED
  BY <1>1, Inductive, PTL DEF Spec, InSync

\* Within the limits of the network, a packet decrypt calls a repetition shares
\* its two low bytes of nonce with one that was decrypted, or the second is 0:
\* for every starting nonce, those of generate_new included.
THEOREM RepeatsHaveAReason == ASSUME GoodNetwork PROVE Spec => []RepeatsExplained
<1>1. IInv => RepeatsExplained
  BY DEF IInv
<1> QED
  BY <1>1, Inductive, PTL

=============================================================================
