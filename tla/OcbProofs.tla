------------------------------ MODULE OcbProofs ------------------------------
(***************************************************************************)
(* The block mode restores every packet and notices every damage to one    *)
(* block, for every size of block, every length of packet, every nonce and *)
(* every permutation of the blocks in place of AES.                        *)
(***************************************************************************)
EXTENDS Ocb, TLAPS

-----------------------------------------------------------------------------
(* Blocks and ^ *)

LEMMA BitSum ==
    ASSUME NEW a \in Bit, NEW b \in Bit
    PROVE  /\ (a + b) % 2 \in Bit
           /\ (a + b) % 2 = IF a = b THEN 0 ELSE 1
BY DEF Bit

LEMMA XorBlock ==
    ASSUME NEW x \in Block, NEW y \in Block
    PROVE  /\ Xor(x, y) \in Block
           /\ \A i \in 1 .. BlockSize : Xor(x, y)[i] = IF x[i] = y[i] THEN 0 ELSE 1
<1>1. ASSUME NEW i \in 1 .. BlockSize
      PROVE  /\ (x[i] + y[i]) % 2 \in Bit
             /\ (x[i] + y[i]) % 2 = IF x[i] = y[i] THEN 0 ELSE 1
  <2>1. x[i] \in Bit /\ y[i] \in Bit
    BY DEF Block
  <2> QED
    BY <2>1, BitSum
<1> QED
  BY <1>1 DEF Block, Xor

LEMMA BlockEqual ==
    ASSUME NEW x \in Block, NEW y \in Block, \A i \in 1 .. BlockSize : x[i] = y[i]
    PROVE  x = y
<1>1. x = [i \in 1 .. BlockSize |-> x[i]] /\ y = [i \in 1 .. BlockSize |-> y[i]]
  BY DEF Block
<1>2. [i \in 1 .. BlockSize |-> x[i]] = [i \in 1 .. BlockSize |-> y[i]]
  OBVIOUS
<1> QED
  BY <1>1, <1>2

\* ^ undoes itself, from either side
LEMMA XorUndone ==
    ASSUME NEW x \in Block, NEW y \in Block
    PROVE  Xor(x, Xor(x, y)) = y /\ Xor(Xor(x, y), x) = y /\ Xor(Xor(y, x), x) = y
           /\ Xor(x, Xor(y, x)) = y
<1>1. /\ Xor(x, y) \in Block /\ Xor(y, x) \in Block
      /\ Xor(x, Xor(x, y)) \in Block /\ Xor(Xor(x, y), x) \in Block
      /\ Xor(Xor(y, x), x) \in Block /\ Xor(x, Xor(y, x)) \in Block
  BY XorBlock
<1>2. ASSUME NEW i \in 1 .. BlockSize
      PROVE  /\ Xor(x, Xor(x, y))[i] = y[i] /\ Xor(Xor(x, y), x)[i] = y[i]
             /\ Xor(Xor(y, x), x)[i] = y[i] /\ Xor(x, Xor(y, x))[i] = y[i]
  <2>1. x[i] \in {0, 1} /\ y[i] \in {0, 1}
    BY DEF Block, Bit
  <2>2. /\ Xor(x, y)[i] = IF x[i] = y[i] THEN 0 ELSE 1
        /\ Xor(y, x)[i] = IF y[i] = x[i] THEN 0 ELSE 1
    BY XorBlock
  <2>3. /\ Xor(x, Xor(x, y))[i] = IF x[i] = Xor(x, y)[i] THEN 0 ELSE 1
        /\ Xor(Xor(x, y), x)[i] = IF Xor(x, y)[i] = x[i] THEN 0 ELSE 1
        /\ Xor(Xor(y, x), x)[i] = IF Xor(y, x)[i] = x[i] THEN 0 ELSE 1
        /\ Xor(x, Xor(y, x))[i] = IF x[i] = Xor(y, x)[i] THEN 0 ELSE 1
    BY <1>1, XorBlock
  <2> QED
    BY <2>1, <2>2, <2>3
<1> QED
  BY <1>1, <1>2, BlockEqual

\* so it tells different blocks apart
LEMMA XorCancels ==
    ASSUME NEW x \in Block, NEW y \in Block, NEW z \in Block
    PROVE  (Xor(x, y) = Xor(x, z) => y = z) /\ (Xor(y, x) = Xor(z, x) => y = z)
<1>1. Xor(x, Xor(x, y)) = y /\ Xor(x, Xor(x, z)) = z
  BY XorUndone
<1>2. Xor(Xor(y, x), x) = y /\ Xor(Xor(z, x), x) = z
  BY XorUndone
<1> QED
  BY <1>1, <1>2

LEMMA ZeroBlock == Zero \in Block
BY DEF Zero, Block, Bit

LEMMA BitsBlock == ASSUME NEW len PROVE Bits(len) \in Block
BY DEF Bits, Block, Bit

LEMMA DoubledBlock == ASSUME NEW x \in Block PROVE s2(x) \in Block
<1> DEFINE rot == [i \in 1 .. BlockSize |-> IF i = BlockSize THEN x[1] ELSE x[i + 1]]
<1>1. ASSUME NEW i \in 1 .. BlockSize
      PROVE  (IF i = BlockSize THEN x[1] ELSE x[i + 1]) \in Bit
  <2>1. 1 \in 1 .. BlockSize /\ (i # BlockSize => i + 1 \in 1 .. BlockSize)
    BY OcbAssumption
  <2> QED
    BY <2>1 DEF Block
<1>2. rot \in Block
  BY <1>1 DEF Block
<1>3. Xor(rot, Poly) \in Block
  BY <1>2, XorBlock, OcbAssumption
<1>4. s2(x) = IF rot[BlockSize] = 1 THEN Xor(rot, Poly) ELSE rot
  BY DEF s2
<1> HIDE DEF rot
<1> QED
  BY <1>2, <1>3, <1>4

-----------------------------------------------------------------------------
(* The cipher *)

\* under its key AES is a permutation of the blocks
Keyed == key \in Bijection(Block, Block)

LEMMA Enciphered ==
    ASSUME Keyed, NEW x \in Block, NEW y \in Block
    PROVE  aes_encrypt(x) \in Block /\ (aes_encrypt(x) = aes_encrypt(y) => x = y)
<1>1. key \in [Block -> Block]
  BY DEF Keyed, Bijection, Injection
<1>2. key[x] = key[y] => x = y
  BY <1>1 DEF Keyed, Bijection, Injection, IsInjective
<1> QED
  BY <1>1, <1>2 DEF aes_encrypt

LEMMA Deciphered ==
    ASSUME Keyed, NEW x \in Block
    PROVE  /\ aes_decrypt(x) \in Block /\ aes_encrypt(aes_decrypt(x)) = x
           /\ aes_decrypt(aes_encrypt(x)) = x
<1>1. \A t \in Block : \E s \in Block : key[s] = t
  BY DEF Keyed, Bijection, Surjection
<1>2. ASSUME NEW t \in Block
      PROVE  aes_decrypt(t) \in Block /\ key[aes_decrypt(t)] = t
  BY <1>1, <1>2 DEF aes_decrypt
<1>3. key[x] \in Block
  BY Enciphered DEF aes_encrypt
<1>4. aes_decrypt(key[x]) \in Block /\ key[aes_decrypt(key[x])] = key[x]
  BY <1>2, <1>3
<1>5. aes_decrypt(key[x]) = x
  BY <1>4, Enciphered DEF aes_encrypt
<1> QED
  BY <1>2, <1>5 DEF aes_encrypt

-----------------------------------------------------------------------------
(* Where the blocks are *)

\* how many positions are before the n-th block, counted from 0
At(n) == n * BlockSize

LEMMA AtFacts ==
    /\ At(0) = 0
    /\ \A n \in Nat : At(n) \in Nat /\ At(n + 1) = At(n) + BlockSize /\ n <= At(n)
    /\ \A m, n \in Nat : m < n => At(m) + BlockSize <= At(n)
<1> USE OcbAssumption
<1>1. At(0) = 0
  BY DEF At
<1>2. ASSUME NEW n \in Nat
      PROVE  At(n) \in Nat /\ At(n + 1) = At(n) + BlockSize /\ n <= At(n)
  <2>1. n * BlockSize \in Nat /\ (n + 1) * BlockSize = n * BlockSize + BlockSize
    OBVIOUS
  <2>2. n <= n * BlockSize
    <3>1. n * BlockSize = n + n * (BlockSize - 1) /\ n * (BlockSize - 1) >= 0
      OBVIOUS
    <3> QED
      BY <3>1
  <2> QED
    BY <2>1, <2>2 DEF At
<1>3. ASSUME NEW m \in Nat, NEW n \in Nat, m < n
      PROVE  At(m) + BlockSize <= At(n)
  <2>1. PICK k \in Nat : n = (m + 1) + k
    BY <1>3
  <2>2. /\ ((m + 1) + k) * BlockSize = m * BlockSize + BlockSize + k * BlockSize
        /\ k * BlockSize \in Nat /\ m * BlockSize \in Nat
    OBVIOUS
  <2> QED
    BY <2>1, <2>2 DEF At
<1> QED
  BY <1>1, <1>2, <1>3

\* position i is in the n-th block
InBlock(i, n) == At(n) < i /\ i <= At(n) + BlockSize

LEMMA BlockOfPosition ==
    ASSUME NEW i \in Nat \ {0}
    PROVE  BlockOf(i) \in Nat /\ InBlock(i, BlockOf(i))
<1> DEFINE j == i - 1
           n == j \div BlockSize
<1>1. j \in Nat /\ BlockSize \in Nat /\ BlockSize > 0
  BY OcbAssumption
<1>2. n \in Nat /\ n * BlockSize <= j /\ j < n * BlockSize + BlockSize
  <2> HIDE DEF j
  <2> QED
    BY <1>1
<1> QED
  BY <1>1, <1>2 DEF BlockOf, InBlock, At

-----------------------------------------------------------------------------
(***************************************************************************)
(* The invariant. off and sum are the values that offset and checksum have *)
(* had during the encryption, one per block; what the decryption does is   *)
(* compared with them, and with cipher, the buffer that was sent.          *)
(***************************************************************************)

MessageBlock(n) == [i \in 1 .. BlockSize |-> message[At(n) + i]]

CipherBlock(off, plain) == Xor(aes_encrypt(Xor(off, plain)), off)

\* what is left of the message behind n blocks, its pad, and it padded
LastLength(n)     == Len(message) - At(n)
Pad(n, off)       == aes_encrypt(Xor(Bits(LastLength(n)), off))
LastBlock(n, off) ==
    [i \in 1 .. BlockSize |-> IF i <= LastLength(n) THEN message[At(n) + i] ELSE Pad(n, off)[i]]

\* offsets and checksums over n blocks of the message
Trace(n, off, sum) ==
    /\ off \in [0 .. n -> Block] /\ off[0] = FirstOffset
    /\ sum \in [0 .. n -> Block] /\ sum[0] = Zero
    /\ \A k \in 0 .. n - 1 : /\ off[k + 1] = s2(off[k])
                             /\ sum[k + 1] = Xor(sum[k], MessageBlock(k))

\* the first n blocks are enciphered, and are not all of the message
Enciphers(n, off, cipher) ==
    /\ At(n) <= Len(message) /\ (n > 0 => At(n) < Len(message))
    /\ \A k \in 0 .. n - 1 : \A i \in 1 .. BlockSize :
          cipher[At(k) + i] = CipherBlock(off[k + 1], MessageBlock(k))[i]

Encrypting(n, off, sum) ==
    /\ Trace(n, off, sum) /\ Enciphers(n, off, buf)
    /\ start = At(n) /\ offset = off[n] /\ checksum = sum[n]
    /\ \A i \in At(n) + 1 .. Len(message) : buf[i] = message[i]

\* cipher and tag are what the encryption made of the message
Encrypted(n, off, sum, cipher) ==
    /\ Trace(n, off, sum) /\ Enciphers(n, off, cipher)
    /\ LastLength(n) <= BlockSize
    /\ LET last == s2(off[n])
       IN  /\ \A i \in 1 .. LastLength(n) :
                 cipher[At(n) + i] = Xor(Pad(n, last), LastBlock(n, last))[i]
           /\ tag = TagOf(last, Xor(sum[n], LastBlock(n, last)))

\* d blocks are decrypted; if the packet was damaged then in block q
Decrypting(n, off, sum, cipher, d, q) ==
    /\ Encrypted(n, off, sum, cipher)
    /\ start = At(d) /\ offset = off[d]
    /\ \A i \in At(d) + 1 .. Len(message) : buf[i] # cipher[i] => damaged /\ InBlock(i, q)
    /\ ~damaged => \A i \in 1 .. At(d) : buf[i] = message[i]
    /\ damaged /\ d <= q => \E i \in At(d) + 1 .. Len(message) : buf[i] # cipher[i]
    /\ checksum = sum[d] <=> (damaged => d <= q)

Numbers == 0 .. Len(message)

Progress ==
    /\ phase = "encrypt" =>
          \E n \in Numbers : \E off, sum \in [0 .. n -> Block] : Encrypting(n, off, sum)
    /\ phase = "network" =>
          \E n \in Numbers : \E off, sum \in [0 .. n -> Block] : Encrypted(n, off, sum, buf)
    /\ phase = "decrypt" =>
          \E n \in Numbers : \E off, sum \in [0 .. n -> Block] :
             \E cipher \in [1 .. Len(message) -> Bit] : \E d, q \in 0 .. n :
                Decrypting(n, off, sum, cipher, d, q)

Typed ==
    /\ Keyed /\ nonce \in Block /\ message \in Seq(Bit)
    /\ phase \in {"encrypt", "network", "decrypt", "done"}
    /\ buf \in [1 .. Len(message) -> Bit]
    /\ offset \in Block /\ checksum \in Block
    /\ damaged \in BOOLEAN
    /\ phase \in {"encrypt", "network"} => ~damaged

IInv == Typed /\ Progress /\ RoundTrip /\ TagsAgree /\ DamageDetected

-----------------------------------------------------------------------------
(* Lemmas on the parts of the invariant *)

LEMMA SeqOfBits ==
    ASSUME NEW n \in Nat, NEW s \in [1 .. n -> Bit]
    PROVE  s \in Seq(Bit) /\ Len(s) = n
OBVIOUS

LEMMA BufLength ==
    ASSUME Typed
    PROVE  Len(message) \in Nat /\ Len(buf) = Len(message)
<1>1. Len(message) \in Nat
  BY DEF Typed
<1> QED
  BY <1>1, SeqOfBits DEF Typed

LEMMA FirstOffsetBlock == ASSUME Typed PROVE FirstOffset \in Block
BY Enciphered DEF Typed, FirstOffset

LEMMA MessageBlockType ==
    ASSUME Typed, NEW k \in Nat, At(k) + BlockSize <= Len(message)
    PROVE  MessageBlock(k) \in Block
<1>1. Len(message) \in Nat /\ \A j \in 1 .. Len(message) : message[j] \in Bit
  BY DEF Typed
<1>2. At(k) \in Nat /\ BlockSize \in Nat
  BY AtFacts, OcbAssumption
<1>3. ASSUME NEW i \in 1 .. BlockSize PROVE message[At(k) + i] \in Bit
  <2>1. At(k) + i \in 1 .. Len(message)
    BY <1>1, <1>2
  <2> QED
    BY <1>1, <2>1
<1> QED
  BY <1>3 DEF MessageBlock, Block

LEMMA PadType ==
    ASSUME Typed, NEW n \in Nat, NEW o \in Block
    PROVE  Pad(n, o) \in Block
<1>1. Xor(Bits(LastLength(n)), o) \in Block
  BY XorBlock, BitsBlock
<1> QED
  BY <1>1, Enciphered DEF Typed, Pad

LEMMA LastBlockType ==
    ASSUME Typed, NEW n \in Nat, NEW o \in Block, LastLength(n) <= BlockSize
    PROVE  LastBlock(n, o) \in Block
<1>1. Len(message) \in Nat /\ \A j \in 1 .. Len(message) : message[j] \in Bit
  BY DEF Typed
<1>2. At(n) \in Nat /\ BlockSize \in Nat
  BY AtFacts, OcbAssumption
<1>3. \A i \in 1 .. BlockSize : Pad(n, o)[i] \in Bit
  BY PadType DEF Block
<1>4. ASSUME NEW i \in 1 .. BlockSize
      PROVE  (IF i <= LastLength(n) THEN message[At(n) + i] ELSE Pad(n, o)[i]) \in Bit
  <2>1. i <= LastLength(n) => At(n) + i \in 1 .. Len(message)
    BY <1>1, <1>2 DEF LastLength
  <2> QED
    BY <1>1, <1>3, <2>1
<1> QED
  BY <1>4 DEF LastBlock, Block

LEMMA CipherBlockType ==
    ASSUME Keyed, NEW o \in Block, NEW m \in Block
    PROVE  CipherBlock(o, m) \in Block
<1>1. Xor(o, m) \in Block
  BY XorBlock
<1>2. aes_encrypt(Xor(o, m)) \in Block
  BY <1>1, Enciphered
<1> QED
  BY <1>2, XorBlock DEF CipherBlock

\* decrypting a block is the inverse of encrypting it
Plain(o, c) == Xor(aes_decrypt(Xor(o, c)), o)

LEMMA PlainType ==
    ASSUME Keyed, NEW o \in Block, NEW c \in Block
    PROVE  Plain(o, c) \in Block
<1>1. Xor(o, c) \in Block
  BY XorBlock
<1>2. aes_decrypt(Xor(o, c)) \in Block
  BY <1>1, Deciphered
<1> QED
  BY <1>2, XorBlock DEF Plain

LEMMA PlainOfCipher ==
    ASSUME Keyed, NEW o \in Block, NEW m \in Block
    PROVE  Plain(o, CipherBlock(o, m)) = m
<1> DEFINE e == aes_encrypt(Xor(o, m))
<1>1. Xor(o, m) \in Block
  BY XorBlock
<1>2. e \in Block /\ aes_decrypt(e) = Xor(o, m)
  BY <1>1, Enciphered, Deciphered
<1>3. Xor(o, CipherBlock(o, m)) = e
  <2> HIDE DEF e
  <2>1. Xor(o, Xor(e, o)) = e
    BY <1>2, XorUndone
  <2>2. CipherBlock(o, m) = Xor(e, o)
    BY DEF CipherBlock, e
  <2> QED
    BY <2>1, <2>2
<1>4. Xor(Xor(o, m), o) = m
  BY XorUndone
<1> QED
  BY <1>2, <1>3, <1>4 DEF Plain

\* and tells different blocks apart
LEMMA PlainDiffers ==
    ASSUME Keyed, NEW o \in Block, NEW c \in Block, NEW m \in Block,
           c # CipherBlock(o, m)
    PROVE  Plain(o, c) # m
<1>1. Xor(o, c) \in Block
  BY XorBlock
<1> DEFINE p == aes_decrypt(Xor(o, c))
<1>2. p \in Block /\ aes_encrypt(p) = Xor(o, c)
  BY <1>1, Deciphered
<1>3. Xor(o, Xor(p, o)) = p
  BY <1>2, XorUndone
<1>4. Xor(Xor(o, c), o) = c
  BY XorUndone
<1> HIDE DEF p
<1>5. CipherBlock(o, Xor(p, o)) = c
  BY <1>2, <1>3, <1>4 DEF CipherBlock
<1> QED
  BY <1>5 DEF Plain, p

LEMMA TagInjective ==
    ASSUME Keyed, NEW o \in Block, NEW x \in Block, NEW y \in Block
    PROVE  TagOf(o, x) = TagOf(o, y) <=> x = y
<1> DEFINE t == Xor(o, s2(o))
<1>1. t \in Block
  BY DoubledBlock, XorBlock
<1> HIDE DEF t
<1>2. Xor(t, x) \in Block /\ Xor(t, y) \in Block /\ (Xor(t, x) = Xor(t, y) => x = y)
  BY <1>1, XorBlock, XorCancels
<1>3. aes_encrypt(Xor(t, x)) = aes_encrypt(Xor(t, y)) => Xor(t, x) = Xor(t, y)
  BY <1>2, Enciphered
<1> QED
  BY <1>2, <1>3 DEF TagOf, t

-----------------------------------------------------------------------------
(* The packet does not change, and with it what is said about it *)

LEMMA PacketStays ==
    ASSUME UNCHANGED packet,
           NEW CONSTANT n, NEW CONSTANT off, NEW CONSTANT sum, NEW CONSTANT cipher,
           NEW CONSTANT o, NEW CONSTANT x, NEW CONSTANT i, NEW CONSTANT q
    PROVE  /\ Trace(n, off, sum)' <=> Trace(n, off, sum)
           /\ Enciphers(n, off, cipher)' <=> Enciphers(n, off, cipher)
           /\ LastLength(n)' = LastLength(n) /\ Pad(n, o)' = Pad(n, o)
           /\ LastBlock(n, o)' = LastBlock(n, o)
           /\ TagOf(o, x)' = TagOf(o, x)
           /\ FirstOffset' = FirstOffset
           /\ InBlock(i, q)' <=> InBlock(i, q)
<1>1. key' = key /\ nonce' = nonce /\ message' = message
  BY DEF packet
<1>2. \A k : MessageBlock(k)' = MessageBlock(k)
  BY <1>1 DEF MessageBlock, At
<1>3. FirstOffset' = FirstOffset
  BY <1>1 DEF FirstOffset, aes_encrypt
<1>4. Trace(n, off, sum)' <=> Trace(n, off, sum)
  BY <1>2, <1>3 DEF Trace, Zero, Xor, s2
<1>5. \A a, b : CipherBlock(a, b)' = CipherBlock(a, b)
  BY <1>1 DEF CipherBlock, aes_encrypt, Xor
<1>6. Enciphers(n, off, cipher)' <=> Enciphers(n, off, cipher)
  BY <1>1, <1>2, <1>5 DEF Enciphers, At
<1>7. LastLength(n)' = LastLength(n)
  BY <1>1 DEF LastLength, At
<1>8. Pad(n, o)' = Pad(n, o)
  BY <1>1, <1>7 DEF Pad, aes_encrypt, Xor, Bits
<1>9. LastBlock(n, o)' = LastBlock(n, o)
  BY <1>1, <1>7, <1>8 DEF LastBlock, At
<1>10. TagOf(o, x)' = TagOf(o, x)
  BY <1>1 DEF TagOf, aes_encrypt, Xor, s2
<1>11. InBlock(i, q)' <=> InBlock(i, q)
  BY DEF InBlock, At
<1> QED
  BY <1>3, <1>4, <1>6, <1>7, <1>8, <1>9, <1>10, <1>11

LEMMA EncryptedStays ==
    ASSUME UNCHANGED <<packet, tag>>,
           NEW CONSTANT n, NEW CONSTANT off, NEW CONSTANT sum, NEW CONSTANT cipher,
           Encrypted(n, off, sum, cipher)
    PROVE  Encrypted(n, off, sum, cipher)'
<1> DEFINE last == s2(off[n])
           total == Xor(sum[n], LastBlock(n, last))
<1>1. UNCHANGED packet /\ tag' = tag
  OBVIOUS
<1>2. last' = last
  BY DEF s2, Xor
<1>3. /\ Trace(n, off, sum)' <=> Trace(n, off, sum)
      /\ Enciphers(n, off, cipher)' <=> Enciphers(n, off, cipher)
      /\ LastLength(n)' = LastLength(n) /\ Pad(n, last)' = Pad(n, last)
      /\ LastBlock(n, last)' = LastBlock(n, last)
      /\ TagOf(last, total)' = TagOf(last, total)
  <2>1. PICK o : o = last
    OBVIOUS
  <2>2. PICK x : x = total
    OBVIOUS
  <2>3. o' = o /\ x' = x
    OBVIOUS
  <2>4. LastBlock(n, o)' = LastBlock(n, o)
    BY <1>1, PacketStays
  <2>5. total' = total
    BY <2>1, <1>2, <2>4 DEF Xor
  <2> QED
    BY <1>1, <1>2, <2>1, <2>2, <2>4, <2>5, PacketStays
<1>4. At(n)' = At(n)
  BY DEF At
<1> QED
  BY <1>1, <1>2, <1>3, <1>4 DEF Encrypted, Xor

-----------------------------------------------------------------------------
LEMMA InitIInv == Init => IInv
<1> SUFFICES ASSUME Init PROVE IInv
  OBVIOUS
<1>1. PICK m \in 0 .. MaxLen : message \in [1 .. m -> Bit]
  BY DEF Init
<1>2. message \in Seq(Bit) /\ Len(message) = m /\ m \in Nat
  BY <1>1, SeqOfBits, OcbAssumption
<1>3. Keyed /\ nonce \in Block
  BY DEF Init, Keyed
<1>4. FirstOffset \in Block
  BY <1>3, Enciphered DEF FirstOffset
<1>5. Typed
  BY <1>1, <1>2, <1>3, <1>4, ZeroBlock DEF Init, Typed
<1>6. Encrypting(0, [k \in 0 .. 0 |-> FirstOffset], [k \in 0 .. 0 |-> Zero])
  <2>1. At(0) = 0
    BY AtFacts
  <2>2. Trace(0, [k \in 0 .. 0 |-> FirstOffset], [k \in 0 .. 0 |-> Zero])
    BY <1>4, ZeroBlock DEF Trace
  <2> QED
    BY <1>2, <2>1, <2>2 DEF Encrypting, Enciphers, Init
<1>7. Progress
  <2>1. [k \in 0 .. 0 |-> FirstOffset] \in [0 .. 0 -> Block] /\ [k \in 0 .. 0 |-> Zero] \in [0 .. 0 -> Block]
    BY <1>4, ZeroBlock
  <2>2. 0 \in Numbers
    BY <1>2 DEF Numbers
  <2> QED
    BY <1>6, <2>1, <2>2 DEF Progress, Init
<1> QED
  BY <1>5, <1>7 DEF IInv, RoundTrip, TagsAgree, DamageDetected, Init

LEMMA OverwriteType ==
    ASSUME Typed, start \in Nat, NEW b \in Block, NEW len \in 0 .. BlockSize
    PROVE  /\ Overwrite(b, len) \in [1 .. Len(message) -> Bit]
           /\ \A i \in 1 .. Len(message) :
                 Overwrite(b, len)[i] =
                    IF i \in start + 1 .. start + len THEN b[i - start] ELSE buf[i]
<1>1. Len(message) \in Nat /\ Len(buf) = Len(message) /\ BlockSize \in Nat
  BY BufLength, OcbAssumption
<1>2. ASSUME NEW i \in 1 .. Len(message), i \in start + 1 .. start + len
      PROVE  b[i - start] \in Bit
  <2>1. i - start \in 1 .. BlockSize
    BY <1>1, <1>2
  <2> QED
    BY <2>1 DEF Block
<1>3. \A i \in 1 .. Len(message) : buf[i] \in Bit
  BY DEF Typed
<1> QED
  BY <1>1, <1>2, <1>3 DEF Overwrite

\* one more block of a trace
LEMMA TraceExtended ==
    ASSUME Typed, NEW n \in Nat, At(n) + BlockSize <= Len(message),
           NEW off, NEW sum, Trace(n, off, sum)
    PROVE  LET off2 == [k \in 0 .. n + 1 |-> IF k <= n THEN off[k] ELSE s2(off[n])]
               sum2 == [k \in 0 .. n + 1 |->
                          IF k <= n THEN sum[k] ELSE Xor(sum[n], MessageBlock(n))]
           IN  Trace(n + 1, off2, sum2)
<1> DEFINE off2 == [k \in 0 .. n + 1 |-> IF k <= n THEN off[k] ELSE s2(off[n])]
           sum2 == [k \in 0 .. n + 1 |->
                      IF k <= n THEN sum[k] ELSE Xor(sum[n], MessageBlock(n))]
<1>1. off \in [0 .. n -> Block] /\ sum \in [0 .. n -> Block] /\ n \in 0 .. n
  BY DEF Trace
<1>2. s2(off[n]) \in Block
  BY <1>1, DoubledBlock
<1>3. Xor(sum[n], MessageBlock(n)) \in Block
  BY <1>1, MessageBlockType, XorBlock
<1>4. off2 \in [0 .. n + 1 -> Block] /\ sum2 \in [0 .. n + 1 -> Block]
  BY <1>1, <1>2, <1>3
<1>5. off2[0] = off[0] /\ sum2[0] = sum[0]
  OBVIOUS
<1>6. ASSUME NEW k \in 0 .. (n + 1) - 1
      PROVE  off2[k + 1] = s2(off2[k]) /\ sum2[k + 1] = Xor(sum2[k], MessageBlock(k))
  <2>1. k \in 0 .. n /\ k \in 0 .. n + 1 /\ k + 1 \in 0 .. n + 1
    OBVIOUS
  <2>2. off2[k] = off[k] /\ sum2[k] = sum[k]
    BY <2>1
  <2>3. CASE k = n
    BY <2>1, <2>2, <2>3
  <2>4. CASE k # n
    <3>1. k \in 0 .. n - 1 /\ k + 1 <= n
      BY <2>1, <2>4
    <3>2. off2[k + 1] = off[k + 1] /\ sum2[k + 1] = sum[k + 1]
      BY <2>1, <3>1
    <3> QED
      BY <2>2, <3>1, <3>2 DEF Trace
  <2> QED
    BY <2>3, <2>4
<1> HIDE DEF off2, sum2
<1>7. Trace(n + 1, off2, sum2)
  BY <1>4, <1>5, <1>6 DEF Trace
<1> QED
  BY <1>7 DEF off2, sum2

LEMMA EncryptBlockIInv == IInv /\ EncryptBlock => IInv'
<1> SUFFICES ASSUME IInv, EncryptBlock PROVE IInv'
  OBVIOUS
<1>1. Typed /\ phase = "encrypt" /\ Remaining > BlockSize
  BY DEF IInv, EncryptBlock
<1>0. PICK n \in Numbers : \E off, sum : Encrypting(n, off, sum)
  BY <1>1 DEF IInv, Progress
<1>2. PICK off, sum : Encrypting(n, off, sum)
  BY <1>0
<1>3. Len(message) \in Nat /\ Len(buf) = Len(message) /\ n \in Nat /\ BlockSize \in Nat
  BY <1>1, BufLength, OcbAssumption DEF Numbers
<1>4. start = At(n) /\ At(n) \in Nat /\ At(n + 1) = At(n) + BlockSize /\ n + 1 <= At(n + 1)
  BY <1>2, <1>3, AtFacts DEF Encrypting
<1>5. At(n) + BlockSize < Len(message)
  BY <1>1, <1>3, <1>4 DEF Remaining
<1>6. Trace(n, off, sum) /\ off \in [0 .. n -> Block] /\ sum \in [0 .. n -> Block]
      /\ off[n] \in Block /\ sum[n] \in Block /\ offset = off[n] /\ checksum = sum[n]
  BY <1>2, <1>3 DEF Encrypting, Trace
<1>7. Chunk = MessageBlock(n)
  <2>1. ASSUME NEW i \in 1 .. BlockSize PROVE buf[start + i] = message[At(n) + i]
    <3>1. At(n) + i \in At(n) + 1 .. Len(message)
      BY <1>3, <1>4, <1>5
    <3> QED
      BY <3>1, <1>2, <1>4 DEF Encrypting
  <2> QED
    BY <2>1 DEF Chunk, MessageBlock
<1>8. MessageBlock(n) \in Block
  BY <1>1, <1>3, <1>4, <1>5, MessageBlockType
<1> DEFINE o == s2(off[n])
           c == CipherBlock(o, MessageBlock(n))
           t == Xor(sum[n], MessageBlock(n))
<1>9. o \in Block /\ t \in Block
  BY <1>6, <1>8, DoubledBlock, XorBlock
<1>10. c \in Block
  BY <1>1, <1>8, <1>9, CipherBlockType DEF Typed
<1>11. /\ offset' = o /\ checksum' = t /\ buf' = Overwrite(c, BlockSize)
       /\ start' = start + BlockSize
       /\ UNCHANGED <<packet, phase, tag, result, damaged>>
  BY <1>6, <1>7 DEF EncryptBlock, CipherBlock, Sum
<1> HIDE DEF o, c, t
<1>12. /\ buf' \in [1 .. Len(message) -> Bit]
       /\ \A i \in 1 .. Len(message) :
             buf'[i] = IF i \in At(n) + 1 .. At(n) + BlockSize THEN c[i - At(n)] ELSE buf[i]
  <2>1. BlockSize \in 0 .. BlockSize
    BY <1>3
  <2> QED
    BY <1>1, <1>4, <1>10, <1>11, <2>1, OverwriteType
<1>13. message' = message /\ key' = key /\ nonce' = nonce
  BY <1>11 DEF packet
<1>14. Typed'
  BY <1>1, <1>9, <1>11, <1>12, <1>13 DEF Typed, Keyed, Block
<1>15. PICK off2 \in [0 .. n + 1 -> Block], sum2 \in [0 .. n + 1 -> Block] :
          /\ Trace(n + 1, off2, sum2)
          /\ off2[n + 1] = o /\ sum2[n + 1] = t
          /\ \A k \in 0 .. n - 1 : off2[k + 1] = off[k + 1]
  <2> DEFINE f == [k \in 0 .. n + 1 |-> IF k <= n THEN off[k] ELSE o]
             g == [k \in 0 .. n + 1 |-> IF k <= n THEN sum[k] ELSE t]
  <2>1. Trace(n + 1, f, g)
    BY <1>1, <1>3, <1>5, <1>6, TraceExtended DEF o, t
  <2>2. /\ f[n + 1] = o /\ g[n + 1] = t
        /\ \A k \in 0 .. n - 1 : f[k + 1] = off[k + 1]
    BY <1>3
  <2>3. f \in [0 .. n + 1 -> Block] /\ g \in [0 .. n + 1 -> Block]
    BY <2>1 DEF Trace
  <2> QED
    BY <2>1, <2>2, <2>3
<1>16. ASSUME NEW k \in 0 .. (n + 1) - 1, NEW i \in 1 .. BlockSize
       PROVE  buf'[At(k) + i] = CipherBlock(off2[k + 1], MessageBlock(k))[i]
  <2>0. k \in Nat
    BY <1>3
  <2>1. k \in Nat /\ At(k) \in Nat
    BY <2>0, AtFacts
  <2>2. CASE k = n
    <3>1. At(n) + i \in 1 .. Len(message) /\ At(n) + i \in At(n) + 1 .. At(n) + BlockSize
          /\ (At(n) + i) - At(n) = i
      BY <1>3, <1>4, <1>5
    <3> QED
      BY <2>2, <3>1, <1>12, <1>15 DEF c
  <2>3. CASE k # n
    <3>1. k \in 0 .. n - 1 /\ k < n
      BY <1>3, <2>3
    <3>2. At(k) + BlockSize <= At(n)
      BY <1>3, <2>1, <3>1, AtFacts
    <3>3. At(k) + i \in 1 .. Len(message) /\ At(k) + i \notin At(n) + 1 .. At(n) + BlockSize
      BY <1>3, <1>4, <1>5, <2>1, <3>2
    <3>4. buf[At(k) + i] = CipherBlock(off[k + 1], MessageBlock(k))[i]
      BY <3>1, <1>2 DEF Encrypting, Enciphers
    <3> QED
      BY <3>1, <3>3, <3>4, <1>12, <1>15
  <2> QED
    BY <2>2, <2>3
<1>17. Encrypting(n + 1, off2, sum2)'
  <2>1. PICK b : b = buf'
    OBVIOUS
  <2>2. Enciphers(n + 1, off2, b)
    <3>1. At(n + 1) < Len(message) /\ At(n + 1) <= Len(message)
      BY <1>3, <1>4, <1>5
    <3>2. \A k \in 0 .. (n + 1) - 1 : \A i \in 1 .. BlockSize :
             b[At(k) + i] = CipherBlock(off2[k + 1], MessageBlock(k))[i]
      BY <1>16, <2>1
    <3> QED
      BY <3>1, <3>2 DEF Enciphers
  <2>3. Trace(n + 1, off2, sum2)' /\ Enciphers(n + 1, off2, b)'
    BY <1>11, <1>15, <2>2, PacketStays
  <2>4. \A i \in At(n + 1) + 1 .. Len(message) : buf'[i] = message[i]
    <3> SUFFICES ASSUME NEW i \in At(n + 1) + 1 .. Len(message) PROVE buf'[i] = message[i]
      OBVIOUS
    <3>1. i \in 1 .. Len(message) /\ i \notin At(n) + 1 .. At(n) + BlockSize
          /\ i \in At(n) + 1 .. Len(message)
      BY <1>3, <1>4
    <3> QED
      BY <3>1, <1>2, <1>12 DEF Encrypting
  <2> QED
    BY <2>1, <2>3, <2>4, <1>4, <1>11, <1>13, <1>15 DEF Encrypting, At
<1>18. n + 1 \in Numbers'
  BY <1>3, <1>4, <1>5, <1>13 DEF Numbers
<1>19. Progress'
  BY <1>1, <1>11, <1>15, <1>17, <1>18 DEF Progress
<1> QED
  BY <1>1, <1>11, <1>14, <1>19 DEF IInv, RoundTrip, TagsAgree, DamageDetected

LEMMA EncryptLastIInv == IInv /\ EncryptLast => IInv'
<1> SUFFICES ASSUME IInv, EncryptLast PROVE IInv'
  OBVIOUS
<1>1. Typed /\ phase = "encrypt" /\ Remaining <= BlockSize
  BY DEF IInv, EncryptLast
<1>0. PICK n \in Numbers : \E off, sum : Encrypting(n, off, sum)
  BY <1>1 DEF IInv, Progress
<1>2. PICK off, sum : Encrypting(n, off, sum)
  BY <1>0
<1>3. Len(message) \in Nat /\ Len(buf) = Len(message) /\ n \in Nat /\ BlockSize \in Nat
  BY <1>1, BufLength, OcbAssumption DEF Numbers
<1>4. start = At(n) /\ At(n) \in Nat /\ At(n) <= Len(message)
  BY <1>2, <1>3, AtFacts DEF Encrypting, Enciphers
<1>5. Remaining = LastLength(n) /\ LastLength(n) \in 0 .. BlockSize
  BY <1>1, <1>3, <1>4 DEF Remaining, LastLength
<1>6. Trace(n, off, sum) /\ off \in [0 .. n -> Block] /\ sum \in [0 .. n -> Block]
      /\ off[n] \in Block /\ sum[n] \in Block /\ offset = off[n] /\ checksum = sum[n]
  BY <1>2, <1>3 DEF Encrypting, Trace
<1> DEFINE o == s2(off[n])
           pad == Pad(n, o)
           last == LastBlock(n, o)
           c == Xor(pad, last)
           t == Xor(sum[n], last)
<1>7. o \in Block
  BY <1>6, DoubledBlock
<1>8. pad \in Block /\ last \in Block
  BY <1>1, <1>3, <1>5, <1>7, PadType, LastBlockType
<1>9. c \in Block /\ t \in Block
  BY <1>6, <1>8, XorBlock
<1>10. LastOver(pad) = last
  <2>1. ASSUME NEW i \in 1 .. BlockSize, i <= LastLength(n)
        PROVE  buf[start + i] = message[At(n) + i]
    <3>1. At(n) + i \in At(n) + 1 .. Len(message)
      BY <1>3, <1>4, <2>1 DEF LastLength
    <3> QED
      BY <3>1, <1>2, <1>4 DEF Encrypting
  <2> QED
    BY <2>1, <1>5 DEF LastOver, LastBlock
<1>11. /\ offset' = o /\ checksum' = t /\ buf' = Overwrite(c, LastLength(n))
       /\ tag' = TagOf(o, t) /\ phase' = "network"
       /\ UNCHANGED <<packet, start, result, damaged>>
  <2>1. aes_encrypt(Xor(Bits(Remaining), s2(offset))) = pad
    BY <1>5, <1>6 DEF Pad
  <2> QED
    BY <1>5, <1>6, <1>10, <2>1 DEF EncryptLast, Sum
<1> HIDE DEF o, pad, last, c, t
<1>12. /\ buf' \in [1 .. Len(message) -> Bit]
       /\ \A i \in 1 .. Len(message) :
             buf'[i] = IF i \in At(n) + 1 .. At(n) + LastLength(n) THEN c[i - At(n)] ELSE buf[i]
  BY <1>1, <1>4, <1>5, <1>9, <1>11, OverwriteType
<1>13. message' = message /\ key' = key /\ nonce' = nonce
  BY <1>11 DEF packet
<1>14. Typed'
  BY <1>1, <1>7, <1>9, <1>11, <1>12, <1>13 DEF Typed, Keyed, Block
<1>15. PICK b, g : b = buf' /\ g = tag'
  OBVIOUS
<1>16. Enciphers(n, off, b)
  <2>1. ASSUME NEW k \in 0 .. n - 1, NEW i \in 1 .. BlockSize
        PROVE  b[At(k) + i] = CipherBlock(off[k + 1], MessageBlock(k))[i]
    <3>1. k \in Nat /\ k < n
      BY <1>3
    <3>2. At(k) \in Nat /\ At(k) + BlockSize <= At(n)
      BY <1>3, <3>1, AtFacts
    <3>3. At(k) + i \in 1 .. Len(message) /\ At(k) + i \notin At(n) + 1 .. At(n) + LastLength(n)
      BY <1>3, <1>4, <1>5, <3>2
    <3>4. buf[At(k) + i] = CipherBlock(off[k + 1], MessageBlock(k))[i]
      BY <1>2 DEF Encrypting, Enciphers
    <3> QED
      BY <3>3, <3>4, <1>12, <1>15
  <2> QED
    BY <2>1, <1>2 DEF Encrypting, Enciphers
<1>17. \A i \in 1 .. LastLength(n) : b[At(n) + i] = c[i]
  <2> SUFFICES ASSUME NEW i \in 1 .. LastLength(n) PROVE b[At(n) + i] = c[i]
    OBVIOUS
  <2>1. /\ At(n) + i \in 1 .. Len(message) /\ At(n) + i \in At(n) + 1 .. At(n) + LastLength(n)
        /\ (At(n) + i) - At(n) = i
    BY <1>3, <1>4, <1>5 DEF LastLength
  <2> QED
    BY <2>1, <1>12, <1>15
<1>18. Encrypted(n, off, sum, b)'
  <2>1. PICK r : r = o
    OBVIOUS
  <2>2. PICK x : x = t
    OBVIOUS
  <2>3. /\ Trace(n, off, sum)' /\ Enciphers(n, off, b)'
        /\ LastLength(n)' = LastLength(n) /\ Pad(n, r)' = Pad(n, r)
        /\ LastBlock(n, r)' = LastBlock(n, r)
        /\ TagOf(r, x)' = TagOf(r, x)
    BY <1>6, <1>11, <1>16, PacketStays
  <2>4. s2(off[n])' = r /\ At(n)' = At(n)
    BY <2>1 DEF o, s2, Xor, At
  <2>5. Xor(sum[n], LastBlock(n, r))' = x
    BY <2>1, <2>2, <2>3 DEF t, last, Xor
  <2>6. Xor(Pad(n, r), LastBlock(n, r))' = c
    BY <2>1, <2>3 DEF c, pad, last, Xor
  <2>7. tag' = TagOf(r, x)'
    BY <1>11, <2>1, <2>2, <2>3
  <2> QED
    BY <1>5, <1>17, <2>3, <2>4, <2>5, <2>6, <2>7 DEF Encrypted
<1>19. Progress'
  <2>1. n \in Numbers'
    BY <1>13 DEF Numbers
  <2>2. Block' = Block
    BY DEF Block
  <2>3. Encrypted(n, off, sum, buf)'
    BY <1>15, <1>18
  <2> QED
    BY <1>6, <1>11, <2>1, <2>2, <2>3 DEF Progress
<1> QED
  BY <1>1, <1>11, <1>14, <1>19 DEF IInv, RoundTrip, TagsAgree, DamageDetected

LEMMA ArriveIInv == IInv /\ Arrive => IInv'
<1> SUFFICES ASSUME IInv, Arrive PROVE IInv'
  OBVIOUS
<1>1. Typed /\ phase = "network" /\ ~damaged
  BY DEF IInv, Typed, Arrive
<1>0. PICK n \in Numbers : \E off, sum : Encrypted(n, off, sum, buf)
  BY <1>1 DEF IInv, Progress
<1>2. PICK off, sum : Encrypted(n, off, sum, buf)
  BY <1>0
<1>3. Len(message) \in Nat /\ Len(buf) = Len(message) /\ n \in Nat /\ BlockSize \in Nat
  BY <1>1, BufLength, OcbAssumption DEF Numbers
<1>4. At(0) = 0 /\ At(n) \in Nat
  BY <1>3, AtFacts
<1>5. /\ off \in [0 .. n -> Block] /\ off[0] = FirstOffset
      /\ sum \in [0 .. n -> Block] /\ sum[0] = Zero
  BY <1>2 DEF Encrypted, Trace
<1>6. /\ phase' = "decrypt" /\ start' = 0 /\ offset' = FirstOffset /\ checksum' = Zero
      /\ UNCHANGED <<packet, tag, result>>
  BY DEF Arrive
<1>7. message' = message /\ key' = key /\ nonce' = nonce
  BY <1>6 DEF packet
<1>8. PICK q \in 0 .. n :
         /\ buf' \in [1 .. Len(message) -> Bit] /\ damaged' \in BOOLEAN
         /\ \A i \in 1 .. Len(message) : buf'[i] # buf[i] => damaged' /\ InBlock(i, q)
         /\ damaged' => \E i \in 1 .. Len(message) : buf'[i] # buf[i]
  <2>1. CASE UNCHANGED <<buf, damaged>>
    BY <2>1, <1>1, <1>3 DEF Typed
  <2>2. CASE /\ buf' \in {b \in [1 .. Len(buf) -> Bit] :
                           /\ b # buf
                           /\ \A i, j \in 1 .. Len(buf) :
                                 b[i] # buf[i] /\ b[j] # buf[j] => BlockOf(i) = BlockOf(j)}
             /\ damaged' = TRUE
    <3>1. buf' \in [1 .. Len(message) -> Bit] /\ buf' # buf
      BY <1>3, <2>2
    <3>2. \A i, j \in 1 .. Len(message) :
             buf'[i] # buf[i] /\ buf'[j] # buf[j] => BlockOf(i) = BlockOf(j)
      BY <1>3, <2>2
    <3>3. PICK j \in 1 .. Len(message) : buf'[j] # buf[j]
      <4>1. buf \in [1 .. Len(message) -> Bit]
        BY <1>1 DEF Typed
      <4>2. SUFFICES ASSUME \A j \in 1 .. Len(message) : buf'[j] = buf[j] PROVE FALSE
        OBVIOUS
      <4>3. buf' = [j \in 1 .. Len(message) |-> buf'[j]]
            /\ buf = [j \in 1 .. Len(message) |-> buf[j]]
        BY <3>1, <4>1
      <4> QED
        BY <3>1, <4>2, <4>3
    <3>4. ASSUME NEW i \in 1 .. Len(message), buf'[i] # buf[i]
          PROVE  InBlock(i, BlockOf(j))
      <4>1. BlockOf(i) = BlockOf(j)
        BY <3>2, <3>3, <3>4
      <4>2. i \in Nat \ {0}
        BY <1>3
      <4> QED
        BY <4>1, <4>2, BlockOfPosition
    <3>5. BlockOf(j) \in Nat /\ InBlock(j, BlockOf(j))
      <4>1. j \in Nat \ {0}
        BY <1>3
      <4> QED
        BY <4>1, BlockOfPosition
    <3>6. BlockOf(j) \in 0 .. n
      <4>1. SUFFICES ASSUME n < BlockOf(j) PROVE FALSE
        BY <1>3, <3>5
      <4>2. At(n) + BlockSize <= At(BlockOf(j)) /\ At(BlockOf(j)) \in Nat
        BY <1>3, <3>5, <4>1, AtFacts
      <4>3. Len(message) - At(n) <= BlockSize
        BY <1>2 DEF Encrypted, LastLength
      <4>4. At(BlockOf(j)) < j /\ j \in 1 .. Len(message)
        BY <3>5 DEF InBlock
      <4> QED
        BY <1>3, <1>4, <4>2, <4>3, <4>4
    <3> QED
      BY <2>2, <3>1, <3>3, <3>4, <3>6
  <2> QED
    BY <2>1, <2>2 DEF Arrive
<1>9. Typed'
  BY <1>1, <1>6, <1>7, <1>8, ZeroBlock, FirstOffsetBlock DEF Typed, Keyed, Block
<1>10. PICK c : c = buf
  OBVIOUS
<1>11. Encrypted(n, off, sum, c)'
  BY <1>2, <1>6, <1>10, EncryptedStays
<1>12. Decrypting(n, off, sum, c, 0, q)'
  <2>1. \A i \in 1 .. Len(message) : InBlock(i, q)' <=> InBlock(i, q)
    BY DEF InBlock, At
  <2>2. \A i \in 1 .. Len(message) : buf'[i] # c[i] => damaged' /\ InBlock(i, q)'
    BY <1>8, <1>10, <2>1
  <2>3. damaged' => \E i \in 1 .. Len(message) : buf'[i] # c[i]
    BY <1>8, <1>10
  <2>4. At(0)' = 0 /\ 0 + 1 = 1 /\ 0 <= q
    BY <1>4 DEF At
  <2>5. ~damaged' => \A i \in 1 .. 0 : buf'[i] = message'[i]
    OBVIOUS
  <2> QED
    BY <1>5, <1>6, <1>7, <1>11, <2>2, <2>3, <2>4, <2>5 DEF Decrypting
<1>13. Progress'
  <2>1. n \in Numbers' /\ Block' = Block /\ c \in [1 .. Len(message') -> Bit] /\ 0 \in 0 .. n
    BY <1>1, <1>3, <1>7, <1>10 DEF Numbers, Block, Typed
  <2> QED
    BY <1>5, <1>6, <1>8, <1>12, <2>1 DEF Progress
<1> QED
  BY <1>6, <1>9, <1>13 DEF IInv, RoundTrip, TagsAgree, DamageDetected

\* a position is in one block only
LEMMA Elsewhere ==
    ASSUME NEW d \in Nat, NEW q \in Nat, d # q, NEW i \in 1 .. BlockSize
    PROVE  ~InBlock(At(d) + i, q)
<1>1. At(d) \in Nat /\ At(q) \in Nat /\ BlockSize \in Nat
  BY AtFacts, OcbAssumption
<1>2. At(d) + BlockSize <= At(q) \/ At(q) + BlockSize <= At(d)
  <2>1. d < q \/ q < d
    OBVIOUS
  <2> QED
    BY <2>1, AtFacts
<1> QED
  BY <1>1, <1>2 DEF InBlock

LEMMA DecryptBlockIInv == IInv /\ DecryptBlock => IInv'
<1> SUFFICES ASSUME IInv, DecryptBlock PROVE IInv'
  OBVIOUS
<1>1. Typed /\ phase = "decrypt" /\ Remaining > BlockSize
  BY DEF IInv, DecryptBlock
<1>2. PICK n, off, sum, cipher, d, q :
         /\ n \in Numbers /\ cipher \in [1 .. Len(message) -> Bit] /\ d \in 0 .. n /\ q \in 0 .. n
         /\ Decrypting(n, off, sum, cipher, d, q)
  <2>1. \E n \in Numbers : \E off, sum \in [0 .. n -> Block] :
           \E cipher \in [1 .. Len(message) -> Bit] : \E d, q \in 0 .. n :
              Decrypting(n, off, sum, cipher, d, q)
    BY <1>1 DEF IInv, Progress
  <2> QED
    BY <2>1, Zenon
<1>3. /\ Len(message) \in Nat /\ Len(buf) = Len(message) /\ BlockSize \in Nat
      /\ n \in Nat /\ d \in Nat /\ q \in Nat /\ d <= n
  BY <1>1, <1>2, BufLength, OcbAssumption DEF Numbers
<1>4. start = At(d) /\ offset = off[d] /\ Encrypted(n, off, sum, cipher)
  BY <1>2 DEF Decrypting
<1>5. At(d) \in Nat /\ At(n) \in Nat /\ At(d + 1) = At(d) + BlockSize
  BY <1>3, AtFacts
<1>6. At(n) <= Len(message) /\ Len(message) - At(n) <= BlockSize
  BY <1>4 DEF Encrypted, Enciphers, LastLength
<1>7. d < n /\ At(d) + BlockSize <= At(n) /\ At(d) + BlockSize < Len(message)
  <2>1. Len(message) - At(d) > BlockSize
    BY <1>1, <1>3, <1>4 DEF Remaining
  <2>2. d # n
    BY <1>3, <1>5, <1>6, <2>1
  <2>3. d < n
    BY <1>3, <2>2
  <2>4. At(d) + BlockSize <= At(n)
    BY <1>3, <2>3, AtFacts
  <2> QED
    BY <1>3, <1>5, <2>1, <2>3, <2>4
<1>8. /\ off \in [0 .. n -> Block] /\ sum \in [0 .. n -> Block]
      /\ off[d] \in Block /\ sum[d] \in Block /\ off[d + 1] \in Block
      /\ off[d + 1] = s2(off[d]) /\ sum[d + 1] = Xor(sum[d], MessageBlock(d))
  <2>1. Trace(n, off, sum)
    BY <1>4 DEF Encrypted
  <2>2. d \in 0 .. n - 1 /\ d \in 0 .. n /\ d + 1 \in 0 .. n
    BY <1>3, <1>7
  <2> QED
    BY <2>1, <2>2 DEF Trace
<1> DEFINE o == off[d + 1]
           m == MessageBlock(d)
           p == Plain(o, Chunk)
<1>9. m \in Block
  BY <1>1, <1>3, <1>5, <1>7, MessageBlockType
<1>10. Chunk \in Block
  <2>1. ASSUME NEW i \in 1 .. BlockSize PROVE buf[start + i] \in Bit
    <3>1. start + i \in 1 .. Len(message)
      BY <1>3, <1>4, <1>5, <1>7
    <3> QED
      BY <1>1, <3>1 DEF Typed
  <2> QED
    BY <2>1 DEF Chunk, Block
<1>11. p \in Block /\ Keyed /\ checksum \in Block
  BY <1>1, <1>8, <1>10, PlainType DEF Typed
<1>12. \A i \in 1 .. BlockSize : cipher[At(d) + i] = CipherBlock(o, m)[i]
  <2>1. d \in 0 .. n - 1
    BY <1>3, <1>7
  <2> QED
    BY <1>4, <2>1 DEF Encrypted, Enciphers
<1>13. /\ offset' = o /\ checksum' = Xor(checksum, p) /\ buf' = Overwrite(p, BlockSize)
       /\ start' = start + BlockSize
       /\ UNCHANGED <<packet, phase, tag, result, damaged>>
  BY <1>4, <1>8 DEF DecryptBlock, Plain, Sum
<1> HIDE DEF o, m, p
<1>14. /\ buf' \in [1 .. Len(message) -> Bit]
       /\ \A i \in 1 .. Len(message) :
             buf'[i] = IF i \in At(d) + 1 .. At(d) + BlockSize THEN p[i - At(d)] ELSE buf[i]
  <2>1. BlockSize \in 0 .. BlockSize
    BY <1>3
  <2> QED
    BY <1>1, <1>4, <1>5, <1>11, <1>13, <2>1, OverwriteType
<1>15. message' = message /\ key' = key /\ nonce' = nonce
  BY <1>13 DEF packet
<1>16. Typed'
  <2>1. Xor(checksum, p) \in Block /\ o \in Block
    BY <1>8, <1>11, XorBlock DEF o
  <2> QED
    BY <1>1, <1>13, <1>14, <1>15, <2>1 DEF Typed, Keyed, Block
<1>17. damaged /\ d = q => p # m
  <2> SUFFICES ASSUME damaged, d = q PROVE p # m
    OBVIOUS
  <2>1. PICK i \in At(d) + 1 .. Len(message) : buf[i] # cipher[i]
    BY <1>2, <1>3 DEF Decrypting
  <2>2. InBlock(i, d)
    BY <1>2, <2>1 DEF Decrypting
  <2>3. i - At(d) \in 1 .. BlockSize /\ At(d) + (i - At(d)) = i
    BY <1>3, <1>5, <2>2 DEF InBlock
  <2>4. Chunk[i - At(d)] = buf[i]
    BY <1>4, <2>3 DEF Chunk
  <2>5. Chunk # CipherBlock(o, m)
    BY <1>12, <2>1, <2>3, <2>4
  <2> QED
    BY <1>8, <1>9, <1>10, <1>11, <2>5, PlainDiffers DEF p, o
<1>18. ~damaged \/ d # q => p = m
  <2> SUFFICES ASSUME ~damaged \/ d # q PROVE p = m
    OBVIOUS
  <2>1. ASSUME NEW i \in 1 .. BlockSize PROVE Chunk[i] = CipherBlock(o, m)[i]
    <3>1. At(d) + i \in At(d) + 1 .. Len(message)
      BY <1>3, <1>5, <1>7
    <3>2. damaged => ~InBlock(At(d) + i, q)
      BY <1>3, Elsewhere
    <3>3. buf[At(d) + i] = cipher[At(d) + i]
      BY <1>2, <3>1, <3>2 DEF Decrypting
    <3> QED
      BY <1>4, <1>12, <3>3 DEF Chunk
  <2>2. CipherBlock(o, m) \in Block
    BY <1>8, <1>9, <1>11, CipherBlockType DEF o
  <2>3. Chunk = CipherBlock(o, m)
    BY <1>10, <2>1, <2>2, BlockEqual
  <2> QED
    BY <1>8, <1>9, <1>11, <2>3, PlainOfCipher DEF p, o
<1>19. Xor(checksum, p) = sum[d + 1] <=> (damaged => d + 1 <= q)
  <2>1. checksum = sum[d] <=> (damaged => d <= q)
    BY <1>2 DEF Decrypting
  <2>2. sum[d + 1] = Xor(sum[d], m)
    BY <1>8 DEF m
  <2>3. Xor(sum[d], p) = Xor(sum[d], m) => p = m
    BY <1>8, <1>9, <1>11, XorCancels
  <2>4. Xor(checksum, m) = Xor(sum[d], m) => checksum = sum[d]
    BY <1>8, <1>9, <1>11, XorCancels
  <2>5. CASE ~damaged
    BY <1>18, <2>1, <2>2, <2>5
  <2>6. CASE damaged /\ d = q
    BY <1>3, <1>17, <2>1, <2>2, <2>3, <2>6
  <2>7. CASE damaged /\ d # q
    <3>1. d + 1 <= q <=> d <= q
      BY <1>3, <2>7
    <3> QED
      BY <1>18, <2>1, <2>2, <2>4, <2>7, <3>1
  <2> QED
    BY <2>5, <2>6, <2>7
<1>20. \A i \in At(d + 1) + 1 .. Len(message) :
          buf'[i] = buf[i] /\ i \in At(d) + 1 .. Len(message)
  <2> SUFFICES ASSUME NEW i \in At(d + 1) + 1 .. Len(message)
               PROVE  buf'[i] = buf[i] /\ i \in At(d) + 1 .. Len(message)
    OBVIOUS
  <2>1. /\ i \in 1 .. Len(message) /\ i \notin At(d) + 1 .. At(d) + BlockSize
        /\ i \in At(d) + 1 .. Len(message)
    BY <1>3, <1>5
  <2> QED
    BY <1>14, <2>1
<1>21. damaged /\ d + 1 <= q => \E i \in At(d + 1) + 1 .. Len(message) : buf'[i] # cipher[i]
  <2> SUFFICES ASSUME damaged, d + 1 <= q
               PROVE  \E i \in At(d + 1) + 1 .. Len(message) : buf'[i] # cipher[i]
    OBVIOUS
  <2>1. d <= q /\ d < q
    BY <1>3
  <2>2. PICK i \in At(d) + 1 .. Len(message) : buf[i] # cipher[i]
    BY <1>2, <2>1 DEF Decrypting
  <2>3. InBlock(i, q)
    BY <1>2, <2>2 DEF Decrypting
  <2>4. At(d) + BlockSize <= At(q) /\ At(q) \in Nat
    BY <1>3, <2>1, AtFacts
  <2>5. i \in At(d + 1) + 1 .. Len(message)
    BY <1>3, <1>5, <2>3, <2>4 DEF InBlock
  <2> QED
    BY <1>20, <2>2, <2>5
<1>22. ~damaged => \A i \in 1 .. At(d + 1) : buf'[i] = message[i]
  <2> SUFFICES ASSUME ~damaged, NEW i \in 1 .. At(d + 1) PROVE buf'[i] = message[i]
    OBVIOUS
  <2>1. i \in 1 .. Len(message)
    BY <1>3, <1>5, <1>7
  <2>2. CASE i \in 1 .. At(d)
    <3>1. i \notin At(d) + 1 .. At(d) + BlockSize
      BY <1>5, <2>2
    <3> QED
      BY <1>2, <1>14, <2>1, <2>2, <3>1 DEF Decrypting
  <2>3. CASE i \notin 1 .. At(d)
    <3>1. /\ i \in At(d) + 1 .. At(d) + BlockSize /\ i - At(d) \in 1 .. BlockSize
          /\ At(d) + (i - At(d)) = i
      BY <1>3, <1>5, <2>3
    <3>2. m[i - At(d)] = message[i]
      BY <3>1 DEF m, MessageBlock
    <3> QED
      BY <1>14, <1>18, <2>1, <3>1, <3>2
  <2> QED
    BY <2>2, <2>3
<1>23. Decrypting(n, off, sum, cipher, d + 1, q)'
  <2>1. Encrypted(n, off, sum, cipher)'
    BY <1>4, <1>13, EncryptedStays
  <2>2. At(d + 1)' = At(d + 1) /\ \A i : InBlock(i, q)' <=> InBlock(i, q)
    BY DEF At, InBlock
  <2>3. \A i \in At(d + 1) + 1 .. Len(message) :
           buf'[i] # cipher[i] => damaged' /\ InBlock(i, q)'
    BY <1>2, <1>13, <1>20, <2>2 DEF Decrypting
  <2>4. start' = At(d + 1) /\ offset' = off[d + 1] /\ damaged' = damaged
        /\ checksum' = Xor(checksum, p)
    BY <1>4, <1>5, <1>13 DEF o
  <2> QED
    BY <1>15, <1>19, <1>21, <1>22, <2>1, <2>2, <2>3, <2>4 DEF Decrypting
<1>24. Progress'
  <2>1. n \in Numbers' /\ Block' = Block /\ cipher \in [1 .. Len(message') -> Bit]
        /\ d + 1 \in 0 .. n /\ q \in 0 .. n
    BY <1>2, <1>3, <1>7, <1>15 DEF Numbers, Block
  <2> QED
    BY <1>1, <1>8, <1>13, <1>23, <2>1 DEF Progress
<1> QED
  BY <1>1, <1>13, <1>16, <1>24 DEF IInv, RoundTrip, TagsAgree, DamageDetected

LEMMA DecryptLastIInv == IInv /\ DecryptLast => IInv'
<1> SUFFICES ASSUME IInv, DecryptLast PROVE IInv'
  OBVIOUS
<1>1. Typed /\ phase = "decrypt" /\ Remaining <= BlockSize
  BY DEF IInv, DecryptLast
<1>2. PICK n, off, sum, cipher, d, q :
         /\ n \in Numbers /\ cipher \in [1 .. Len(message) -> Bit] /\ d \in 0 .. n /\ q \in 0 .. n
         /\ Decrypting(n, off, sum, cipher, d, q)
  <2>1. \E n \in Numbers : \E off, sum \in [0 .. n -> Block] :
           \E cipher \in [1 .. Len(message) -> Bit] : \E d, q \in 0 .. n :
              Decrypting(n, off, sum, cipher, d, q)
    BY <1>1 DEF IInv, Progress
  <2> QED
    BY <2>1, Zenon
<1>3. /\ Len(message) \in Nat /\ Len(buf) = Len(message) /\ BlockSize \in Nat
      /\ n \in Nat /\ d \in Nat /\ q \in Nat /\ d <= n /\ q <= n
  BY <1>1, <1>2, BufLength, OcbAssumption DEF Numbers
<1>4. start = At(d) /\ offset = off[d] /\ Encrypted(n, off, sum, cipher)
  BY <1>2 DEF Decrypting
<1>5. At(d) \in Nat /\ At(n) \in Nat
  BY <1>3, AtFacts
<1>6. At(n) <= Len(message) /\ (n > 0 => At(n) < Len(message)) /\ LastLength(n) <= BlockSize
  BY <1>4 DEF Encrypted, Enciphers
<1>7. d = n
  <2>1. SUFFICES ASSUME d < n PROVE FALSE
    BY <1>3
  <2>2. At(d) + BlockSize <= At(n) /\ At(n) < Len(message)
    BY <1>3, <1>6, <2>1, AtFacts
  <2>3. Len(message) - At(d) <= BlockSize
    BY <1>1, <1>3, <1>4 DEF Remaining
  <2> QED
    BY <1>3, <1>5, <2>2, <2>3
<1>8. Remaining = LastLength(n) /\ LastLength(n) \in 0 .. BlockSize
  BY <1>3, <1>4, <1>5, <1>6, <1>7 DEF Remaining, LastLength
<1>9. off[n] \in Block /\ sum[n] \in Block
  <2>1. Trace(n, off, sum) /\ n \in 0 .. n
    BY <1>3, <1>4 DEF Encrypted
  <2> QED
    BY <2>1 DEF Trace
<1> DEFINE o == s2(off[n])
           pad == Pad(n, o)
           last == LastBlock(n, o)
           over == LastOver(Zero)
           p == Xor(over, pad)
<1>10. /\ \A i \in 1 .. LastLength(n) : cipher[At(n) + i] = Xor(pad, last)[i]
       /\ tag = TagOf(o, Xor(sum[n], last))
  BY <1>4 DEF Encrypted
<1>11. /\ offset' = o /\ checksum' = Xor(checksum, p)
       /\ buf' = Overwrite(p, LastLength(n)) /\ result' = TagOf(o, Xor(checksum, p))
       /\ phase' = "done" /\ UNCHANGED <<packet, start, tag, damaged>>
  <2>1. aes_encrypt(Xor(Bits(Remaining), s2(offset))) = pad
    BY <1>4, <1>7, <1>8 DEF Pad
  <2> QED
    BY <1>4, <1>7, <1>8, <2>1 DEF DecryptLast, Sum
<1>12. over \in Block
  <2>1. ASSUME NEW i \in 1 .. BlockSize
        PROVE  (IF i <= Remaining THEN buf[start + i] ELSE Zero[i]) \in Bit
    <3>1. i <= Remaining => start + i \in 1 .. Len(message)
      BY <1>3, <1>4, <1>5 DEF Remaining
    <3> QED
      BY <1>1, <3>1, ZeroBlock DEF Typed, Block
  <2> QED
    BY <2>1 DEF LastOver, Block
<1>13. o \in Block /\ checksum \in Block /\ Keyed
  BY <1>1, <1>9, DoubledBlock DEF Typed
<1>14. pad \in Block /\ last \in Block
  BY <1>1, <1>3, <1>6, <1>13, PadType, LastBlockType
<1>15. p \in Block /\ Xor(pad, last) \in Block
  BY <1>12, <1>14, XorBlock
<1>16. /\ \A i \in 1 .. LastLength(n) : over[i] = buf[At(n) + i] /\ last[i] = message[At(n) + i]
       /\ \A i \in 1 .. BlockSize : i > LastLength(n) => over[i] = 0 /\ last[i] = pad[i]
  BY <1>3, <1>4, <1>7, <1>8 DEF LastOver, LastBlock, Zero
<1> HIDE DEF o, pad, last, over
<1>17. ~damaged \/ n # q => over = Xor(pad, last)
  <2> SUFFICES ASSUME ~damaged \/ n # q,
                      NEW i \in 1 .. BlockSize
               PROVE  over[i] = Xor(pad, last)[i]
    BY <1>12, <1>15, BlockEqual
  <2>1. CASE i <= LastLength(n)
    <3>1. i \in 1 .. LastLength(n) /\ At(n) + i \in At(n) + 1 .. Len(message)
      BY <1>3, <1>5, <1>8, <2>1 DEF LastLength
    <3>2. damaged => ~InBlock(At(n) + i, q)
      BY <1>3, Elsewhere
    <3>3. buf[At(n) + i] = cipher[At(n) + i]
      BY <1>2, <1>7, <3>1, <3>2 DEF Decrypting
    <3> QED
      BY <1>10, <1>16, <3>1, <3>3
  <2>2. CASE i > LastLength(n)
    <3>1. Xor(pad, last)[i] = 0
      BY <1>14, <1>16, <2>2, XorBlock
    <3> QED
      BY <1>16, <2>2, <3>1
  <2> QED
    BY <1>8, <2>1, <2>2
<1>18. damaged /\ n = q => over # Xor(pad, last)
  <2> SUFFICES ASSUME damaged, n = q PROVE over # Xor(pad, last)
    OBVIOUS
  <2>1. PICK i \in At(n) + 1 .. Len(message) : buf[i] # cipher[i]
    BY <1>2, <1>3, <1>7 DEF Decrypting
  <2>2. i - At(n) \in 1 .. LastLength(n) /\ At(n) + (i - At(n)) = i
    BY <1>3, <1>5 DEF LastLength
  <2> QED
    BY <1>10, <1>16, <2>1, <2>2
<1>19. p = last <=> over = Xor(pad, last)
  <2>1. Xor(Xor(pad, last), pad) = last
    BY <1>14, XorUndone
  <2>2. Xor(over, pad) = Xor(Xor(pad, last), pad) => over = Xor(pad, last)
    BY <1>12, <1>14, <1>15, XorCancels
  <2> QED
    BY <2>1, <2>2
<1> HIDE DEF p
<1>20. Xor(checksum, p) = Xor(sum[n], last) <=> ~damaged
  <2>1. checksum = sum[n] <=> (damaged => n <= q)
    BY <1>2, <1>7 DEF Decrypting
  <2>2. Xor(sum[n], p) = Xor(sum[n], last) => p = last
    BY <1>9, <1>14, <1>15, XorCancels
  <2>3. Xor(checksum, last) = Xor(sum[n], last) => checksum = sum[n]
    BY <1>9, <1>13, <1>14, XorCancels
  <2>4. CASE ~damaged
    BY <1>17, <1>19, <2>1, <2>4
  <2>5. CASE damaged /\ n = q
    BY <1>3, <1>18, <1>19, <2>1, <2>2, <2>5
  <2>6. CASE damaged /\ n # q
    <3>1. ~(n <= q)
      BY <1>3, <2>6
    <3> QED
      BY <1>17, <1>19, <2>1, <2>3, <2>6, <3>1
  <2> QED
    BY <2>4, <2>5, <2>6
<1>21. result' = tag' <=> ~damaged'
  <2>1. Xor(checksum, p) \in Block /\ Xor(sum[n], last) \in Block
    BY <1>9, <1>13, <1>14, <1>15, XorBlock
  <2> QED
    BY <1>10, <1>11, <1>13, <1>20, <2>1, TagInjective
<1>22. message' = message /\ key' = key /\ nonce' = nonce
  BY <1>11 DEF packet
<1>23. /\ buf' \in [1 .. Len(message) -> Bit]
       /\ \A i \in 1 .. Len(message) :
             buf'[i] = IF i \in At(n) + 1 .. At(n) + LastLength(n) THEN p[i - At(n)] ELSE buf[i]
  BY <1>1, <1>4, <1>5, <1>7, <1>8, <1>11, <1>15, OverwriteType
<1>24. ~damaged => buf' = message
  <2> SUFFICES ASSUME ~damaged PROVE buf' = message
    OBVIOUS
  <2>1. ASSUME NEW i \in 1 .. Len(message) PROVE buf'[i] = message[i]
    <3>1. CASE i \in 1 .. At(n)
      <4>1. i \notin At(n) + 1 .. At(n) + LastLength(n)
        BY <1>5, <1>8, <3>1
      <4> QED
        BY <1>2, <1>7, <1>23, <3>1, <4>1 DEF Decrypting
    <3>2. CASE i \notin 1 .. At(n)
      <4>1. /\ i \in At(n) + 1 .. At(n) + LastLength(n) /\ i - At(n) \in 1 .. LastLength(n)
            /\ At(n) + (i - At(n)) = i
        BY <1>3, <1>5, <3>2 DEF LastLength
      <4> QED
        BY <1>16, <1>17, <1>19, <1>23, <4>1
    <3> QED
      BY <3>1, <3>2
  <2>2. message = [i \in 1 .. Len(message) |-> message[i]]
    BY <1>1 DEF Typed
  <2>3. buf' = [i \in 1 .. Len(message) |-> buf'[i]]
    BY <1>23
  <2> QED
    BY <2>1, <2>2, <2>3
<1>25. Typed'
  <2>1. Xor(checksum, p) \in Block
    BY <1>13, <1>15, XorBlock
  <2> QED
    BY <1>1, <1>11, <1>13, <1>22, <1>23, <2>1 DEF Typed, Keyed, Block
<1> QED
  BY <1>11, <1>21, <1>22, <1>24, <1>25 DEF IInv, Progress, RoundTrip, TagsAgree, DamageDetected

LEMMA NextIInv == IInv /\ [Next]_vars => IInv'
<1> SUFFICES ASSUME IInv, [Next]_vars PROVE IInv'
  OBVIOUS
<1>1. CASE UNCHANGED vars
  <2>1. /\ key' = key /\ nonce' = nonce /\ message' = message /\ phase' = phase
        /\ buf' = buf /\ start' = start /\ offset' = offset /\ checksum' = checksum
        /\ tag' = tag /\ result' = result /\ damaged' = damaged
    BY <1>1 DEF vars, packet
  <2>2. Typed' /\ RoundTrip' /\ TagsAgree' /\ DamageDetected'
    BY <2>1 DEF IInv, Typed, Keyed, Block, RoundTrip, TagsAgree, DamageDetected
  <2>3. UNCHANGED <<packet, tag>> /\ UNCHANGED packet
    BY <2>1 DEF packet
  <2>4. ASSUME NEW n \in Numbers, NEW off \in [0 .. n -> Block], NEW sum \in [0 .. n -> Block],
               phase = "encrypt", Encrypting(n, off, sum)
        PROVE  Progress'
    <3>1. PICK b : b = buf
      OBVIOUS
    <3>2. Trace(n, off, sum)' /\ Enciphers(n, off, b)'
      BY <2>3, <2>4, <3>1, PacketStays DEF Encrypting
    <3>3. Encrypting(n, off, sum)'
      BY <2>1, <2>4, <3>1, <3>2 DEF Encrypting, At
    <3> QED
      BY <2>1, <2>4, <3>3 DEF Progress, Numbers, Block
  <2>5. ASSUME NEW n \in Numbers, NEW off \in [0 .. n -> Block], NEW sum \in [0 .. n -> Block],
               phase = "network", Encrypted(n, off, sum, buf)
        PROVE  Progress'
    <3>1. PICK b : b = buf
      OBVIOUS
    <3>2. Encrypted(n, off, sum, b)'
      BY <2>3, <2>5, <3>1, EncryptedStays
    <3>3. Encrypted(n, off, sum, buf)'
      BY <2>1, <3>1, <3>2
    <3> QED
      BY <2>1, <2>5, <3>3 DEF Progress, Numbers, Block
  <2>6. ASSUME NEW n \in Numbers, NEW off \in [0 .. n -> Block], NEW sum \in [0 .. n -> Block],
               NEW cipher \in [1 .. Len(message) -> Bit], NEW d \in 0 .. n, NEW q \in 0 .. n,
               phase = "decrypt", Decrypting(n, off, sum, cipher, d, q)
        PROVE  Progress'
    <3>1. Encrypted(n, off, sum, cipher)'
      BY <2>3, <2>6, EncryptedStays DEF Decrypting
    <3>2. Decrypting(n, off, sum, cipher, d, q)'
      BY <2>1, <2>6, <3>1 DEF Decrypting, At, InBlock
    <3>3. cipher \in [1 .. Len(message') -> Bit] /\ n \in Numbers' /\ Block' = Block
      BY <2>1 DEF Numbers, Block
    <3> QED
      BY <2>1, <2>6, <3>2, <3>3 DEF Progress
  <2>7. Progress'
    <3>1. CASE phase = "done"
      BY <2>1, <3>1 DEF Progress
    <3> QED
      BY <2>4, <2>5, <2>6, <3>1 DEF IInv, Progress, Typed
  <2> QED
    BY <2>2, <2>7 DEF IInv
<1>2. CASE Done
  BY <1>1, <1>2 DEF Done
<1> QED
  BY <1>1, <1>2, EncryptBlockIInv, EncryptLastIInv, ArriveIInv, DecryptBlockIInv,
     DecryptLastIInv DEF Next

-----------------------------------------------------------------------------
\* ocb_decrypt restores what ocb_encrypt was given, in place, unless the packet was
\* damaged: block by block, and at the end for what is left, whatever its length.
THEOREM Restored == Spec => []RoundTrip
<1>1. IInv => RoundTrip
  BY DEF IInv
<1> QED
  BY InitIInv, NextIInv, <1>1, PTL DEF Spec

\* decrypt does not reject an undamaged packet: ocb_decrypt returns the tag that
\* ocb_encrypt returned.
THEOREM TagAccepted == Spec => []TagsAgree
<1>1. IInv => TagsAgree
  BY DEF IInv
<1> QED
  BY InitIInv, NextIInv, <1>1, PTL DEF Spec

\* A packet with other bytes in one block is rejected, with certainty and under
\* every key: the checksum covers each block, the last one with its pad.
THEOREM DamageNoticed == Spec => []DamageDetected
<1>1. IInv => DamageDetected
  BY DEF IInv
<1> QED
  BY InitIInv, NextIInv, <1>1, PTL DEF Spec

=============================================================================
