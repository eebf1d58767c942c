--------------------------------- MODULE Ocb ---------------------------------
(***************************************************************************)
(* ocb_encrypt and ocb_decrypt of mumble-protocol/src/crypt.rs: a packet   *)
(* is encrypted in place block by block, damaged on the network or not,    *)
(* and decrypted in place. What is left for the end is never more than a   *)
(* block, may be a whole one, and is empty only if the packet is.          *)
(*                                                                         *)
(* Blocks are scaled down: a byte is one bit, so that a block is a         *)
(* function from 1 .. BlockSize to bits, most significant first, and ^ is  *)
(* pointwise. AES under some key is any permutation of the blocks. The tag *)
(* is the whole block; the header carries three bytes of it.               *)
(***************************************************************************)
EXTENDS Integers, Sequences, Functions

CONSTANTS
    BlockSize,   \* BLOCK_SIZE, 16 in the code
    Poly,        \* 0x86 in the code
    MaxLen       \* bound: the longest packet

Bit   == {0, 1}
Block == [1 .. BlockSize -> Bit]

ASSUME OcbAssumption ==
    /\ BlockSize \in Nat \ {0}
    /\ Poly \in Block
    /\ MaxLen \in Nat

VARIABLES
    key,       \* what AES does under the shared key
    nonce,     \* the nonce of the packet, known to both ends
    message,   \* the encoded packet
    phase,     \* which function runs
    buf,       \* the buffer: the packet, encrypted, decrypted
    start,     \* where the rest of buf begins that is still to be done
    offset,
    checksum,
    tag,       \* what ocb_encrypt returned, in the header
    result,    \* what ocb_decrypt returned
    damaged    \* the network changed one block

packet == <<key, nonce, message>>
vars == <<packet, phase, buf, start, offset, checksum, tag, result, damaged>>

-----------------------------------------------------------------------------
Zero == [i \in 1 .. BlockSize |-> 0]

\* x ^ y
Xor(x, y) == [i \in 1 .. BlockSize |-> (x[i] + y[i]) % 2]

\* rotate left; the bit that came round selects Poly
s2(x) ==
    LET rot == [i \in 1 .. BlockSize |-> IF i = BlockSize THEN x[1] ELSE x[i + 1]]
    IN  IF rot[BlockSize] = 1 THEN Xor(rot, Poly) ELSE rot

aes_encrypt(x) == key[x]
aes_decrypt(x) == CHOOSE y \in Block : key[y] = x

\* the bits in the last block, (len * 8) as u128, as a block
Bits(len) ==
    [i \in 1 .. BlockSize |-> IF (len \div 2 ^ (BlockSize - i)) % 2 = 1 THEN 1 ELSE 0]

\* the rest of the buffer; its first block; buf with it overwritten
Remaining   == Len(buf) - start
Chunk       == [i \in 1 .. BlockSize |-> buf[start + i]]
Overwrite(b, len) ==
    [i \in 1 .. Len(buf) |->
        IF i \in start + 1 .. start + len THEN b[i - start] ELSE buf[i]]

\* block[..len].copy_from_slice(buf), over what block was
LastOver(block) ==
    [i \in 1 .. BlockSize |-> IF i <= Remaining THEN buf[start + i] ELSE block[i]]

\* a plausible slip: the checksum covers only the last block
SumLast(sum, plain) == plain

\* checksum ^= plain
Sum(sum, plain) == Xor(sum, plain)

\* the value both functions return, of the last offset and checksum
TagOf(off, sum) == aes_encrypt(Xor(Xor(off, s2(off)), sum))

\* of the nonce in the byte order of the host (to_be), taken to be the same at
\* both ends
FirstOffset == aes_encrypt(nonce)

Init ==
    /\ key \in Bijection(Block, Block)
    /\ nonce \in Block
    /\ message \in UNION {[1 .. n -> Bit] : n \in 0 .. MaxLen}
    /\ phase = "encrypt" /\ buf = message /\ start = 0
    /\ offset = FirstOffset /\ checksum = Zero
    /\ tag = Zero /\ result = Zero /\ damaged = FALSE

-----------------------------------------------------------------------------
(* ocb_encrypt *)

\* a plausible slip: >= for >, so that nothing may be left for the end
EncryptAllBlocks ==
    /\ phase = "encrypt"
    /\ Remaining >= BlockSize
    /\ LET off == s2(offset)
           encrypted == Xor(aes_encrypt(Xor(off, Chunk)), off)
       IN  /\ offset' = off
           /\ buf' = Overwrite(encrypted, BlockSize)
           /\ checksum' = Sum(checksum, Chunk)
    /\ start' = start + BlockSize
    /\ UNCHANGED <<packet, phase, tag, result, damaged>>

EncryptBlock ==
    /\ phase = "encrypt"
    /\ Remaining > BlockSize
    /\ LET off == s2(offset)
           encrypted == Xor(aes_encrypt(Xor(off, Chunk)), off)
       IN  /\ offset' = off
           /\ buf' = Overwrite(encrypted, BlockSize)
           /\ checksum' = Sum(checksum, Chunk)
    /\ start' = start + BlockSize
    /\ UNCHANGED <<packet, phase, tag, result, damaged>>

\* what is left is padded with pad, whose tail therefore encrypts to zeros
EncryptLast ==
    /\ phase = "encrypt"
    /\ Remaining <= BlockSize
    /\ LET off == s2(offset)
           pad == aes_encrypt(Xor(Bits(Remaining), off))
           plain == LastOver(pad)
       IN  /\ offset' = off
           /\ buf' = Overwrite(Xor(pad, plain), Remaining)
           /\ checksum' = Sum(checksum, plain)
           /\ tag' = TagOf(off, checksum')
    /\ phase' = "network"
    /\ UNCHANGED <<packet, start, result, damaged>>

-----------------------------------------------------------------------------
(* The network *)

\* the blocks of the buffer as both functions cut it
BlockOf(i) == (i - 1) \div BlockSize

\* The packet arrives, or arrives with other bytes in one of its blocks.
Arrive ==
    /\ phase = "network"
    /\ phase' = "decrypt" /\ start' = 0
    /\ offset' = FirstOffset /\ checksum' = Zero
    /\ \/ UNCHANGED <<buf, damaged>>
       \/ /\ buf' \in {b \in [1 .. Len(buf) -> Bit] :
                         /\ b # buf
                         /\ \A i, j \in 1 .. Len(buf) :
                               b[i] # buf[i] /\ b[j] # buf[j]
                                   => BlockOf(i) = BlockOf(j)}
          /\ damaged' = TRUE
    /\ UNCHANGED <<packet, tag, result>>

-----------------------------------------------------------------------------
(* ocb_decrypt *)

DecryptBlock ==
    /\ phase = "decrypt"
    /\ Remaining > BlockSize
    /\ LET off == s2(offset)
           plain == Xor(aes_decrypt(Xor(off, Chunk)), off)
       IN  /\ offset' = off
           /\ buf' = Overwrite(plain, BlockSize)
           /\ checksum' = Sum(checksum, plain)
    /\ start' = start + BlockSize
    /\ UNCHANGED <<packet, phase, tag, result, damaged>>

\* a plausible slip: the zeros past the end are not decrypted with the rest
DecryptLastUnpadded ==
    /\ phase = "decrypt"
    /\ Remaining <= BlockSize
    /\ LET off == s2(offset)
           pad == aes_encrypt(Xor(Bits(Remaining), off))
           plain == [i \in 1 .. BlockSize |->
                        IF i <= Remaining THEN Xor(LastOver(Zero), pad)[i] ELSE 0]
       IN  /\ offset' = off
           /\ buf' = Overwrite(plain, Remaining)
           /\ checksum' = Sum(checksum, plain)
           /\ result' = TagOf(off, checksum')
    /\ phase' = "done"
    /\ UNCHANGED <<packet, start, tag, damaged>>

DecryptLast ==
    /\ phase = "decrypt"
    /\ Remaining <= BlockSize
    /\ LET off == s2(offset)
           pad == aes_encrypt(Xor(Bits(Remaining), off))
           plain == Xor(LastOver(Zero), pad)
       IN  /\ offset' = off
           /\ buf' = Overwrite(plain, Remaining)
           /\ checksum' = Sum(checksum, plain)
           /\ result' = TagOf(off, checksum')
    /\ phase' = "done"
    /\ UNCHANGED <<packet, start, tag, damaged>>

\* both functions have returned
Done == phase = "done" /\ UNCHANGED vars

Next ==
    \/ EncryptBlock
    \/ EncryptLast
    \/ Arrive
    \/ DecryptBlock
    \/ DecryptLast
    \/ Done

Spec == Init /\ [][Next]_vars

-----------------------------------------------------------------------------
(* Properties *)

\* An undamaged packet is restored, whatever its length: both functions cut
\* it into the same blocks, and neither writes past what is left at the end.
RoundTrip == phase = "done" /\ ~damaged => buf = message

\* An undamaged packet passes the comparison of tags in decrypt: both sides
\* fold the same padded last block into the checksum.
TagsAgree == phase = "done" /\ ~damaged => result = tag

\* Other bytes in one block, and in one only, always change the tag, wherever
\* the block is: no block is left out of the checksum. (That the tag changes
\* when several blocks are damaged is only a matter of probability.)
DamageDetected == phase = "done" /\ damaged => result # tag

=============================================================================
