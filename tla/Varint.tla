------------------------------- MODULE Varint -------------------------------
(***************************************************************************)
(* Mumble's variable-length integers (mumble-protocol/src/varint.rs).      *)
(*                                                                         *)
(* A u64 is its eight bytes, most significant first, so that the model has *)
(* the code's full width: shifts and casts select bytes, ! complements     *)
(* each, and a comparison with a constant looks at the bytes above it.     *)
(***************************************************************************)
EXTENDS Integers, Sequences

Byte == 0 .. 255

U64 == [1 .. 8 -> Byte]

\* !v
Not(v) == [i \in 1 .. 8 |-> 255 - v[i]]

\* v < 256^n
Fits(v, n) == \A i \in 1 .. 8 - n : v[i] = 0

\* the number with these bytes as its least significant ones
Widen(bytes) ==
    [i \in 1 .. 8 |-> IF i + Len(bytes) > 8 THEN bytes[i + Len(bytes) - 8] ELSE 0]

-----------------------------------------------------------------------------
(* write_varint *)

\* the four least negative numbers, in one byte
TinyNegative(v) == (\A i \in 1 .. 7 : v[i] = 255) /\ v[8] >= 252

Negative(v) == v[1] >= 128

\* a plausible slip: the 14-bit form is given numbers of 15 bits
WritePositiveShort(v) ==
    IF      ~Fits(v, 4)              THEN <<244>> \o v
    ELSE IF v[5] > 15                THEN <<240>> \o SubSeq(v, 5, 8)
    ELSE IF v[5] > 0 \/ v[6] > 31    THEN <<224 + v[5], v[6], v[7], v[8]>>
    ELSE IF v[6] > 0 \/ v[7] > 127   THEN <<192 + v[6], v[7], v[8]>>
    ELSE IF v[7] > 0 \/ v[8] > 127   THEN <<128 + v[7], v[8]>>
    ELSE <<v[8]>>

\* The first form that is wide enough, widest first as in the code: eight
\* bytes, four, 28 bits, 21 bits, 14 bits, 7 bits.
WritePositive(v) ==
    IF      ~Fits(v, 4)             THEN <<244>> \o v
    ELSE IF v[5] > 15               THEN <<240>> \o SubSeq(v, 5, 8)
    ELSE IF v[5] > 0 \/ v[6] > 31   THEN <<224 + v[5], v[6], v[7], v[8]>>
    ELSE IF v[6] > 0 \/ v[7] > 63   THEN <<192 + v[6], v[7], v[8]>>
    ELSE IF v[7] > 0 \/ v[8] > 127  THEN <<128 + v[7], v[8]>>
    ELSE <<v[8]>>

\* The call to itself for a negative number is for its complement, which is
\* positive: it does not call itself again.
write_varint(v) ==
    IF      TinyNegative(v) THEN <<252 + (255 - v[8])>>
    ELSE IF Negative(v)     THEN <<248>> \o WritePositive(Not(v))
    ELSE WritePositive(v)

-----------------------------------------------------------------------------
(* read_varint *)

\* b & (1 << bit) == 0, for the weight of the bit
Clear(b, weight) == (b \div weight) % 2 = 0

\* how many bytes follow the first one, b, in the order the code tests its bits
Following(b) ==
    IF      b >= 252 \/ Clear(b, 128) THEN 0
    ELSE IF Clear(b, 64)              THEN 1
    ELSE IF Clear(b, 32)              THEN 2
    ELSE IF Clear(b, 16)              THEN 3
    ELSE IF Clear(b, 4)               THEN 4
    ELSE 8

\* what the first byte contributes to a positive number
Leading(b) ==
    CASE Following(b) = 0 -> <<b % 128>>
      [] Following(b) = 1 -> <<b % 64>>
      [] Following(b) = 2 -> <<b % 32>>
      [] Following(b) = 3 -> <<b % 16>>
      [] OTHER            -> <<>>

\* A first byte that announces the complement of the number that follows.
Negates(b) == b \in 248 .. 251

\* UnexpectedEof, or another error
Err == [ok |-> FALSE]

\* The number at the positions from i on of s, and the position behind it. The
\* call to itself behind each negating byte is unrolled: k is the first byte
\* that is none, and the complements of the calls in between cancel in pairs.
\* There is no stack here to run out of: the code's calls are as deep as there
\* are negating bytes in a row, which only the length of the body bounds.
read_varint(s, i) ==
    LET first == {k \in i .. Len(s) : /\ ~Negates(s[k])
                                      /\ \A j \in i .. k - 1 : Negates(s[j])}
    IN  IF first = {} THEN Err
        ELSE LET k     == CHOOSE k \in first : TRUE
                 b     == s[k]
                 next  == k + Following(b) + 1
                 value == IF b >= 252 THEN Not(Widen(<<b % 4>>))
                          ELSE Widen(Leading(b) \o SubSeq(s, k + 1, next - 1))
             IN  IF next > Len(s) + 1 THEN Err
                 ELSE [ok    |-> TRUE,
                       value |-> IF (k - i) % 2 = 0 THEN value ELSE Not(value),
                       next  |-> next]

=============================================================================
