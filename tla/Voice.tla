-------------------------------- MODULE Voice --------------------------------
(***************************************************************************)
(* Voice packets and their encoding (mumble-protocol/src/voice.rs). A      *)
(* packet is encoded for the direction it travels in: clientbound ones     *)
(* carry the speaker's session id.                                         *)
(*                                                                         *)
(* The bit of the opus header that ends a transmission is scaled down with *)
(* the frames: an opus frame has to be shorter than TermBit.               *)
(***************************************************************************)
EXTENDS Varint

CONSTANT TermBit  \* 0x2000 in the code

ASSUME TermBitAssumption == \E e \in 0 .. 23 : TermBit = 2^e
ASSUME TermBitWidth == TermBit \in Nat /\ TermBit > 0 /\ TermBit <= 8388608

\* the destinations a packet is encoded for
Dsts == {"Serverbound", "Clientbound"}

\* Audio kinds as the header has them; 1 is a Ping.
CeltAlpha == 0
Ping      == 1
Speex     == 2
CeltBeta  == 3
Opus      == 4

\* A packet is
\*   [kind, timestamp]                                           Ping
\*   [kind, target, session_id, seq_num, frames, term, position] Audio
\* timestamp, seq_num and session_id are u64s; session_id of a serverbound
\* packet is (), that is Unit. frames is a sequence of byte sequences, of
\* which Opus has one. term is false but for Opus. position is <<>> for None,
\* or <<bytes>>.
Unit == Widen(<<>>)

\* n as u64
U64Of(n) == Widen(<<(n \div 65536) % 256, (n \div 256) % 256, n % 256>>)

\* v as usize, for v < 2^24
NatOf(v) == (v[6] * 256 + v[7]) * 256 + v[8]

\* n | bit and n & !bit, for a power of two
Set(n, bit)   == IF Clear(n, bit) THEN n + bit ELSE n
Unset(n, bit) == IF Clear(n, bit) THEN n ELSE n - bit

PingPackets == [kind : {Ping}, timestamp : U64]
AudioPackets ==
    [kind : {CeltAlpha, Speex, CeltBeta, Opus}, target : Nat, session_id : U64, seq_num : U64,
     frames : Seq(Seq(Byte)), term : BOOLEAN, position : Seq(Seq(Byte))]

-----------------------------------------------------------------------------
(* encode *)

\* write_session_id
write_session_id(dst, id) == IF dst = "Clientbound" THEN write_varint(id) ELSE <<>>

\* a plausible slip: the last frame announces another
FrameContinued(frames, i) ==
    <<Set(Len(frames[i]) % 256, 128)>> \o frames[i]

\* A frame of the other codecs: its length as u8, and a bit if more follow.
Frame(frames, i) ==
    <<IF i < Len(frames) THEN Set(Len(frames[i]) % 256, 128) ELSE Len(frames[i]) % 256>>
        \o frames[i]

\* the frames from the i-th on
Frames(frames) ==
    LET rest[i \in 1 .. Len(frames) + 1] ==
            IF i > Len(frames) THEN <<>> ELSE Frame(frames, i) \o rest[i + 1]
    IN  rest[1]

EncodePayload(p) ==
    IF p.kind = Opus
    THEN write_varint(U64Of(IF p.term THEN Set(Len(p.frames[1]), TermBit) ELSE Len(p.frames[1])))
            \o p.frames[1]
    ELSE Frames(p.frames)

Encode(dst, p) ==
    IF p.kind = Ping
    THEN <<32>> \o write_varint(p.timestamp)
    ELSE <<p.kind * 32 + (p.target % 32)>>
            \o write_session_id(dst, p.session_id)
            \o write_varint(p.seq_num)
            \o EncodePayload(p)
            \o (IF p.position = <<>> THEN <<>> ELSE p.position[1])

-----------------------------------------------------------------------------
(* decode *)

\* what is read up to a position, and that position
Parsed(value, next) == [ok |-> TRUE, value |-> value, next |-> next]

\* v as u32
U32(v) == Widen(SubSeq(v, 5, 8))

read_session_id(dst, s, i) ==
    IF dst = "Serverbound" THEN Parsed(Unit, i)
    ELSE LET id == read_varint(s, i)
         IN  IF id.ok THEN Parsed(U32(id.value), id.next) ELSE Err

\* the loop over the frames of the other codecs, from position i on
ReadFrames(s, i) ==
    LET read[k \in 1 .. Len(s) + 1] ==
            IF k > Len(s) THEN Err
            ELSE LET len == s[k] % 128
                     end == k + len + 1
                     one == SubSeq(s, k + 1, end - 1)
                 IN  IF end > Len(s) + 1 THEN Err
                     ELSE IF s[k] < 128 THEN Parsed(<<one>>, end)
                     ELSE IF ~read[end].ok THEN Err
                     ELSE Parsed(<<one>> \o read[end].value, read[end].next)
    IN  read[i]

\* a plausible slip: a frame that is cut off is taken as far as it goes
ReadOpusShort(s, i) ==
    LET header == read_varint(s, i)
    IN  IF ~header.ok \/ ~Fits(header.value, 3) THEN Err
        ELSE LET n   == NatOf(header.value)
                 end == header.next + Unset(n, TermBit)
             IN  [ok |-> TRUE, term |-> ~Clear(n, TermBit),
                  value |-> <<SubSeq(s, header.next, IF end > Len(s) THEN Len(s) ELSE end - 1)>>,
                  next |-> end]

\* The opus frame. A length of 2^24 or more is longer than any buffer.
ReadOpus(s, i) ==
    LET header == read_varint(s, i)
    IN  IF ~header.ok \/ ~Fits(header.value, 3) THEN Err
        ELSE LET n   == NatOf(header.value)
                 end == header.next + Unset(n, TermBit)
             IN  IF end > Len(s) + 1 THEN Err
                 ELSE [ok |-> TRUE, term |-> ~Clear(n, TermBit),
                       value |-> <<SubSeq(s, header.next, end - 1)>>, next |-> end]

\* what follows the payload, if anything
Position(s, i) == IF i > Len(s) THEN <<>> ELSE <<SubSeq(s, i, Len(s))>>

DecodeAudio(dst, s) ==
    LET kind    == s[1] \div 32
        id      == read_session_id(dst, s, 2)
        seq     == read_varint(s, id.next)
        payload == IF kind = Opus THEN ReadOpus(s, seq.next) ELSE ReadFrames(s, seq.next)
    IN  IF ~id.ok THEN Err
        ELSE IF ~seq.ok THEN Err
        ELSE IF kind > Opus THEN Err
        ELSE IF ~payload.ok THEN Err
        ELSE [ok |-> TRUE,
              packet |-> [kind |-> kind, target |-> s[1] % 32, session_id |-> id.value,
                          seq_num |-> seq.value, frames |-> payload.value,
                          term |-> (kind = Opus /\ payload.term),
                          position |-> Position(s, payload.next)]]

\* A packet is the whole buffer, or an error. The rest behind a Ping is ignored.
Decode(dst, s) ==
    IF s = <<>> THEN Err
    ELSE IF s[1] \div 32 = Ping
    THEN LET timestamp == read_varint(s, 2)
         IN  IF timestamp.ok
             THEN [ok |-> TRUE, packet |-> [kind |-> Ping, timestamp |-> timestamp.value]]
             ELSE Err
    ELSE DecodeAudio(dst, s)

-----------------------------------------------------------------------------
(***************************************************************************)
(* The packets the encoding is for. The encoder checks none of this: a     *)
(* longer frame runs into the bit beside its length, a packet without      *)
(* frames lacks its last one, and an empty position is none. The client    *)
(* stays within: its opus frames have at most 1024 bytes                   *)
(* (stutter/src/task_audio_codec.rs), target is 0, position None. The      *)
(* server passes on what it decoded, which may be more: the decoder clears *)
(* one bit of an opus length and takes the bits above it, so that lengths  *)
(* from twice TermBit on come through. They are left out here.             *)
(***************************************************************************)
Encodable(dst, p) ==
    IF p.kind = Ping THEN p.timestamp \in U64
    ELSE /\ p.target \in 0 .. 31
         /\ p.session_id \in U64 /\ Fits(p.session_id, 4)
         /\ dst = "Serverbound" => p.session_id = Unit
         /\ p.seq_num \in U64
         /\ p.frames # <<>>
         /\ p.kind = Opus => Len(p.frames) = 1 /\ Len(p.frames[1]) < TermBit
         /\ p.kind # Opus => ~p.term /\ \A i \in DOMAIN p.frames : Len(p.frames[i]) < 128
         /\ p.position # <<>> => Len(p.position) = 1 /\ p.position[1] # <<>>

=============================================================================
