-------------------------------- MODULE Wire --------------------------------
(***************************************************************************)
(* One direction of the connection between a client and the server: the    *)
(* control packets that one end sends, as the bytes ControlCodec makes of  *)
(* them (mumble-protocol/src/control.rs), cut anywhere by the network and  *)
(* put together again by the other end's Framed.                           *)
(*                                                                         *)
(* A packet is [name, body]. The body of a UDPTunnel is a voice packet; of *)
(* a packet of unknown type, Other, it is the raw packet; of any other it  *)
(* is the protobuf message, for which its serialisation stands. A raw      *)
(* packet is [id, bytes].                                                  *)
(***************************************************************************)
EXTENDS Voice

CONSTANTS
    Dst,        \* where the packets travel to
    MaxLength,  \* longest body the decoder takes: 0x7f_ffff in the code
    Malformed,  \* byte sequences that are no protobuf message
    Packets,    \* packets the one end sends
    ReadSizes,  \* how many bytes a read may yield, if so many are there
    MaxSent     \* bound: packets sent

ASSUME WireAssumption ==
    /\ Dst \in Dsts /\ MaxLength \in Nat /\ MaxSent \in Nat
    /\ ReadSizes \subseteq Nat \ {0}

VARIABLES
    sent,      \* packets sent, in order (not in the code)
    wire,      \* bytes sent and not read
    buf,       \* bytes read and not decoded
    received,  \* packets the reading task was given, in order
    writer,    \* what became of the sending end
    reader     \* where the reading end's Framed is

vars == <<sent, wire, buf, received, writer, reader>>

-----------------------------------------------------------------------------
(* Packets and raw packets *)

\* define_packets!: a type's id is its place in the list. The three types of
\* the webrtc-extensions are not compiled in.
PacketNames == <<
    "Version", "UDPTunnel", "Authenticate", "Ping", "Reject", "ServerSync",
    "ChannelRemove", "ChannelState", "UserRemove", "UserState", "BanList",
    "TextMessage", "PermissionDenied", "ACL", "QueryUsers", "CryptSetup",
    "ContextActionModify", "ContextAction", "UserList", "VoiceTarget",
    "PermissionQuery", "CodecVersion", "UserStats", "RequestBlob",
    "ServerConfig", "SuggestConfig">>

Known(id) == id + 1 \in DOMAIN PacketNames

IdOf(name) == (CHOOSE i \in DOMAIN PacketNames : PacketNames[i] = name) - 1

\* From<VoicePacket>, From<msgs::..>, From<ControlPacket> for RawControlPacket.
\* A message is its bytes: write_to_bytes().unwrap(), which panics if a required
\* field is missing, has succeeded.
VoiceIntoRaw(voice) == [id |-> IdOf("UDPTunnel"), bytes |-> Encode(Dst, voice)]
MessageIntoRaw(p)   == [id |-> IdOf(p.name), bytes |-> p.body]
IntoRaw(p) ==
    CASE p.name = "Other"     -> p.body
      [] p.name = "UDPTunnel" -> VoiceIntoRaw(p.body)
      [] OTHER                -> MessageIntoRaw(p)

Packet(name, body) == [ok |-> TRUE, packet |-> [name |-> name, body |-> body]]

\* TryFrom<Bytes> for VoicePacket and, by protobuf::parse_from_bytes, for the
\* messages; TryFrom<RawControlPacket> for ControlPacket
VoiceFromBytes(bytes) ==
    LET voice == Decode(Dst, bytes)
    IN  IF voice.ok THEN Packet("UDPTunnel", voice.packet) ELSE Err
ParseFromBytes(name, bytes) ==
    IF bytes \in Malformed THEN Err ELSE Packet(name, bytes)
FromRaw(raw) ==
    IF ~Known(raw.id) THEN Packet("Other", raw)
    ELSE LET name == PacketNames[raw.id + 1]
         IN  IF name = "UDPTunnel" THEN VoiceFromBytes(raw.bytes)
             ELSE ParseFromBytes(name, raw.bytes)

-----------------------------------------------------------------------------
(* RawControlCodec *)

\* what fits the u16 and the u32 of the header
U16Number(n) == n \in Nat /\ n \div 256 \in Byte
U32Number(n) == n \in Nat /\ n \div 16777216 \in Byte
RawPackets ==
    {raw \in [id : Nat, bytes : Seq(Byte)] : U16Number(raw.id) /\ U32Number(Len(raw.bytes))}

\* Packets are of the code's types, voice is within the limits of its encoding,
\* and a raw packet put under the id of a known type is one that is refused.
Sendable(p) ==
    \/ /\ p \in [name : {"UDPTunnel"}, body : PingPackets \cup AudioPackets]
       /\ Encodable(Dst, p.body)
    \/ /\ p \in [name : {"Other"}, body : RawPackets]
       /\ Known(p.body.id) => ~FromRaw(p.body).ok \/ Len(p.body.bytes) > MaxLength
    \/ p \in [name : {PacketNames[i] : i \in DOMAIN PacketNames} \ {"UDPTunnel"},
              body : Seq(Byte)]

ASSUME PacketsAssumption ==
    \A p \in Packets : Sendable(p) /\ U32Number(Len(IntoRaw(p).bytes))

\* Encoder: id as u16, length as u32, body. It does not look at MaxLength.
EncodeRaw(raw) ==
    LET len == Len(raw.bytes)
    IN  <<raw.id \div 256, raw.id % 256>>
            \o <<len \div 16777216, (len \div 65536) % 256, (len \div 256) % 256, len % 256>>
            \o raw.bytes

HeaderSize == 6

RawId(b)     == b[1] * 256 + b[2]
RawLength(b) == ((b[3] * 256 + b[4]) * 256 + b[5]) * 256 + b[6]

\* a plausible slip: a packet is complete only when more has come
HasPacketAndMore(b) ==
    Len(b) >= HeaderSize /\ Len(b) > HeaderSize + RawLength(b)

\* a whole packet is there: decode returns it
HasPacket(b) ==
    Len(b) >= HeaderSize /\ RawLength(b) <= MaxLength /\ Len(b) >= HeaderSize + RawLength(b)

\* decode returns an error, as soon as the header is there
TooLong(b) == Len(b) >= HeaderSize /\ RawLength(b) > MaxLength

RawPacket(b) ==
    [id |-> RawId(b), bytes |-> SubSeq(b, HeaderSize + 1, HeaderSize + RawLength(b))]

\* what decode leaves in the buffer
Rest(b) == SubSeq(b, HeaderSize + RawLength(b) + 1, Len(b))

-----------------------------------------------------------------------------
Init ==
    /\ sent = <<>> /\ wire = <<>> /\ buf = <<>> /\ received = <<>>
    /\ writer = "open" /\ reader = "reading"

\* ControlCodec::encode, and the bytes are on their way
Send(p) ==
    /\ writer = "open"
    /\ Len(sent) < MaxSent
    /\ sent' = Append(sent, p)
    /\ wire' = wire \o EncodeRaw(IntoRaw(p))
    /\ UNCHANGED <<buf, received, writer, reader>>

\* the sending end closes the connection when everything is on its way
Close ==
    /\ writer = "open"
    /\ writer' = "closed"
    /\ UNCHANGED <<sent, wire, buf, received, reader>>

\* the sending end is gone, or the network is: what is on its way is lost, and
\* with it the rest of a packet that has been read in part
Break ==
    /\ writer = "open"
    /\ wire' = <<>>
    /\ writer' = "broken"
    /\ UNCHANGED <<sent, buf, received, reader>>

\* Framed reads once decode asked for more
Read(size) ==
    /\ reader = "reading"
    /\ wire # <<>>
    /\ LET k == IF size < Len(wire) THEN size ELSE Len(wire)
       IN  /\ buf' = buf \o SubSeq(wire, 1, k)
           /\ wire' = SubSeq(wire, k + 1, Len(wire))
    /\ reader' = "decoding"
    /\ UNCHANGED <<sent, received, writer>>

\* ControlCodec::decode yields a packet. Framed calls it again before it reads.
DecodePacket ==
    /\ reader = "decoding"
    /\ HasPacket(buf)
    /\ LET parsed == FromRaw(RawPacket(buf))
       IN  parsed.ok /\ received' = Append(received, parsed.packet)
    /\ buf' = Rest(buf)
    /\ UNCHANGED <<sent, wire, writer, reader>>

\* Ok(None): more bytes are needed
DecodeNone ==
    /\ reader = "decoding"
    /\ ~HasPacket(buf) /\ ~TooLong(buf)
    /\ reader' = "reading"
    /\ UNCHANGED <<sent, wire, buf, received, writer>>

\* An error, which both tasks take for the end of the connection. The packet
\* that does not parse is out of the buffer, one that is too long is not.
DecodeError ==
    /\ reader = "decoding"
    /\ \/ /\ TooLong(buf)
          /\ UNCHANGED buf
       \/ /\ HasPacket(buf)
          /\ ~FromRaw(RawPacket(buf)).ok
          /\ buf' = Rest(buf)
    /\ reader' = "failed"
    /\ UNCHANGED <<sent, wire, received, writer>>

\* decode_eof: an error if the buffer holds part of a packet, or else None
Eof ==
    /\ reader = "reading"
    /\ wire = <<>> /\ writer # "open"
    /\ reader' = IF buf = <<>> THEN "closed" ELSE "failed"
    /\ UNCHANGED <<sent, wire, buf, received, writer>>

Ended ==
    /\ reader \in {"failed", "closed"} /\ writer # "open"
    /\ UNCHANGED vars

Framed == (\E size \in ReadSizes : Read(size)) \/ DecodePacket \/ DecodeNone \/ DecodeError \/ Eof

Next ==
    \/ \E p \in Packets : Send(p)
    \/ Close
    \/ Break
    \/ Framed
    \/ Ended

Spec == Init /\ [][Next]_vars

-----------------------------------------------------------------------------
(* Properties *)

\* Buffers hold bytes, ends are in one of their states.
TypeOK ==
    /\ sent \in Seq(Packets) /\ Len(sent) <= MaxSent
    /\ wire \in Seq(Byte) /\ buf \in Seq(Byte)
    /\ received \in Seq(Packets)
    /\ writer \in {"open", "closed", "broken"}
    /\ reader \in {"reading", "decoding", "failed", "closed"}

\* What a program that uses this crate sends: voice within the limits of its
\* encoding, messages that protobuf wrote, unknown types under unknown ids, and
\* nothing longer than the decoder takes. The encoder checks none of it.
Sound(p) ==
    /\ CASE p.name = "UDPTunnel" -> Encodable(Dst, p.body)
         [] p.name = "Other"     -> ~Known(p.body.id)
         [] OTHER                -> p.body \notin Malformed
    /\ Len(IntoRaw(p).bytes) <= MaxLength

\* The connection is the channel of packets the tasks take it for, wherever the
\* network cuts the bytes: each is decoded whole, as what was sent, in order.
Channel == INSTANCE Fifo WITH ended <- reader \in {"failed", "closed"}
InOrder == Channel!Spec

\* No packet is kept back: once every byte is read and decode asks for more,
\* all packets sent are decoded and no byte is left over.
NothingWithheld ==
    reader = "reading" /\ wire = <<>> /\ writer # "broken" => received = sent /\ buf = <<>>

\* The reading end gives up only on a connection that broke off within a packet
\* or on a packet that is not sound, and has by then decoded all before it.
FailsOnlyOnUnsound ==
    reader = "failed" =>
        \/ writer = "broken"
        \/ Len(received) < Len(sent) /\ ~Sound(sent[Len(received) + 1])

\* A voice packet that is decoded would not have been with any part of its bytes
\* missing at the end: the decoder, which must not return Ok(None), has an error
\* for every part. (Behind a position nothing says where it ends.)
PartsRefused ==
    [][received' # received =>
        LET p == received'[Len(received')]
        IN  p.name = "UDPTunnel" /\ (p.body.kind # Ping => p.body.position = <<>>) =>
                \A part \in {SubSeq(buf, HeaderSize + 1, HeaderSize + k) :
                                k \in 0 .. RawLength(buf) - 1} :
                    ~Decode(Dst, part).ok]_vars

=============================================================================
