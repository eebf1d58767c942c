------------------------------- MODULE MCWire -------------------------------
(* The packets for model checking Wire: the edges of every encoding. *)
EXTENDS Wire

\* the numbers on both sides of each change of form, and some in between
Edges ==
    {Widen(<<127>>), Widen(<<128>>), Widen(<<63, 255>>), Widen(<<64, 0>>),
     Widen(<<31, 255, 255>>), Widen(<<32, 0, 0>>),
     Widen(<<15, 255, 255, 255>>), Widen(<<16, 0, 0, 0>>), Widen(<<1, 0, 0, 0, 0>>),
     Not(Widen(<<3>>)), Not(Widen(<<4>>)), Not(Widen(<<1, 0, 0, 0, 0>>))}

Bytes(n) == [i \in 1 .. n |-> 200 + (i % 50)]

Audio(kind, frames, term, position) ==
    [kind |-> kind, target |-> 31,
     session_id |-> IF Dst = "Clientbound" THEN Widen(<<1, 0>>) ELSE Unit,
     seq_num |-> Widen(<<64, 0>>), frames |-> frames, term |-> term, position |-> position]

Tunnel(voice) == [name |-> "UDPTunnel", body |-> voice]

VoicePackets ==
    {[kind |-> Ping, timestamp |-> v] : v \in Edges}
        \cup {Audio(Opus, <<Bytes(0)>>, TRUE, <<>>),
              Audio(Opus, <<Bytes(TermBit - 1)>>, FALSE, <<>>),
              Audio(Opus, <<Bytes(1)>>, FALSE, <<Bytes(3)>>),
              Audio(CeltAlpha, <<Bytes(127)>>, FALSE, <<>>),
              Audio(Speex, <<Bytes(0), Bytes(2), Bytes(0)>>, FALSE, <<>>),
              Audio(CeltBeta, <<Bytes(1), Bytes(3)>>, FALSE, <<Bytes(1)>>)}

MalformedBytes == {<<255>>}

\* Messages, an unknown type; a body that is too long, and three that do not
\* parse: a message, a voice packet cut off, one of an unknown kind.
AllPackets ==
    {Tunnel(v) : v \in VoicePackets}
        \cup {[name |-> "Version", body |-> Bytes(2)],
              [name |-> "SuggestConfig", body |-> <<>>],
              [name |-> "Other", body |-> [id |-> 26, bytes |-> Bytes(1)]],
              [name |-> "Other", body |-> [id |-> 300, bytes |-> Bytes(MaxLength + 1)]],
              [name |-> "Authenticate", body |-> <<255>>],
              [name |-> "Other", body |-> [id |-> 1, bytes |-> <<64, 5, 5, 4>>]],
              [name |-> "Other", body |-> [id |-> 1, bytes |-> <<160, 5, 5, 4>>]]}

\* the same set, which TLC now enumerates once and not as a union every time
WirePackets == {p \in AllPackets : TRUE}

=============================================================================
