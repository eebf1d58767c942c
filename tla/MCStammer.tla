------------------------------ MODULE MCStammer ------------------------------
(* Packet alphabets for model checking Stammer. *)
EXTENDS Stammer

Pkt(kind) == [kind |-> kind, target |-> 0, sessions |-> {}, rooms |-> {}]

Authenticate == Pkt("Authenticate")
Voice        == Pkt("Voice")
TextTo(S, R) == [Pkt("Text") EXCEPT !.sessions = S, !.rooms = R]

\* registration, refusal, expulsion, and delivery of voice and of a text whose
\* recipients are named twice
StammerPackets ==
    {Authenticate, Pkt("Other"), Voice, TextTo({0, 1}, {0})}

\* liveness: the packets the routing task does not implement, and pongs
LivenessPackets ==
    {Authenticate, Pkt("Other"), Voice, Pkt("VoicePing"), Pkt("Ping")}

NoPackets == {}
=============================================================================
