---------------------------- MODULE StutterProofs ----------------------------
(***************************************************************************)
(* The stutter client for any frame and ring size, any bound on channels   *)
(* and any chunks of a driver that the ring buffer has room for beside an  *)
(* incomplete frame.                                                       *)
(***************************************************************************)
EXTENDS Stutter, TLAPS

\* The input stream runs only while the io task owns it.
StreamOwned == recording => io = "Running"

IInv ==
    /\ TypeOK
    /\ NoSampleLost
    /\ CodecOutlivesIo
    /\ StreamOwned

-----------------------------------------------------------------------------
(* The ring buffers *)

\* The whole frames of a buffer, and what is left.
LEMMA WholeFrames ==
    ASSUME NEW x \in Nat, NEW f \in Nat \ {0}
    PROVE  /\ x \div f \in Nat
           /\ f * (x \div f) <= x
           /\ x - f * (x \div f) < f
           /\ x \div f > 0 => f <= x
OBVIOUS

\* The codec's ring after a chunk: it never holds more than its capacity and,
\* as long as the connection takes the frames, less than one frame.
LEMMA RingAfter ==
    ASSUME TypeOK, NEW len \in Chunks
    PROVE  /\ Frames(len) \in Nat
           /\ Pushed(len) - FrameSize * Frames(len) \in 0 .. RingSize
           /\ connection # "Done" => Pushed(len) - FrameSize * Frames(len) < FrameSize
<1> DEFINE p == Pushed(len)
           c == p \div FrameSize
<1>1. FrameSize \in Nat \ {0} /\ RingSize \in Nat /\ p \in 0 .. RingSize
  BY SizesAssumption DEF TypeOK, Pushed, Least
<1>2. /\ c \in Nat /\ FrameSize * c <= p /\ p - FrameSize * c < FrameSize
      /\ c > 0 => FrameSize <= p
  <2> HIDE DEF p
  <2> QED
    BY <1>1, WholeFrames
<1>3. Frames(len) = IF connection = "Done" THEN Least(1, c) ELSE c
  BY DEF Frames
<1> HIDE DEF p, c
<1>4. CASE connection = "Done" /\ c > 0
  <2>1. Frames(len) = 1
    BY <1>2, <1>3, <1>4 DEF Least
  <2> QED
    BY <1>1, <1>2, <1>4, <2>1 DEF p
<1>5. CASE ~(connection = "Done" /\ c > 0)
  <2>1. Frames(len) = c
    BY <1>2, <1>3, <1>5 DEF Least
  <2>2. FrameSize * c \in Nat
    BY <1>1, <1>2
  <2> QED
    BY <1>1, <1>2, <2>1, <2>2 DEF p
<1> QED
  BY <1>4, <1>5

\* The playback ring after a packet.
LEMMA PushType ==
    ASSUME TypeOK, NEW n \in Nat
    PROVE  LET p == Push(n, Least(FrameSize, RingSize - Len(playback)))
           IN  p \in Seq(Nat) /\ Len(p) <= RingSize
<1> DEFINE room == Least(FrameSize, RingSize - Len(playback))
           s == [i \in 1 .. room |-> n]
<1>1. room \in Nat /\ Len(playback) + room <= RingSize /\ playback \in Seq(Nat)
  BY SizesAssumption DEF TypeOK, Least
<1> HIDE DEF room
<1>2. s \in Seq(Nat) /\ Len(s) = room
  BY <1>1
<1> HIDE DEF s
<1>3. playback \o s \in Seq(Nat) /\ Len(playback \o s) = Len(playback) + Len(s)
  BY <1>1, <1>2
<1> QED
  BY <1>1, <1>2, <1>3 DEF Push, room, s

-----------------------------------------------------------------------------
(* The invariant is inductive *)

LEMMA InitIInv == Init => IInv
<1> SUFFICES ASSUME Init PROVE IInv
  OBVIOUS
<1>1. ioQ \in Seq(AudioIOMessage)
  BY DEF Init, AudioIOMessage
<1>2. TypeOK
  <2>1. codecQ \in Seq(AudioCodecMessage) /\ playback \in Seq(Nat) /\ Len(playback) = 0
    BY DEF Init
  <2>2. ring \in 0 .. RingSize /\ Len(playback) <= RingSize
    BY <2>1, SizesAssumption DEF Init
  <2>3. /\ connection \in Sending \cup {"AwaitVersion", "Select", "Done"}
        /\ codec \in {"Running", "Done"} /\ io \in {"Init", "Running", "Done"}
        /\ connectionQ \in Nat /\ received \in Nat /\ played \in Nat
    BY DEF Init, Sending
  <2>4. recording \in BOOLEAN /\ playing \in BOOLEAN /\ lost \in BOOLEAN /\ panicked \in BOOLEAN
    BY DEF Init
  <2> QED
    BY <1>1, <2>1, <2>2, <2>3, <2>4 DEF TypeOK
<1>3. NoSampleLost /\ CodecOutlivesIo /\ StreamOwned
  BY SizesAssumption DEF Init, NoSampleLost, CodecOutlivesIo, StreamOwned
<1> QED
  BY <1>2, <1>3 DEF IInv

\* Steps of the connection task leave audio and the other tasks alone.
LEMMA ConnectionStep ==
    ASSUME IInv, ConnectionTask
    PROVE  IInv'
<1> USE DEF IInv
<1>1. /\ UNCHANGED <<codec, io, ioQ, audio, panicked>>
      /\ connection = "Done" => connection' = "Done"
      /\ connection' \in Sending \cup {"AwaitVersion", "Select", "Done"}
      /\ connectionQ' \in Nat /\ received' \in Nat
      /\ codecQ' \in Seq(AudioCodecMessage)
  <2>1. CASE Sent
    BY <2>1 DEF Sent, Sending, TypeOK
  <2>2. CASE SendFailed
    BY <2>2 DEF SendFailed, ConnectionEnds, TypeOK
  <2>3. CASE VersionReceived
    BY <2>3 DEF VersionReceived, Sending, TypeOK
  <2>4. CASE HandshakeFailed
    BY <2>4 DEF HandshakeFailed, ConnectionEnds, TypeOK
  <2>5. CASE Ping
    BY <2>5 DEF Ping, Sending, TypeOK
  <2>6. CASE ConnectionVoice
    BY <2>6 DEF ConnectionVoice, Sending, TypeOK
  <2>7. CASE ConnectionStop
    BY <2>7 DEF ConnectionStop, ConnectionEnds, TypeOK
  <2>8. CASE ConnectionLost
    BY <2>8 DEF ConnectionLost, ConnectionEnds, TypeOK
  <2>9. ASSUME NEW payload \in Payloads, Receive(payload)
        PROVE  /\ UNCHANGED <<codec, io, ioQ, audio, panicked, connection, connectionQ>>
               /\ received' \in Nat
               /\ codecQ' \in Seq(AudioCodecMessage)
    <3>1. [kind |-> "Inbound", payload |-> payload, n |-> received + 1] \in AudioCodecMessage
      BY DEF AudioCodecMessage, TypeOK
    <3> QED
      BY <2>9, <3>1 DEF Receive, SendCodec, TypeOK
  <2>10. CASE \E payload \in Payloads : Receive(payload)
    BY <2>9, <2>10 DEF TypeOK
  <2> QED
    BY <2>1, <2>2, <2>3, <2>4, <2>5, <2>6, <2>7, <2>8, <2>10 DEF ConnectionTask
<1>2. TypeOK'
  BY <1>1 DEF TypeOK, audio
<1>3. NoSampleLost' /\ CodecOutlivesIo' /\ StreamOwned'
  BY <1>1 DEF NoSampleLost, CodecOutlivesIo, StreamOwned, audio
<1> QED
  BY <1>2, <1>3

\* A chunk of samples loses none while the connection is there.
LEMMA OutboundStep ==
    ASSUME IInv, CodecOutbound
    PROVE  IInv'
<1> DEFINE len == Head(codecQ).len
<1>1. TypeOK /\ len \in Chunks /\ Tail(codecQ) \in Seq(AudioCodecMessage)
  BY DEF IInv, TypeOK, CodecOutbound, AudioCodecMessage
<1>2. /\ Frames(len) \in Nat
      /\ Pushed(len) - FrameSize * Frames(len) \in 0 .. RingSize
      /\ connection # "Done" => Pushed(len) - FrameSize * Frames(len) < FrameSize
  BY <1>1, RingAfter
<1>3. ring' = Pushed(len) - FrameSize * Frames(len)
  BY DEF CodecOutbound
<1>4. TypeOK'
  <2>1. connectionQ' \in Nat
    BY <1>1, <1>2 DEF CodecOutbound, TypeOK
  <2>2. lost' \in BOOLEAN
    BY DEF CodecOutbound
  <2>3. ring' \in 0 .. RingSize
    BY <1>2, <1>3
  <2> QED
    BY <1>1, <2>1, <2>2, <2>3 DEF TypeOK, CodecOutbound
<1>5. NoSampleLost'
  <2> SUFFICES ASSUME connection # "Done" PROVE ~lost' /\ ring' < FrameSize
    BY DEF NoSampleLost, CodecOutbound
  <2>1. ring \in Int /\ ring < FrameSize
    BY DEF IInv, NoSampleLost, TypeOK
  <2>2. ~(ring + len > RingSize)
    <3>1. len \in Chunks
      BY <1>1
    <3> HIDE DEF len
    <3>2. len \in Int /\ FrameSize \in Int /\ RingSize \in Int /\ FrameSize - 1 + len <= RingSize
      BY <3>1, SizesAssumption
    <3> QED
      BY <2>1, <3>2
  <2> QED
    BY <1>2, <1>3, <2>2 DEF IInv, NoSampleLost, CodecOutbound
<1>6. CodecOutlivesIo' /\ StreamOwned'
  BY DEF IInv, CodecOutlivesIo, StreamOwned, CodecOutbound
<1> QED
  BY <1>4, <1>5, <1>6 DEF IInv

\* The codec task ends only when io has.
LEMMA CodecStep ==
    ASSUME IInv, CodecTask
    PROVE  IInv'
<1>1. CASE CodecOutbound
  BY <1>1, OutboundStep
<1>2. CASE CodecInbound
  <2>1. codecQ' \in Seq(AudioCodecMessage) /\ ioQ' \in Seq(AudioIOMessage)
    <3>1. Head(codecQ) \in AudioCodecMessage /\ Tail(codecQ) \in Seq(AudioCodecMessage)
      BY <1>2 DEF CodecInbound, IInv, TypeOK
    <3>2. Head(codecQ).n \in Nat
      BY <1>2, <3>1 DEF CodecInbound, AudioCodecMessage
    <3>3. [kind |-> "PlaybackInbound", n |-> Head(codecQ).n] \in AudioIOMessage
      BY <3>2 DEF AudioIOMessage
    <3> QED
      BY <1>2, <3>1, <3>3 DEF CodecInbound, IInv, TypeOK
  <2>2. TypeOK'
    BY <1>2, <2>1 DEF CodecInbound, audio, IInv, TypeOK
  <2>3. NoSampleLost' /\ CodecOutlivesIo' /\ StreamOwned'
    BY <1>2 DEF CodecInbound, audio, IInv, NoSampleLost, CodecOutlivesIo, StreamOwned
  <2> QED
    BY <2>2, <2>3 DEF IInv
<1>3. CASE CodecIgnores
  <2>1. TypeOK'
    BY <1>3 DEF CodecIgnores, audio, IInv, TypeOK
  <2> QED
    BY <1>3, <2>1 DEF CodecIgnores, audio, IInv, NoSampleLost, CodecOutlivesIo, StreamOwned
<1>4. CASE CodecPanics
  <2>1. TypeOK'
    BY <1>4 DEF CodecPanics, audio, IInv, TypeOK
  <2> QED
    BY <1>4, <2>1 DEF CodecPanics, audio, IInv, NoSampleLost, CodecOutlivesIo, StreamOwned
<1>5. CASE CodecStop
  <2>1. TypeOK'
    BY <1>5 DEF CodecStop, audio, IInv, TypeOK
  <2> QED
    BY <1>5, <2>1 DEF CodecStop, audio, IInv, NoSampleLost, CodecOutlivesIo, StreamOwned
<1> QED
  BY <1>1, <1>2, <1>3, <1>4, <1>5 DEF CodecTask

LEMMA IoStep ==
    ASSUME IInv, IoTask
    PROVE  IInv'
<1>1. TypeOK
  BY DEF IInv
<1>2. CASE IoInit
  <2>1. TypeOK'
    BY <1>1, <1>2 DEF IoInit, audio, TypeOK
  <2> QED
    BY <1>2, <2>1 DEF IoInit, audio, IInv, NoSampleLost, CodecOutlivesIo, StreamOwned
<1>3. CASE IoPlay
  <2>1. TypeOK'
    BY <1>1, <1>3 DEF IoPlay, TypeOK
  <2> QED
    BY <1>3, <2>1 DEF IoPlay, IInv, NoSampleLost, CodecOutlivesIo, StreamOwned
<1>4. CASE IoInbound
  <2>1. Head(ioQ) \in AudioIOMessage /\ ioQ' \in Seq(AudioIOMessage)
    BY <1>1, <1>4 DEF IoInbound, TypeOK
  <2>2. Head(ioQ).n \in Nat
    BY <1>4, <2>1 DEF IoInbound, AudioIOMessage
  <2>3. playback' \in Seq(Nat) /\ Len(playback') <= RingSize
    BY <1>1, <1>4, <2>2, PushType DEF IoInbound
  <2>4. TypeOK'
    BY <1>1, <1>4, <2>1, <2>3 DEF IoInbound, TypeOK
  <2> QED
    BY <1>4, <2>4 DEF IoInbound, IInv, NoSampleLost, CodecOutlivesIo, StreamOwned
<1>5. CASE IoStop
  <2>1. TypeOK'
    <3>1. ioQ' \in Seq(AudioIOMessage)
      BY <1>5 DEF IoStop
    <3> QED
      BY <1>1, <1>5, <3>1 DEF IoStop, TypeOK
  <2> QED
    BY <1>5, <2>1 DEF IoStop, IInv, NoSampleLost, CodecOutlivesIo, StreamOwned
<1> QED
  BY <1>2, <1>3, <1>4, <1>5 DEF IoTask

LEMMA DriverStep ==
    ASSUME IInv, Driver
    PROVE  IInv'
<1>1. TypeOK
  BY DEF IInv
<1>2. CASE OutputCallback
  <2>1. TypeOK'
    <3>1. playback \in Seq(Nat) /\ playback # <<>> /\ Len(playback) <= RingSize
      BY <1>1, <1>2 DEF OutputCallback, TypeOK
    <3>2. /\ Head(playback) \in Nat /\ Tail(playback) \in Seq(Nat)
          /\ Len(Tail(playback)) = Len(playback) - 1 /\ Len(playback) \in Nat
      BY <3>1
    <3>3. Len(Tail(playback)) <= RingSize
      BY <3>1, <3>2, SizesAssumption
    <3>4. played' \in Nat /\ playback' \in Seq(Nat) /\ Len(playback') <= RingSize
      BY <1>2, <3>2, <3>3 DEF OutputCallback
    <3> QED
      BY <1>1, <1>2, <3>4 DEF OutputCallback, TypeOK
  <2> QED
    BY <1>2, <2>1 DEF OutputCallback, IInv, NoSampleLost, CodecOutlivesIo, StreamOwned
<1>3. ASSUME NEW len \in Chunks, InputCallback(len) PROVE IInv'
  <2>1. [kind |-> "Outbound", len |-> len] \in AudioCodecMessage
    BY DEF AudioCodecMessage
  <2>2. TypeOK'
    BY <1>1, <1>3, <2>1 DEF InputCallback, SendCodec, audio, TypeOK
  <2> QED
    BY <1>3, <2>2 DEF InputCallback, audio, IInv, NoSampleLost, CodecOutlivesIo, StreamOwned
<1> QED
  BY <1>2, <1>3 DEF Driver

LEMMA Inductive == Spec => []IInv
<1>1. Init => IInv
  BY InitIInv
<1>2. IInv /\ [Next]_vars => IInv'
  <2> SUFFICES ASSUME IInv, [Next]_vars PROVE IInv'
    OBVIOUS
  <2>1. CASE UNCHANGED vars
    BY <2>1 DEF vars, audio, IInv, TypeOK, NoSampleLost, CodecOutlivesIo, StreamOwned
  <2> QED
    BY <2>1, ConnectionStep, CodecStep, IoStep, DriverStep DEF Next, Ended
<1> QED
  BY <1>1, <1>2, PTL DEF Spec

-----------------------------------------------------------------------------
(* Voice on its way to the speakers *)

\* The packets from the server that wait in a channel of either kind
Voice(q, kind) == {i \in DOMAIN q : q[i].kind = kind}

\* They wait in the order they were received in.
InLine(q, kind) == \A i, j \in Voice(q, kind) : i < j => q[i].n <= q[j].n

\* From the speakers back to the server: played, in the ring buffer, in io's
\* channel, in the codec's channel, received. Nothing in one place is newer than
\* anything in the next, and each place is in order.
Queued ==
    /\ played <= received
    /\ \A i \in DOMAIN playback : played <= playback[i] /\ playback[i] <= received
    /\ \A i, j \in DOMAIN playback : i < j => playback[i] <= playback[j]
    /\ \A k \in Voice(ioQ, "PlaybackInbound") :
          /\ played <= ioQ[k].n /\ ioQ[k].n <= received
          /\ \A i \in DOMAIN playback : playback[i] <= ioQ[k].n
    /\ \A k \in Voice(codecQ, "Inbound") :
          /\ played <= codecQ[k].n /\ codecQ[k].n <= received
          /\ \A i \in DOMAIN playback : playback[i] <= codecQ[k].n
          /\ \A i \in Voice(ioQ, "PlaybackInbound") : ioQ[i].n <= codecQ[k].n
    /\ InLine(ioQ, "PlaybackInbound") /\ InLine(codecQ, "Inbound")

\* What a channel holds after a receive.
LEMMA AfterTail ==
    ASSUME NEW S, NEW q \in Seq(S), q # <<>>, NEW kind
    PROVE  \A k \in Voice(Tail(q), kind) :
              /\ k \in Nat /\ k + 1 \in Voice(q, kind) /\ 1 < k + 1
              /\ Tail(q)[k] = q[k + 1]
<1>1. /\ DOMAIN q = 1 .. Len(q) /\ DOMAIN Tail(q) = 1 .. Len(q) - 1 /\ Len(q) \in Nat
      /\ \A k \in 1 .. Len(q) - 1 : Tail(q)[k] = q[k + 1]
  OBVIOUS
<1> QED
  BY <1>1 DEF Voice

LEMMA HeadFirst ==
    ASSUME NEW S, NEW q \in Seq(S), q # <<>>
    PROVE  Head(q) = q[1] /\ 1 \in DOMAIN q /\ Head(q) \in S
OBVIOUS

\* The packets that wait are numbered.
LEMMA Numbered ==
    ASSUME TypeOK
    PROVE  /\ \A k \in Voice(ioQ, "PlaybackInbound") : ioQ[k].n \in Nat
           /\ \A k \in Voice(codecQ, "Inbound") : codecQ[k].n \in Nat
           /\ \A k \in DOMAIN playback : playback[k] \in Nat
           /\ played \in Nat /\ received \in Nat
<1>1. /\ \A k \in DOMAIN ioQ : ioQ[k] \in AudioIOMessage
      /\ \A k \in DOMAIN codecQ : codecQ[k] \in AudioCodecMessage
      /\ \A k \in DOMAIN playback : playback[k] \in Nat
      /\ played \in Nat /\ received \in Nat
  BY DEF TypeOK
<1>2. ASSUME NEW m \in AudioIOMessage, m.kind = "PlaybackInbound" PROVE m.n \in Nat
  BY <1>2 DEF AudioIOMessage
<1>3. ASSUME NEW m \in AudioCodecMessage, m.kind = "Inbound" PROVE m.n \in Nat
  BY <1>3 DEF AudioCodecMessage
<1> QED
  BY <1>1, <1>2, <1>3 DEF Voice

LEMMA InitQueued == Init => Queued
BY DEF Init, Queued, Voice, InLine

\* A packet from the server is newer than whatever is on its way.
LEMMA ReceiveQueued ==
    ASSUME TypeOK, Queued, NEW payload \in Payloads, Receive(payload)
    PROVE  Queued'
<1> DEFINE e == [kind |-> "Inbound", payload |-> payload, n |-> received + 1]
<1>1. /\ received' = received + 1 /\ received \in Nat
      /\ UNCHANGED <<ioQ, playback, played>>
      /\ codecQ' \in {Append(codecQ, e), codecQ}
      /\ codecQ \in Seq(AudioCodecMessage) /\ e \in AudioCodecMessage
      /\ e.n = received'
  BY DEF Receive, SendCodec, TypeOK, audio, AudioCodecMessage
<1> HIDE DEF e
<1>2. /\ \A k \in Voice(codecQ', "Inbound") :
            \/ k \in Voice(codecQ, "Inbound") /\ codecQ'[k] = codecQ[k]
            \/ k = Len(codecQ) + 1 /\ codecQ'[k] = e
      /\ \A k \in Voice(codecQ, "Inbound") : k \in Nat /\ k <= Len(codecQ)
      /\ Len(codecQ) \in Nat
  <2>1. CASE codecQ' = Append(codecQ, e)
    <3>1. /\ DOMAIN codecQ = 1 .. Len(codecQ) /\ DOMAIN codecQ' = 1 .. Len(codecQ) + 1 /\ Len(codecQ) \in Nat
          /\ \A k \in 1 .. Len(codecQ) : codecQ'[k] = codecQ[k]
          /\ codecQ'[Len(codecQ) + 1] = e
      BY <1>1, <2>1
    <3> QED
      BY <3>1 DEF Voice
  <2>2. CASE codecQ' = codecQ
    BY <1>1, <2>2 DEF Voice
  <2> QED
    BY <1>1, <2>1, <2>2
<1>3. InLine(codecQ', "Inbound")
  <2> SUFFICES ASSUME NEW i \in Voice(codecQ', "Inbound"), NEW j \in Voice(codecQ', "Inbound"),
                      i < j
               PROVE  codecQ'[i].n <= codecQ'[j].n
    BY DEF InLine
  <2>1. i \in Voice(codecQ, "Inbound") /\ codecQ'[i] = codecQ[i]
    BY <1>2
  <2>2. CASE j \in Voice(codecQ, "Inbound") /\ codecQ'[j] = codecQ[j]
    BY <2>1, <2>2 DEF Queued, InLine
  <2>3. CASE codecQ'[j] = e
    BY <1>1, <2>1, <2>3, Numbered DEF Queued
  <2> QED
    BY <1>2, <2>2, <2>3
<1>4. \A k \in Voice(codecQ', "Inbound") :
          /\ played <= codecQ'[k].n /\ codecQ'[k].n <= received'
          /\ \A i \in DOMAIN playback : playback[i] <= codecQ'[k].n
          /\ \A i \in Voice(ioQ, "PlaybackInbound") : ioQ[i].n <= codecQ'[k].n
  <2> SUFFICES ASSUME NEW k \in Voice(codecQ', "Inbound")
               PROVE  /\ played <= codecQ'[k].n /\ codecQ'[k].n <= received'
                      /\ \A i \in DOMAIN playback : playback[i] <= codecQ'[k].n
                      /\ \A i \in Voice(ioQ, "PlaybackInbound") : ioQ[i].n <= codecQ'[k].n
    OBVIOUS
  <2>1. CASE k \in Voice(codecQ, "Inbound") /\ codecQ'[k] = codecQ[k]
    BY <1>1, <2>1, Numbered DEF Queued
  <2>2. CASE codecQ'[k] = e
    BY <1>1, <2>2, Numbered DEF Queued
  <2> QED
    BY <1>2, <2>1, <2>2
<1>5. /\ played <= received'
      /\ \A i \in DOMAIN playback : played <= playback[i] /\ playback[i] <= received'
      /\ \A k \in Voice(ioQ, "PlaybackInbound") :
            played <= ioQ[k].n /\ ioQ[k].n <= received'
  BY <1>1, Numbered DEF Queued
<1> QED
  BY <1>1, <1>3, <1>4, <1>5 DEF Queued

\* Any receive leaves what is behind in line.
LEMMA TailInLine ==
    ASSUME NEW S, NEW q \in Seq(S), q # <<>>, NEW kind, InLine(q, kind)
    PROVE  InLine(Tail(q), kind)
<1>1. \A k \in Voice(Tail(q), kind) :
         k \in Nat /\ k + 1 \in Voice(q, kind) /\ Tail(q)[k] = q[k + 1]
  BY AfterTail
<1> SUFFICES ASSUME NEW i \in Voice(Tail(q), kind), NEW j \in Voice(Tail(q), kind), i < j
             PROVE  Tail(q)[i].n <= Tail(q)[j].n
  BY DEF InLine
<1>2. i + 1 < j + 1
  BY <1>1
<1> QED
  BY <1>1, <1>2 DEF InLine

\* Channels may lose their first message, or all: what is left is in order.
LEMMA ShrinkQueued ==
    ASSUME TypeOK, Queued, UNCHANGED <<playback, played, received>>,
           ioQ' \in {ioQ, <<>>} \/ (ioQ # <<>> /\ ioQ' = Tail(ioQ)),
           codecQ' \in {codecQ, <<>>} \/ (codecQ # <<>> /\ codecQ' = Tail(codecQ))
    PROVE  Queued'
<1>1. ioQ \in Seq(AudioIOMessage) /\ codecQ \in Seq(AudioCodecMessage)
  BY DEF TypeOK
<1>2. \A k \in Voice(ioQ', "PlaybackInbound") :
         \E i \in Voice(ioQ, "PlaybackInbound") : ioQ'[k] = ioQ[i]
  <2>1. CASE ioQ' = <<>>
    BY <2>1 DEF Voice
  <2> QED
    BY <1>1, <2>1, AfterTail
<1>3. \A k \in Voice(codecQ', "Inbound") :
         \E i \in Voice(codecQ, "Inbound") : codecQ'[k] = codecQ[i]
  <2>1. CASE codecQ' = <<>>
    BY <2>1 DEF Voice
  <2> QED
    BY <1>1, <2>1, AfterTail
<1>4. InLine(ioQ', "PlaybackInbound") /\ InLine(codecQ', "Inbound")
  <2>1. \A kind : InLine(<<>>, kind)
    BY DEF InLine, Voice
  <2> QED
    BY <1>1, <2>1, TailInLine DEF Queued
<1>5. /\ \A k \in Voice(ioQ', "PlaybackInbound") :
            /\ played <= ioQ'[k].n /\ ioQ'[k].n <= received
            /\ \A i \in DOMAIN playback : playback[i] <= ioQ'[k].n
      /\ \A k \in Voice(codecQ', "Inbound") :
            /\ played <= codecQ'[k].n /\ codecQ'[k].n <= received
            /\ \A i \in DOMAIN playback : playback[i] <= codecQ'[k].n
            /\ \A i \in Voice(ioQ', "PlaybackInbound") : ioQ'[i].n <= codecQ'[k].n
  BY <1>2, <1>3 DEF Queued
<1> QED
  BY <1>4, <1>5 DEF Queued

\* The microphone's chunks are no voice to be played.
LEMMA ChunkQueued ==
    ASSUME TypeOK, Queued, NEW len \in Chunks, InputCallback(len)
    PROVE  Queued'
<1> DEFINE e == [kind |-> "Outbound", len |-> len]
<1>1. /\ UNCHANGED <<ioQ, playback, played, received>>
      /\ codecQ' \in {Append(codecQ, e), codecQ}
      /\ codecQ \in Seq(AudioCodecMessage) /\ e \in AudioCodecMessage
      /\ e.kind # "Inbound"
  BY DEF InputCallback, SendCodec, TypeOK, audio, AudioCodecMessage
<1> HIDE DEF e
<1>2. \A k \in Voice(codecQ', "Inbound") : k \in Voice(codecQ, "Inbound") /\ codecQ'[k] = codecQ[k]
  <2>1. CASE codecQ' = codecQ
    BY <2>1
  <2>2. CASE codecQ' = Append(codecQ, e)
    <3>1. /\ DOMAIN codecQ = 1 .. Len(codecQ) /\ DOMAIN codecQ' = 1 .. Len(codecQ) + 1 /\ Len(codecQ) \in Nat
          /\ \A k \in 1 .. Len(codecQ) : codecQ'[k] = codecQ[k]
          /\ codecQ'[Len(codecQ) + 1] = e
      BY <1>1, <2>2
    <3> QED
      BY <1>1, <3>1 DEF Voice
  <2> QED
    BY <1>1, <2>1, <2>2
<1> QED
  BY <1>1, <1>2 DEF Queued, InLine

\* The codec hands its oldest packet on.
LEMMA InboundQueued ==
    ASSUME TypeOK, Queued, CodecInbound
    PROVE  Queued'
<1>1. CASE io = "Done"
  BY <1>1, ShrinkQueued DEF CodecInbound, audio
<1>2. CASE io # "Done"
  <2> DEFINE e == [kind |-> "PlaybackInbound", n |-> Head(codecQ).n]
  <2>1. /\ UNCHANGED <<playback, played, received>>
        /\ ioQ' = Append(ioQ, e) /\ codecQ' = Tail(codecQ)
        /\ ioQ \in Seq(AudioIOMessage) /\ codecQ \in Seq(AudioCodecMessage) /\ codecQ # <<>>
    BY <1>2 DEF CodecInbound, TypeOK, audio
  <2>2. 1 \in Voice(codecQ, "Inbound") /\ Head(codecQ) = codecQ[1]
    BY <2>1, HeadFirst DEF CodecInbound, Voice
  <2>3. e.n = codecQ[1].n /\ codecQ[1].n \in Nat /\ e \in AudioIOMessage
    BY <2>2, Numbered DEF AudioIOMessage
  <2> HIDE DEF e
  <2>4. /\ \A k \in Voice(ioQ', "PlaybackInbound") :
              \/ k \in Voice(ioQ, "PlaybackInbound") /\ ioQ'[k] = ioQ[k]
              \/ k = Len(ioQ) + 1 /\ ioQ'[k] = e
        /\ \A k \in Voice(ioQ, "PlaybackInbound") : k \in Nat /\ k <= Len(ioQ)
        /\ Len(ioQ) \in Nat
    <3>1. /\ DOMAIN ioQ = 1 .. Len(ioQ) /\ DOMAIN ioQ' = 1 .. Len(ioQ) + 1 /\ Len(ioQ) \in Nat
          /\ \A k \in 1 .. Len(ioQ) : ioQ'[k] = ioQ[k]
          /\ ioQ'[Len(ioQ) + 1] = e
      BY <2>1, <2>3
    <3> QED
      BY <3>1 DEF Voice
  <2>5. \A k \in Voice(codecQ', "Inbound") :
           \E i \in Voice(codecQ, "Inbound") :
              codecQ'[k] = codecQ[i] /\ codecQ[1].n <= codecQ[i].n
    <3> SUFFICES ASSUME NEW k \in Voice(codecQ', "Inbound")
                 PROVE  \E i \in Voice(codecQ, "Inbound") :
                           codecQ'[k] = codecQ[i] /\ codecQ[1].n <= codecQ[i].n
      OBVIOUS
    <3>1. k + 1 \in Voice(codecQ, "Inbound") /\ 1 < k + 1 /\ codecQ'[k] = codecQ[k + 1]
      BY <2>1, AfterTail
    <3>2. codecQ[1].n <= codecQ[k + 1].n
      BY <2>2, <3>1 DEF Queued, InLine
    <3> QED
      BY <3>1, <3>2
  <2>6. InLine(codecQ', "Inbound")
    BY <2>1, TailInLine DEF Queued
  <2>7. InLine(ioQ', "PlaybackInbound")
    <3> SUFFICES ASSUME NEW i \in Voice(ioQ', "PlaybackInbound"),
                        NEW j \in Voice(ioQ', "PlaybackInbound"), i < j
                 PROVE  ioQ'[i].n <= ioQ'[j].n
      BY DEF InLine
    <3>1. i \in Voice(ioQ, "PlaybackInbound") /\ ioQ'[i] = ioQ[i]
      BY <2>4
    <3>2. CASE j \in Voice(ioQ, "PlaybackInbound") /\ ioQ'[j] = ioQ[j]
      BY <3>1, <3>2 DEF Queued, InLine
    <3>3. CASE ioQ'[j] = e
      BY <2>2, <2>3, <3>1, <3>3 DEF Queued
    <3> QED
      BY <2>4, <3>2, <3>3
  <2>8. \A k \in Voice(ioQ', "PlaybackInbound") :
            /\ played <= ioQ'[k].n /\ ioQ'[k].n <= received
            /\ \A i \in DOMAIN playback : playback[i] <= ioQ'[k].n
    BY <2>2, <2>3, <2>4 DEF Queued
  <2>9. \A k \in Voice(codecQ', "Inbound") :
            /\ played <= codecQ'[k].n /\ codecQ'[k].n <= received
            /\ \A i \in DOMAIN playback : playback[i] <= codecQ'[k].n
            /\ \A i \in Voice(ioQ', "PlaybackInbound") : ioQ'[i].n <= codecQ'[k].n
    BY <2>3, <2>4, <2>5 DEF Queued
  <2> QED
    BY <2>1, <2>6, <2>7, <2>8, <2>9 DEF Queued
<1> QED
  BY <1>1, <1>2

\* io pushes its oldest packet behind the samples that wait to be played.
LEMMA PushQueued ==
    ASSUME TypeOK, Queued, IoInbound
    PROVE  Queued'
<1> DEFINE room == Least(FrameSize, RingSize - Len(playback))
           n == Head(ioQ).n
           s == [i \in 1 .. room |-> n]
<1>1. /\ UNCHANGED <<codecQ, played, received>> /\ ioQ' = Tail(ioQ)
      /\ playback' = playback \o s
      /\ ioQ \in Seq(AudioIOMessage) /\ ioQ # <<>> /\ playback \in Seq(Nat)
  BY DEF IoInbound, TypeOK, Push
<1>2. 1 \in Voice(ioQ, "PlaybackInbound") /\ n = ioQ[1].n /\ n \in Nat
  <2>1. 1 \in Voice(ioQ, "PlaybackInbound") /\ n = ioQ[1].n
    BY <1>1, HeadFirst DEF IoInbound, Voice
  <2> QED
    BY <2>1, Numbered
<1>3. room \in Nat
  BY <1>1, SizesAssumption DEF Least, TypeOK
<1> HIDE DEF room, n
<1>4. s \in Seq(Nat) /\ Len(s) = room /\ \A i \in 1 .. room : s[i] = n
  BY <1>2, <1>3
<1> HIDE DEF s
<1>5. \A i \in DOMAIN playback' :
         \/ i \in DOMAIN playback /\ playback'[i] = playback[i]
         \/ i \notin DOMAIN playback /\ playback'[i] = n
  <2>1. /\ DOMAIN playback = 1 .. Len(playback) /\ Len(playback) \in Nat
        /\ DOMAIN (playback \o s) = 1 .. Len(playback) + Len(s)
        /\ \A i \in 1 .. Len(playback) : (playback \o s)[i] = playback[i]
        /\ \A i \in Len(playback) + 1 .. Len(playback) + Len(s) :
              (playback \o s)[i] = s[i - Len(playback)]
    BY <1>1, <1>4
  <2>2. \A i \in Len(playback) + 1 .. Len(playback) + Len(s) : s[i - Len(playback)] = n
    BY <1>3, <1>4, <2>1
  <2> QED
    BY <1>1, <1>3, <1>4, <2>1, <2>2
<1>6. \A i, j \in DOMAIN playback' : i < j /\ j \in DOMAIN playback => i \in DOMAIN playback
  <2>1. playback' \in Seq(Nat)
    BY <1>1, <1>4
  <2> QED
    BY <1>1, <2>1
<1>7. \A i, j \in DOMAIN playback' : i < j => playback'[i] <= playback'[j]
  <2> SUFFICES ASSUME NEW i \in DOMAIN playback', NEW j \in DOMAIN playback', i < j
               PROVE  playback'[i] <= playback'[j]
    OBVIOUS
  <2>1. CASE j \in DOMAIN playback
    BY <1>5, <1>6, <2>1 DEF Queued
  <2>2. CASE j \notin DOMAIN playback
    <3>1. playback'[j] = n
      BY <1>5, <2>2
    <3>2. CASE i \in DOMAIN playback
      BY <1>2, <1>5, <3>1, <3>2 DEF Queued
    <3>3. CASE i \notin DOMAIN playback
      BY <1>2, <1>5, <3>1, <3>3
    <3> QED
      BY <3>2, <3>3
  <2> QED
    BY <2>1, <2>2
<1>8. \A i \in DOMAIN playback' : played <= playback'[i] /\ playback'[i] <= received
  BY <1>2, <1>5 DEF Queued
<1>9. \A k \in Voice(ioQ', "PlaybackInbound") :
         \E i \in Voice(ioQ, "PlaybackInbound") : ioQ'[k] = ioQ[i] /\ n <= ioQ[i].n
  <2> SUFFICES ASSUME NEW k \in Voice(ioQ', "PlaybackInbound")
               PROVE  \E i \in Voice(ioQ, "PlaybackInbound") : ioQ'[k] = ioQ[i] /\ n <= ioQ[i].n
    OBVIOUS
  <2>1. k + 1 \in Voice(ioQ, "PlaybackInbound") /\ 1 < k + 1 /\ ioQ'[k] = ioQ[k + 1]
    BY <1>1, AfterTail
  <2>2. n <= ioQ[k + 1].n
    BY <1>2, <2>1 DEF Queued, InLine
  <2> QED
    BY <2>1, <2>2
<1>10. \A k \in Voice(ioQ', "PlaybackInbound") :
          /\ played <= ioQ'[k].n /\ ioQ'[k].n <= received
          /\ \A i \in DOMAIN playback' : playback'[i] <= ioQ'[k].n
  BY <1>5, <1>9 DEF Queued
<1>11. \A k \in Voice(codecQ, "Inbound") :
          /\ played <= codecQ[k].n /\ codecQ[k].n <= received
          /\ \A i \in DOMAIN playback' : playback'[i] <= codecQ[k].n
          /\ \A i \in Voice(ioQ', "PlaybackInbound") : ioQ'[i].n <= codecQ[k].n
  BY <1>2, <1>5, <1>9 DEF Queued
<1>12. InLine(ioQ', "PlaybackInbound")
  BY <1>1, TailInLine DEF Queued
<1> QED
  BY <1>1, <1>7, <1>8, <1>10, <1>11, <1>12 DEF Queued

\* The speakers take the oldest sample.
LEMMA PlayQueued ==
    ASSUME TypeOK, Queued, OutputCallback
    PROVE  Queued' /\ played <= played'
<1>1. /\ UNCHANGED <<codecQ, ioQ, received>>
      /\ played' = Head(playback) /\ playback' = Tail(playback)
      /\ playback \in Seq(Nat) /\ playback # <<>>
  BY DEF OutputCallback, TypeOK
<1>2. /\ 1 \in DOMAIN playback /\ played' = playback[1]
      /\ \A i \in DOMAIN playback' :
            /\ i \in Nat /\ i + 1 \in DOMAIN playback /\ 1 < i + 1
            /\ playback'[i] = playback[i + 1]
  BY <1>1
<1>3. played <= played' /\ played' <= received'
  BY <1>1, <1>2 DEF Queued
<1>4. /\ \A i \in DOMAIN playback' : played' <= playback'[i] /\ playback'[i] <= received
      /\ \A i, j \in DOMAIN playback' : i < j => playback'[i] <= playback'[j]
  BY <1>2 DEF Queued
<1>5. /\ \A k \in Voice(ioQ, "PlaybackInbound") :
            played' <= ioQ[k].n /\ \A i \in DOMAIN playback' : playback'[i] <= ioQ[k].n
      /\ \A k \in Voice(codecQ, "Inbound") :
            played' <= codecQ[k].n /\ \A i \in DOMAIN playback' : playback'[i] <= codecQ[k].n
  BY <1>2 DEF Queued
<1> QED
  BY <1>1, <1>3, <1>4, <1>5 DEF Queued

\* Every step keeps the order, and plays nothing older than the last sample.
LEMMA StepQueued ==
    ASSUME TypeOK, Queued, [Next]_vars
    PROVE  Queued' /\ played <= played'
<1>1. played \in Nat
  BY DEF TypeOK
<1>2. ASSUME UNCHANGED <<codecQ, ioQ, playback, played, received>> PROVE Queued'
  BY <1>2 DEF Queued, InLine, Voice
<1>3. CASE UNCHANGED vars
  BY <1>1, <1>2, <1>3 DEF vars, audio
<1>4. CASE ConnectionTask
  <2>1. CASE \E payload \in Payloads : Receive(payload)
    BY <1>1, <2>1, ReceiveQueued DEF Receive, audio
  <2>2. CASE \/ Sent \/ SendFailed \/ VersionReceived \/ HandshakeFailed
             \/ Ping \/ ConnectionVoice \/ ConnectionStop \/ ConnectionLost
    BY <1>1, <1>2, <2>2 DEF audio, Sent, SendFailed, VersionReceived, HandshakeFailed, Ping,
       ConnectionVoice, ConnectionStop, ConnectionLost
  <2> QED
    BY <1>4, <2>1, <2>2 DEF ConnectionTask
<1>5. CASE CodecTask
  <2>1. CASE CodecInbound
    BY <1>1, <2>1, InboundQueued DEF CodecInbound, audio
  <2>2. CASE CodecOutbound \/ CodecIgnores
    BY <1>1, <2>2, ShrinkQueued DEF CodecOutbound, CodecIgnores, audio
  <2>3. CASE CodecPanics \/ CodecStop
    BY <1>1, <1>2, <2>3 DEF CodecPanics, CodecStop, audio
  <2> QED
    BY <1>5, <2>1, <2>2, <2>3 DEF CodecTask
<1>6. CASE IoTask
  <2>1. CASE IoInbound
    BY <1>1, <2>1, PushQueued DEF IoInbound
  <2>2. CASE IoPlay \/ IoStop
    BY <1>1, <2>2, ShrinkQueued DEF IoPlay, IoStop
  <2>3. CASE IoInit
    BY <1>1, <1>2, <2>3 DEF IoInit, audio
  <2> QED
    BY <1>6, <2>1, <2>2, <2>3 DEF IoTask
<1>7. CASE Driver
  <2>1. CASE OutputCallback
    BY <2>1, PlayQueued
  <2>2. CASE \E len \in Chunks : InputCallback(len)
    BY <1>1, <2>2, ChunkQueued DEF InputCallback, audio
  <2> QED
    BY <1>7, <2>1, <2>2 DEF Driver
<1> QED
  BY <1>3, <1>4, <1>5, <1>6, <1>7 DEF Next, Ended

-----------------------------------------------------------------------------
(* The theorems *)

\* Every state of the client is well typed, and its ring buffers are within
\* their capacity.
THEOREM TypeCorrect == Spec => []TypeOK
<1>1. IInv => TypeOK
  BY DEF IInv
<1> QED
  BY <1>1, Inductive, PTL

\* The codec task loses no microphone sample before the connection is gone.
THEOREM SamplesKept == Spec => []NoSampleLost
<1>1. IInv => NoSampleLost
  BY DEF IInv
<1> QED
  BY <1>1, Inductive, PTL

\* The codec task ends after io and its callbacks.
THEOREM CodecEndsLast == Spec => []CodecOutlivesIo
<1>1. IInv => CodecOutlivesIo
  BY DEF IInv
<1> QED
  BY <1>1, Inductive, PTL

\* For every frame and ring size and any number of packets, what the speakers
\* play was received and comes in the order it was received in.
THEOREM VoiceInOrder == Spec => PlayedInOrder
<1>1. Init => Queued
  BY InitQueued
<1>2. IInv /\ Queued /\ [Next]_vars => Queued'
  BY StepQueued DEF IInv
<1>3. IInv /\ Queued /\ Queued' /\ [Next]_vars => [played' >= played /\ played' <= received']_vars
  <2> SUFFICES ASSUME IInv, Queued, Queued', [Next]_vars
               PROVE  played' >= played /\ played' <= received'
    OBVIOUS
  <2>1. played <= played'
    BY StepQueued DEF IInv
  <2> QED
    BY <2>1 DEF Queued
<1> QED
  BY <1>1, <1>2, <1>3, Inductive, PTL DEF Spec, PlayedInOrder
=============================================================================
