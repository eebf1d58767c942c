------------------------------- MODULE Stutter -------------------------------
(***************************************************************************)
(* The stutter client: the connection, audio codec and audio io tasks,     *)
(* which run_stutter_task joins in one tokio task, and the two callbacks   *)
(* that the audio driver calls on threads of its own:                      *)
(*                                                                         *)
(*     server --> connection --Inbound--> codec --> io --> speakers        *)
(*     microphone --Outbound--> codec --Voice--> connection --> server     *)
(*                                                                         *)
(* A task that ends drops its receivers, so that sends to it fail, and its *)
(* senders. A channel ends when all its senders are dropped: the codec has *)
(* the only ones to the connection and to io; those to the codec are with  *)
(* the connection, io, and the microphone callback, which io's input       *)
(* stream owns.                                                            *)
(*                                                                         *)
(* Messages nobody sends are left out: ConnectionMessage::Control, for     *)
(* there is no ui task, RecordingPause and PlaybackPause.                  *)
(***************************************************************************)
EXTENDS Integers, Sequences

CONSTANTS
    FrameSize,    \* samples in an opus frame: 48_000 / 50 in the code
    RingSize,     \* capacity of either ring buffer: 48_000 * 2 in the code
    Chunks,       \* sample counts a driver may hand to the microphone callback
    MaxReceived,  \* bound: voice packets the server sends
    MaxWaiting    \* bound: chunks and frames waiting in the channels

ASSUME SizesAssumption ==
    /\ FrameSize \in Nat \ {0} /\ RingSize \in Nat
    /\ Chunks \subseteq Nat
    /\ \A c \in Chunks : FrameSize - 1 + c <= RingSize
ASSUME BoundsAssumption == MaxReceived \in Nat /\ MaxWaiting \in Nat

VARIABLES
    connection,   \* where run_connection_task is
    codec,        \* where run_audio_codec_task is
    io,           \* where run_audio_io_task is
    connectionQ,  \* voice frames in the connection task's channel
    codecQ,       \* the codec task's channel
    ioQ,          \* the io task's channel
    recording,    \* the input stream runs
    playing,      \* the output stream runs
    ring,         \* samples in the codec's ring buffer
    playback,     \* the playback ring buffer: the packet of each sample
    received,     \* voice packets received; numbers them
    played,       \* the packet of the last sample played (not in the code)
    lost,         \* the codec has lost a microphone sample (not in the code)
    panicked      \* a task panicked: with it, the one that joins them all

audio == <<recording, playing, ring, playback, played, lost>>
vars == <<connection, codec, io, connectionQ, codecQ, ioQ, audio, received, panicked>>

Sending == {"Version", "Authenticate", "Send"}

\* Bad stands for what makes the decoder's unwrap fail, and for a Ping
Payloads == {"Opus", "OtherCodec", "Bad"}

AudioCodecMessage ==
    [kind : {"Inbound"}, payload : Payloads, n : Nat] \cup [kind : {"Outbound"}, len : Chunks]

AudioIOMessage ==
    [kind : {"RecordingPlay", "PlaybackPlay"}] \cup [kind : {"PlaybackInbound"}, n : Nat]

Finished == panicked \/ (connection = "Done" /\ codec = "Done" /\ io = "Done")

Least(a, b) == IF a <= b THEN a ELSE b

-----------------------------------------------------------------------------
(* run_stutter_task *)

Init ==
    /\ connection = "Version" /\ codec = "Running" /\ io = "Init"
    /\ connectionQ = 0
    /\ codecQ = <<>>
    /\ ioQ = <<[kind |-> "RecordingPlay"], [kind |-> "PlaybackPlay"]>>
    /\ recording = FALSE /\ playing = FALSE
    /\ ring = 0 /\ playback = <<>> /\ played = 0 /\ lost = FALSE
    /\ received = 0 /\ panicked = FALSE

\* send on the codec task's channel; nobody looks at its failure
SendCodec(msg) == codecQ' = IF codec = "Running" THEN Append(codecQ, msg) ELSE codecQ

-----------------------------------------------------------------------------
(* run_connection_task *)

\* The task returns: its receiver, and what is in the channel, are dropped.
ConnectionEnds == connection' = "Done" /\ connectionQ' = 0

\* A send to the server that completes. Its ping, voice or authenticate packet
\* is followed by the select, our version by the wait for the server's.
Sent ==
    /\ ~panicked /\ connection \in Sending
    /\ connection' = IF connection = "Version" THEN "AwaitVersion" ELSE "Select"
    /\ UNCHANGED <<codec, io, connectionQ, codecQ, ioQ, audio, received, panicked>>

SendFailed ==
    /\ ~panicked /\ connection \in Sending
    /\ ConnectionEnds
    /\ UNCHANGED <<codec, io, codecQ, ioQ, audio, received, panicked>>

\* the server's version is ours
VersionReceived ==
    /\ ~panicked /\ connection = "AwaitVersion"
    /\ connection' = "Authenticate"
    /\ UNCHANGED <<codec, io, connectionQ, codecQ, ioQ, audio, received, panicked>>

\* it is another, another packet came, or none
HandshakeFailed ==
    /\ ~panicked /\ connection = "AwaitVersion"
    /\ ConnectionEnds
    /\ UNCHANGED <<codec, io, codecQ, ioQ, audio, received, panicked>>

\* the keepalive interval elapsed
Ping ==
    /\ ~panicked /\ connection = "Select"
    /\ connection' = "Send"
    /\ UNCHANGED <<codec, io, connectionQ, codecQ, ioQ, audio, received, panicked>>

ConnectionVoice ==
    /\ ~panicked /\ connection = "Select" /\ connectionQ > 0
    /\ connectionQ' = connectionQ - 1
    /\ connection' = "Send"
    /\ UNCHANGED <<codec, io, codecQ, ioQ, audio, received, panicked>>

\* a plausible slip: an ended channel is read on
ReadOn ==
    /\ ~panicked /\ connection = "Select" /\ connectionQ = 0 /\ codec = "Done"
    /\ connection' = "Send"
    /\ UNCHANGED <<codec, io, connectionQ, codecQ, ioQ, audio, received, panicked>>

\* the codec task dropped the only sender
ConnectionStop ==
    /\ ~panicked /\ connection = "Select" /\ connectionQ = 0 /\ codec = "Done"
    /\ ConnectionEnds
    /\ UNCHANGED <<codec, io, codecQ, ioQ, audio, received, panicked>>

\* A voice packet from the server. Pongs and other packets change nothing.
Receive(payload) ==
    /\ ~panicked /\ connection = "Select" /\ received < MaxReceived
    /\ received' = received + 1
    /\ SendCodec([kind |-> "Inbound", payload |-> payload, n |-> received + 1])
    /\ UNCHANGED <<connection, codec, io, connectionQ, ioQ, audio, panicked>>

\* the server closes the connection, or an error
ConnectionLost ==
    /\ ~panicked /\ connection = "Select"
    /\ ConnectionEnds
    /\ UNCHANGED <<codec, io, codecQ, ioQ, audio, received, panicked>>

-----------------------------------------------------------------------------
(* run_audio_codec_task *)

\* a plausible slip: a ring without a limit
PushedAll(len) == ring + len

\* samples in the ring after push_slice, which takes what there is room for
Pushed(len) == Least(ring + len, RingSize)

\* a plausible slip: one frame per chunk
OneFrame(len) == Least(1, Pushed(len) \div FrameSize)

\* Frames taken from the ring: all that are complete, unless the connection
\* task is gone. The first send to fail leaves the loop over the frames, and
\* no other.
Frames(len) ==
    LET complete == Pushed(len) \div FrameSize
    IN IF connection = "Done" THEN Least(1, complete) ELSE complete

CodecOutbound ==
    /\ ~panicked /\ codec = "Running" /\ codecQ # <<>> /\ Head(codecQ).kind = "Outbound"
    /\ LET len    == Head(codecQ).len
           frames == Frames(len)
       IN /\ ring' = Pushed(len) - FrameSize * frames
          /\ connectionQ' = IF connection = "Done" THEN connectionQ ELSE connectionQ + frames
          /\ lost' = (lost \/ ring + len > RingSize \/ (connection = "Done" /\ frames > 0))
    /\ codecQ' = Tail(codecQ)
    /\ UNCHANGED <<connection, codec, io, ioQ, recording, playing, playback, played, received, panicked>>

\* an opus packet is decoded and sent to io; the codec task ends if io has
CodecInbound ==
    /\ ~panicked /\ codec = "Running" /\ codecQ # <<>>
    /\ Head(codecQ).kind = "Inbound" /\ Head(codecQ).payload = "Opus"
    /\ codecQ' = IF io = "Done" THEN <<>> ELSE Tail(codecQ)
    /\ codec' = IF io = "Done" THEN "Done" ELSE codec
    /\ ioQ' = IF io = "Done" THEN ioQ
              ELSE Append(ioQ, [kind |-> "PlaybackInbound", n |-> Head(codecQ).n])
    /\ UNCHANGED <<connection, io, connectionQ, audio, received, panicked>>

\* other codecs are ignored
CodecIgnores ==
    /\ ~panicked /\ codec = "Running" /\ codecQ # <<>>
    /\ Head(codecQ).kind = "Inbound" /\ Head(codecQ).payload = "OtherCodec"
    /\ codecQ' = Tail(codecQ)
    /\ UNCHANGED <<connection, codec, io, connectionQ, ioQ, audio, received, panicked>>

\* unimplemented!() for a Ping, unwrap() of what opus does not decode
CodecPanics ==
    /\ ~panicked /\ codec = "Running" /\ codecQ # <<>>
    /\ Head(codecQ).kind = "Inbound" /\ Head(codecQ).payload = "Bad"
    /\ panicked' = TRUE
    /\ UNCHANGED <<connection, codec, io, connectionQ, codecQ, ioQ, audio, received>>

\* a plausible slip: the codec task stops with the connection, whatever io does
CodecFollows ==
    /\ ~panicked /\ codec = "Running" /\ codecQ = <<>>
    /\ connection = "Done"
    /\ codec' = "Done"
    /\ UNCHANGED <<connection, io, connectionQ, codecQ, ioQ, audio, received, panicked>>

\* every sender is dropped
CodecStop ==
    /\ ~panicked /\ codec = "Running" /\ codecQ = <<>>
    /\ connection = "Done" /\ io = "Done"
    /\ codec' = "Done"
    /\ UNCHANGED <<connection, io, connectionQ, codecQ, ioQ, audio, received, panicked>>

-----------------------------------------------------------------------------
(* run_audio_io_task *)

IoInit ==
    /\ ~panicked /\ io = "Init"
    /\ io' = "Running"
    /\ UNCHANGED <<connection, codec, connectionQ, codecQ, ioQ, audio, received, panicked>>

IoPlay ==
    /\ ~panicked /\ io = "Running" /\ ioQ # <<>>
    /\ Head(ioQ).kind \in {"RecordingPlay", "PlaybackPlay"}
    /\ recording' = (recording \/ Head(ioQ).kind = "RecordingPlay")
    /\ playing' = (playing \/ Head(ioQ).kind = "PlaybackPlay")
    /\ ioQ' = Tail(ioQ)
    /\ UNCHANGED <<connection, codec, io, connectionQ, codecQ, ring, playback, played, lost,
                   received, panicked>>

\* a plausible slip: the newest samples are played first
PushFront(n, room) == [i \in 1 .. room |-> n] \o playback

\* push_slice takes what there is room for
Push(n, room) == playback \o [i \in 1 .. room |-> n]

IoInbound ==
    /\ ~panicked /\ io = "Running" /\ ioQ # <<>> /\ Head(ioQ).kind = "PlaybackInbound"
    /\ playback' = Push(Head(ioQ).n, Least(FrameSize, RingSize - Len(playback)))
    /\ ioQ' = Tail(ioQ)
    /\ UNCHANGED <<connection, codec, io, connectionQ, codecQ, recording, playing, ring, played,
                   lost, received, panicked>>

\* The io task ends, and the streams with it: no device to initialise, play()
\* fails, or the codec task dropped its sender.
IoStop ==
    /\ ~panicked /\ io \in {"Init", "Running"}
    /\ io = "Running" => IF ioQ = <<>> THEN codec = "Done"
                         ELSE Head(ioQ).kind \in {"RecordingPlay", "PlaybackPlay"}
    /\ io' = "Done" /\ ioQ' = <<>> /\ recording' = FALSE /\ playing' = FALSE
    /\ UNCHANGED <<connection, codec, connectionQ, codecQ, ring, playback, played, lost,
                   received, panicked>>

\* the microphone callback, on the driver's thread
InputCallback(len) ==
    /\ ~panicked /\ recording
    /\ Len(codecQ) + connectionQ < MaxWaiting
    /\ SendCodec([kind |-> "Outbound", len |-> len])
    /\ UNCHANGED <<connection, codec, io, connectionQ, ioQ, audio, received, panicked>>

\* the speakers' callback takes a sample, or plays silence
OutputCallback ==
    /\ ~panicked /\ playing /\ playback # <<>>
    /\ played' = Head(playback)
    /\ playback' = Tail(playback)
    /\ UNCHANGED <<connection, codec, io, connectionQ, codecQ, ioQ, recording, playing, ring,
                   lost, received, panicked>>

-----------------------------------------------------------------------------

ConnectionTask ==
    \/ Sent \/ SendFailed \/ VersionReceived \/ HandshakeFailed
    \/ Ping \/ ConnectionVoice \/ ConnectionStop \/ ConnectionLost
    \/ \E payload \in Payloads : Receive(payload)

CodecTask == CodecOutbound \/ CodecInbound \/ CodecIgnores \/ CodecPanics \/ CodecStop

IoTask == IoInit \/ IoPlay \/ IoInbound \/ IoStop

Driver == OutputCallback \/ \E len \in Chunks : InputCallback(len)

Ended == Finished /\ UNCHANGED vars

Next == ConnectionTask \/ CodecTask \/ IoTask \/ Driver \/ Ended

Spec == Init /\ [][Next]_vars

\* The joined futures are polled when they can run; the server reads what it is
\* sent and answers the handshake, or the connection breaks; select! takes its
\* ready branches in random order, so that none waits forever; the driver calls
\* its callbacks.
Fairness ==
    /\ WF_vars(CodecTask)
    /\ WF_vars(IoTask)
    /\ WF_vars(Sent \/ SendFailed)
    /\ WF_vars(VersionReceived \/ HandshakeFailed)
    /\ SF_vars(ConnectionVoice)
    /\ SF_vars(ConnectionStop)
    /\ WF_vars(Driver)

FairSpec == Spec /\ Fairness

-----------------------------------------------------------------------------
(* Properties *)

\* Tasks, channels and buffers have the values their types allow; neither ring
\* buffer holds more than its capacity.
TypeOK ==
    /\ connection \in Sending \cup {"AwaitVersion", "Select", "Done"}
    /\ codec \in {"Running", "Done"} /\ io \in {"Init", "Running", "Done"}
    /\ connectionQ \in Nat
    /\ codecQ \in Seq(AudioCodecMessage) /\ ioQ \in Seq(AudioIOMessage)
    /\ recording \in BOOLEAN /\ playing \in BOOLEAN
    /\ ring \in 0 .. RingSize
    /\ playback \in Seq(Nat) /\ Len(playback) <= RingSize
    /\ received \in Nat /\ played \in Nat
    /\ lost \in BOOLEAN /\ panicked \in BOOLEAN

\* Whatever the sizes of the driver's chunks, the codec task loses no sample of
\* the microphone, and holds back less than a frame, until the connection is gone.
NoSampleLost == connection # "Done" => ~lost /\ ring < FrameSize

\* The codec task is the last of the two to end: its sends to io fail only
\* because io ended, and the callbacks never find its channel closed.
CodecOutlivesIo == codec = "Done" => io = "Done" /\ ~recording

\* What is played was received, and in that order: nothing on the way through
\* three channels and a ring buffer overtakes.
PlayedInOrder == [][played' >= played /\ played' <= received']_vars

\* The client stops once the codec task has ended, or is bound to: because
\* both its peers have ended, or io has and voice is on its way.
StopsOnceCodecCan ==
    /\ codec = "Done" ~> Finished
    /\ connection = "Done" /\ io = "Done" ~> Finished
    /\ (/\ io = "Done" /\ codec = "Running"
        /\ \E i \in DOMAIN codecQ : codecQ[i].kind = "Inbound" /\ codecQ[i].payload = "Opus")
       ~> Finished

\* The comment on a failed send to the connection task: "if the sender stops,
\* this must be a graceful shutdown, we follow".
FollowsConnection == connection = "Done" ~> Finished

=============================================================================
