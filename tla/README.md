# Verification of atof: the stammer server, the stutter client, the Mumble protocol

TLA+ models of the programs in this repository, the TLC runs that check them on
small instances, and TLAPS proofs of what matters most for every instance.
`PROJECT.json` maps every definition to the lines it models and lists the runs,
mutants, findings, hazards and theorems.

## 1. The system

| Component | State | Operations | Talks to |
|---|---|---|---|
| stammer `task_accept.rs` | the session handles (their number is the next id) | accept, stop notified, listener error, join | spawns sessions; `Shutdown` to control |
| stammer `task_session.rs`, one task per connection | position in the protocol, last ping, own channel | version exchange, read a packet, forward a packet, keepalive, abort | client socket; `AddSession`, `Packet`, `RemoveSession` to control; `Voice`, `Text` to routing |
| stammer `task_control.rs` | `unauth`, the routing table | the four `ControlMessage`s, close and drain | `Update`, `Shutdown` to routing |
| stammer `task_routing.rs` | a copy of the table | the four `RoutingMessage`s, close and drain | packets to sessions |
| stammer `routing_table.rs` | sessions with their room, rooms with their members | enroll, expel, move, target/room senders | a value, cloned to the routing task |
| mumble-protocol `crypt.rs` | nonces, history, three counters | encrypt, decrypt, set_decrypt_nonce | a datagram network |
| mumble-protocol `varint.rs`, `voice.rs`, `control.rs` | none of their own; `Framed` keeps a buffer | encode, decode | the two programs, through `Framed`; `control.rs` uses `voice.rs`, which uses `varint.rs` |
| mumble-protocol `ping.rs` | none | conversions | nobody in the repository |
| stutter `task_connection.rs` | position in handshake and select loop | handshake, ping, send voice, receive voice | server socket; `Inbound` to codec |
| stutter `task_audio_codec.rs` | ring buffer of samples, opus coders | `Outbound`, `Inbound` | `Voice` to connection, `PlaybackInbound` to io |
| stutter `task_audio_io.rs` | two driver streams, playback ring buffer | play, playback, the two driver callbacks | `Outbound` to codec, from the driver's thread |

Nothing shares memory except the playback ring buffer; everything else is an
unbounded tokio channel. Two facts about channels carry the design, and the
models: `close()` on a receiver makes later sends fail and still delivers what is
queued; and a receiver sees the end of its channel when the last sender is
dropped, wherever that sender lives (in a message, in `unauth`, in a copy of a
routing table, in a driver callback).

What is hard here:

* interleaving: a client's `Authenticate` and its voice take different routes;
  the routing task's table is a copy that lags behind;
* shutdown: accept, control, routing and all sessions stop through a chain of
  closed channels and dropped senders, with expects along it; in the client three
  tasks watch each other's channels;
* partial failure: sessions end at any step and must leave no trace; an audio
  stream fails while the other tasks run;
* unreliable delivery: encrypted voice carries one byte of a 128-bit nonce over
  a network that loses, repeats and reorders;
* time: client pings and server checks run on unrelated timers, and neither task
  looks at its timer while it waits for room in the socket;
* limits: ring buffers that drop silently, a signed byte that wraps, u32 counters
  changed by negative amounts; numbers whose spare bits mean something else, blocks
  that fit exactly, packets cut anywhere.

The `hazards` of `PROJECT.json` place each of these at a line and name the
properties aimed at it.

## 2. Modules

| Module | Models | Notes |
|---|---|---|
| `RoutingTable` | `routing_table.rs` | operators on a table value |
| `RoutingTableOps` | the table under any sequence of method calls | state machine for runs and proofs |
| `RoutingTableLemmas`, `RoutingTableProofs` | | lemmas on the operators, theorems |
| `Stammer` | the four kinds of server tasks and their channels | composes the tasks, uses `RoutingTable` |
| `MCStammer` | | packet alphabets for the runs |
| `TableLog` | | abstract: a table, its copy and the channel between them; `Stammer` implements it |
| `StammerProofs` | | inductive invariant, the refinement, what clients are promised |
| `Connection` | one client's connection task and one session task over a socket, with time | composes the two programs at the socket |
| `ConnectionProofs` | | invariants and theorems about it |
| `Varint`, `Voice` | `varint.rs`, `voice.rs` | operators on bytes |
| `Wire` | `control.rs` over a byte stream | uses `Voice` |
| `Fifo` | | abstract: a channel of packets; `Wire` implements it |
| `MCWire` | | packets at the edges of the encodings |
| `WireProofs` | | the codecs for all packets, the refinement of `Fifo` |
| `Crypt`, `CryptProofs` | the nonce window of `crypt.rs` with its network | |
| `Ocb`, `MCOcb`, `OcbProofs` | the block mode of `crypt.rs` | |
| `Stutter`, `StutterProofs` | the three client tasks and the driver callbacks | |

Operators called "a plausible slip" in the modules are not part of the models:
each is the wrong form of the definition after it, and shows that a property
notices.

### Stammer

`accept`, `control`, `routing` and `sess[s]` say where each task is; `controlQ`,
`routingQ`, `sessionQ[s]` are the channels; `unauth`, `rtbl`, `view` the tables;
`stop` the `Notify` permit; `sending[s]` a packet that a session is writing while
it does nothing else. An action is one message handled or one select branch up to
the next await: the accept, control and routing tasks are joined in one tokio
task, so their handlers do not interleave with each other, and session tasks
share nothing with them but channels. `Held(s)` computes whether anybody still
holds a sender of session `s`; its negation is the `None` of `session_recv`.
`panicked` records the joined task that panicked: it takes `main` with it.
`greeting[s]` is not in the code: it is the kind of the first packet session `s` got
through to the control task. `Enrolled(s)` is built on it: that packet was an
`Authenticate`, and `s` has left `unauth`, which handle_packet makes it do on exactly
that packet. A session that was turned away for another first packet, or is only
declared, is never `Enrolled`, whatever it sends afterwards.

The recipients of a text are sets; the code's are lists, in which an id that is repeated
is one more copy. Where a text names an unknown room, the recipients ahead of it in the
lazy iterator have their copies before the panic, and `RoutingText` lets that be any of the
known rooms.

Clients are the environment: they send any packet of `Packets`, close, block or
stay silent. A keepalive may expire whenever the session is in its select loop;
`Connection` says when it does.

The refinement: `TableLog`'s owner is the control task with `rtbl`, its copy the
routing task's `view`, its mail the routing channel with everything that is not an
`Update` reduced to `<<>>`. It says more than `TableSync` does: no table is skipped,
repeated or reordered on the way, and the copy goes only when the owner has said
goodbye and the channel is empty.

### Connection

What `Stammer` and `Stutter` each leave to their environment: the other end. `client`
and `server` say where the two tasks are; `cwrite` and `swrite` hold the packet a task
is writing, during which it does nothing else; `toServer` and `toClient` are the
socket, with room for `Capacity` packets each way. `pingAt` and `checkAt` are the
next ticks of the two `interval`s, which make up for missed ticks at once; `lastPing`
is `last_ping`. `Tick` advances the clock, after the tasks have done what a timer or
room in the socket lets them do (`Urgent`); what waits in the socket may wait for any
time. Voice comes at any moment from the microphone and from the routing task, either
end may fail, and a client may vanish without a word. `slow` remembers that a
ping was not read `MaxDelay` after its tick, for whatever reason (the network, a
blocked write, voice ahead of it).

### Varint, Voice, Wire

A u64 is eight bytes, so that nothing is scaled down in `Varint`. Its two recursions
are unrolled: the encoder's is for a positive number and goes no deeper, and of the
decoder's the complements cancel in pairs. `Voice` has encoder and decoder for both
directions; only the opus termination bit is scaled (`TermBit`, 0x2000 in the code),
so that frames on both sides of it stay short; it is a power of two below 2^24, as
`NatOf` needs (`TermBitAssumption`, `TermBitWidth`). `Encodable` collects what the
encoder takes for granted.

`Wire` is one direction of a connection: `Send` encodes a packet onto `wire`, `Read`
moves any part of it into `buf`, and the decode actions are the returns of
`ControlCodec::decode`, called as `Framed` calls it. The sender may close the
connection or break it in the middle of a packet. Packets that are not `Sound` are
sent too: too long, malformed, cut, of unknown kind. `PacketsAssumption` says what `Packets` may
hold: packets of the code's types whose length fits the header, voice within `Encodable`,
and under `Other` any raw packet, unless it is of a known kind and would be decoded, as
that kind. `Wire` implements `Fifo`, which
is what `Stammer` and `Stutter` assume of a connection: so far as it goes, whole
packets in order.

### Crypt

One sender and one receiver. `Encrypt` takes the next nonce; a packet is known by
its nonce, and any packet that is not too old may arrive, again and in any order.
`DeliverIntact` is a packet as it was sent; `DeliverDamaged` one that is not, in which
any byte may stand where the nonce byte was, since the receiver reads that byte
before anything is authenticated. The actions of `Decrypt` are the returns of `decrypt`.
Byte size, late window and counter size are constants (2^8, 30, 2^32 in the code).
Nonces are integers, since no run gets near 2^128. AES-OCB is idealised: the tag
of an intact packet matches iff the nonce the receiver guessed is the sender's.

Not in the code: `newest` (the newest packet that came through, which bounds the losses
in a row), `accepted`, `skipped`, `resyncs`, and `astray`, the number of `Late` returns since
the start or the last resync. `Late` is the one return that leaves the nonce moved, so
`AcceptedOnce`, `InSync` and `RepeatsExplained` are about the time in which `astray` is 0; an intact
packet does not cause a `Late` on a network within the limits (`InSync`), a damaged nonce byte
can. `Accounting` and `NoncesAdvance` hold throughout.

### Ocb

`ocb_encrypt` and `ocb_decrypt`, one action per block and one for the end, on one buffer
that is encrypted, perhaps damaged within one block, and decrypted. Blocks are of
`BlockSize` bits, AES under a key is any permutation of blocks, and every permutation
is tried, so nothing rests on the strength of the cipher. That more than one damaged
block is noticed does rest on it, and is not claimed. `Crypt` uses the outcome: intact
packets pass, damaged ones do not.

### Stutter

`connection`, `codec`, `io` say where the tasks are, `connectionQ`, `codecQ`,
`ioQ` are the channels (of frames only their number is kept). `ring` counts the
samples in the codec's ring buffer; `playback` holds, for every sample, the number
of the packet it came from. A task that ends drops its receiver with what is
queued, and its senders. The two callbacks are actions of the driver. `lost` and
`played` are not in the code.

## 3. Runs

Passing runs:

| Run | Instance | Shows |
|---|---|---|
| `routing_table` | 3 sessions, 3 rooms | the maps agree, peers are exact, rooms persist |
| `stammer` | 2 sessions, 2 reads each: Authenticate, another control packet, voice, text (which panics the routing task while its room does not exist) | no expect fails, tables in sync and consistent, ended sessions deregistered, only enrolled sessions are reached, in order |
| `liveness` | 2 sessions, 1 read each, fair clients: Authenticate, another control packet, voice, pings, voice pings (which panic the routing task) | `TableLog` is implemented, nobody is dropped for nothing, shutdown completes, lost sessions leave, enrolled ones become routable |
| `connection` | timeouts of 4, delay 2, 2 packets each way, 11 units of time | handshakes fit, no false timeout, silence is bounded |
| `wire` | 2 packets out of 25, reads of 1 byte or of all | `Fifo` is implemented, nothing withheld, errors only for what is unsound, parts refused |
| `crypt` | bytes of 8 values, window 3, counters of 3 values, 9 packets from nonce 0, one `Late` between resyncs, one resync | any damage, headers included: accounting and nonces right throughout; until a `Late` return no packet twice, in sync, repetitions explained |
| `ocb` | blocks of 2 bits, all 24 keys, all nonces, all packets up to 3 blocks | restored, tags agree, damage to a block is noticed |
| `stutter` | frames of 3, ring of 7, chunks of 2 and 5, 3 packets, fair tasks | no sample lost, order of playback, codec ends last, the client stops whenever its codec task can |

Why the bounds are enough for the questions asked: with two sessions there is a
speaker, a peer, one that leaves while the other authenticates, and every order of
their messages with `Shutdown`; two reads per client give an authentication and
something after it, or something before it. The unchecked case of a third session
is the subject of the proofs, which have no bound. In `Crypt` 9 packets wrap the
low byte, so that second bytes 0 and 1 both occur, and with counters of 3 values the
counters; the distance to the sender reaches the largest one the signed byte tells
apart. The start is the fresh state of `generate_new`: nonce 0 and a history of zeros
(its 2^127 has the same two low bytes). One `Late` return and one resync give a receiver
led astray, one brought back, and packets from before the resync. In `Stutter`
the third packet overflows the playback buffer, and chunks are both smaller and
larger than a frame. In `Connection` 11 units are two timeouts and most of a third:
the first check, which is immediate, the next two, and a session that misses one while
it writes; with room for 2 packets both directions fill up, and 4 = 2 + 2 is the tightest case
`TimeoutsAssumption` admits. In `Wire` the second packet shows that the first was cut
off in the right place; reads of one byte stop at every position. `MCWire` has the
numbers on both sides of every change of form, the longest frames of each codec, and
one packet for each way to be unsound. In `Ocb` packets are empty, short, and one, two
and three blocks with and without a rest.

Named bounds: `MaxReads` (packets a client sends), `MaxSent`, `MaxGap`,
`MaxLates`, `MaxResyncs`, `MaxReceived` (voice from the server), `MaxWaiting` (what may wait
in the client's channels before the driver is made to pause), `MaxTime`, `MaxLen`.
`MaxDelay`, `MaxLoss` and `Capacity` describe the network.

Violation runs, each against a comment of the code:

| Run | What the code does |
|---|---|
| `silent_client` | a client that never sends its version keeps a stopping server alive for ever |
| `crypt_far_too_late` | the `Late` return does not restore the nonce: one damaged nonce byte takes the receiver up to half a byte back |
| `crypt_fresh_history` | a late packet that was never decrypted is returned as `Repeat`: the history of zeros matches a second nonce byte of 0, with which every fresh session begins |
| `stutter_connection_lost` | the client never stops after its connection has: a `break` leaves the inner loop only |

Also seen while modelling, in steps the models have and no run is spent on:

* a packet ahead of `Authenticate` costs an unauthenticated session its only sender
  (`ControlPacket`): it ends by the branch that `task_session.rs` calls "a graceful
  shutdown event" while the server runs. `HandshakesAgree` shows that stutter never
  sends one;
* client and session task can wait for each other's reads for ever, each in a write, with no
  timer polled (`Connection`, both buffers full);
* the encoders check no limits: a frame of 128 bytes or more, an opus frame of 0x2000 or
  more, an empty list of frames or an empty position decode as something else, and a body
  longer than 0x7f_ffff ends the connection at the other end (`Encodable`, `Sound`);
* the two session timeouts come from two environment variables of two programs: nothing
  keeps a client from pinging more slowly than its server allows (`TimeoutsAssumption`);
* `nonce.to_be()` in `ocb_encrypt` makes the nonce that is encrypted depend on the host's byte order,
  which no test with both ends on one machine can notice;
* a text to a room nobody has entered panics the routing task (`RoutingText`), where
  the comment in `task_routing.rs` has such references "dropped silently"; a FIXME in
  `routing_table.rs` knows;
* after `set_decrypt_nonce` a packet that was jumped over and arrives late takes
  `lost` below 0, to 2^32 - 1 (`Resync`, then `DecryptOk`);
* an audio stream that fails ends the io task only (`IoStop`): the client stops when
  the server sends voice, and runs on otherwise, where `task_audio_io.rs` has any
  failure "final to the program";
* text messages of sessions that have not authenticated are routed (`RoutingText`
  looks only at the recipients);
* after a listener error `run_stammer_task` returns and `main` goes on waiting for
  ctrl-c;
* voice pings and voice targets other than 0 are `unimplemented!`, which ends the
  server.

### Fairness

`ServerFairness`: the control and routing tasks handle what is queued, a session
forwards what is queued or notices its end, the accept task notices stop and the
end of the sessions. Tokio polls a task that was woken, and `select!` polls its
branches in random order, so that no branch that stays ready is passed over for
ever. `ClientFairness` is what the server cannot enforce: a client finishes or
breaks off the version exchange, and takes what is written to it or fails.
`ShutdownCompletes` holds with both and fails without the second, which is the
finding. Listener errors, lost connections, expiring keepalives and packets from
clients are not fair.

`Stutter`'s `Fairness` is of the same kind: codec and io tasks run, writes to the
server complete or fail, the handshake is answered or fails, the driver calls
back. The branches for queued frames and for the end of the channel are strongly
fair, since the task leaves the select at every write: this is the random order of
`select!` again. Nothing obliges the server to send voice.

Deadlock is checked in all runs; `Ended` is the one step of a process that is gone.

## 4. Proofs

All theorems are for every value of the constants under the named assumptions.

* `RoutingTableProofs`: `Consistent` is inductive by itself. The lemmas say that
  each method maps consistent tables of the type to such tables, and what
  `target_senders` yields in one. Needs `IdsAssumption` only.
* `StammerProofs`: `TypeOK`, `NoExpectFails`, `TableSync`, `TablesConsistent` and
  `Deregistered` for any set of session ids, rooms and packets. The invariants are
  not inductive: `NoExpectFails` needs to know how far the shutdown has come
  (`ShutdownChain`: a Shutdown is queued or taken exactly when its sender has left
  its loop, and nothing follows it from that sender), `Deregistered` needs that ids
  are handed out once (`FreshIds`) and where in the control channel the messages of
  each session stand (`Registration`: an AddSession is ahead of every RemoveSession,
  and a session that ended has one behind it or is nowhere). `IInv` is the
  conjunction; there is one lemma per action.
* The refinement, `Spec => TablesInOrder` in `StammerProofs`: `Stammer` implements `TableLog`
  for any sessions, rooms and packets. Every action of the server is mapped to a step
  of `TableLog`: a send to the routing task is `Chatter` or `Publish`, a receive is
  `Take`, the control task's end `Retire`, the routing task's `Drop`, everything else a
  stutter. The one step that could break it, a change of `rtbl` whose `Update` meets
  a closed routing task, is excluded by `ShutdownChain` of the inductive invariant; the
  rest is about the mapping of a sequence of messages, item by item, under `Append`
  and `Tail`.
* What clients are promised, also in `StammerProofs`, each with an invariant on top of `IInv`.
  `DroppedOnlyForPacket` needs `Kept`: while the control task takes messages, a session
  that was never read from has its AddSession queued or is in `unauth`, and no message
  in the control channel would make it leave. `OnlyEnrolled` needs `LetIn`: whoever is in any
  copy of the table, under way or not, was enrolled, and so was whoever has
  something on its way, even if it has left the table since; `Greeting`: as long as a
  session is on its way into `unauth` or in it, its declaration is ahead of its packets
  in the control channel, and the first of these is the first it ever sent, so
  that handle_packet decides on that one; and `Idle`, about half written packets. `DeliveryOrder` needs `InOrder`: the routing channel has each client's
  packets as they were read, and what is on its way to a session was ahead of them.
* `CryptProofs`: for every byte and counter size, every start and every window of at most
  half a byte (`CryptAssumption`). `TypeOK`, `NoncesAdvance` and `Accounting` need no assumption
  on the network; `Accounting` is inductive with `TypeOK`, by arithmetic of remainders, which
  is proved from scratch. The others are under `GoodNetwork` (delays below the late
  window, fewer losses in a row than half a byte). `Sync` bounds, while `astray` is 0, the
  distance of the two ends so that the signed byte is exact and the receiver's guess right
  for every intact packet (`GuessRight`), whatever damaged ones did; `Remembered` says that the
  history knows every packet decrypted within the window, because two packets of the
  window never share a slot, and survives a nonce that is astray, since only decrypted
  packets enter the history; `Known` that every entry of the history is the 0 it began with or
  the second byte of a packet decrypted. From these, `AcceptedOnce`, `InSync` and
  `RepeatsExplained` follow, for any number of Late returns and resyncs.
* `OcbProofs`: `RoundTrip`, `TagsAgree` and `DamageDetected` for every block size, reduction
  polynomial, length, nonce and key, where a key is any permutation of blocks; all that is
  assumed is that a block has a bit (`OcbAssumption`). The invariant says how far the loops are: there are `n` whole
  blocks and two traces, of the offset and of the checksum after each, that the encryption
  has followed (`Encrypting`), that describe the cipher text and the tag (`Encrypted`), and
  that the decryption follows again (`Decrypting`). Damage in block `q` leaves the
  checksum right up to `q` and wrong from there on, since blocks are enciphered by a
  permutation and one wrong term makes a wrong sum. The end, of 0 up to `BlockSize`
  bits, is one case in both directions.
* `WireProofs`: what the codecs do for every packet, and `Wire` for all packets, reads
  and breaks, from `WireAssumption`, `TermBitWidth` and `PacketsAssumption`.
  `VarintRoundTrip` goes through the forms of a number, each at any place of a buffer.
  `VoiceRoundTrip` puts the parts of a packet together; its frames are written and read by
  loops, recursive functions in the model, and there the proof is by the least
  counterexample (`NoLeast`: a set of naturals without a least member is empty), both for the
  existence of the functions and for what they compute. `CutVoiceRefused` does not look at
  the encoding: whatever a part of a packet is decoded as, the whole is decoded as too,
  with the bytes left over as its position (`Same`, `AudioPart`); so a packet without position
  has no such part. On these rests the invariant of `Wire`: buffer, wire and what a break
  lost are together the encodings of the packets not yet received, one after the other
  (`Framing`); what is received is a prefix of what was sent (`Prefix`). `DecodePacket` then takes
  the next packet and nothing else, which is `Fifo`'s `Receive`.
* `StutterProofs`: for every frame and ring size such that a chunk fits beside an
  incomplete frame (`SizesAssumption`; 959 + a driver's chunk against 96000). The
  invariant adds that the input stream runs only while io owns it. `PlayedInOrder` needs
  `Queued`, for any number of packets: played, in the playback buffer, in io's channel, in the
  codec's channel, received; nothing in one of these places is newer than anything in
  the next, and each is in order.
* `ConnectionProofs`: all four invariants of `Connection`, for all timeouts with
  room for a ping interval and `MaxDelay` (`TimeoutsAssumption`), all buffer sizes and
  any length of time. `TypeOK` needs `Clocks`, since a timer stays in range only
  because it is set from a tick that was due; its last conjunct, that the next check
  is at most two timeouts after the last ping, is `SilenceBounded`. `Handshakes` says
  for each pair of positions what can be in the socket and in the two writes, and
  carries `HandshakesAgree`. `NoFalseTimeout` needs `Keepalive`: each ping in the socket
  has its successor behind it, in the client's hands or in its timer (`Chain`); so
  after the one read last another is due within an interval, or within `MaxDelay`
  of the session's start (`Outstanding`); unless `slow` it is no older than `MaxDelay`
  (`Timely`). The two together keep the silence within the timeout.

Every invariant, action property and refinement that a passing run checks is proved.
Only model-checked is liveness (`ShutdownCompletes`, `LostSessionsLeave`,
`EnrolledGetRoutable`, `StopsOnceCodecCan`): the prover does not handle fairness
and ENABLED. What the violation runs refute is for TLC to show.

## 5. Not modelled

* AES itself; that the header carries three bytes of the tag; opus; the contents of
  protobuf messages.
* fixed-size ping packets (field by field copies nobody in the repository uses).
* time in `Stammer` and `Stutter`, where an expiry and a ping may happen at any moment;
  `Connection` has it, for one client.
* growth without bound of channels and of the list of session handles.
* configuration, logging, the build script and the example client.
* a panic of the speakers' error callback, on a thread of the driver.
* the depth of the stack: `read_varint` calls itself for every negating byte in a row.
* `write_to_bytes().unwrap()` on a message that lacks a required field (`control.rs`).
* opus lengths with bits above the termination bit, which the decoder accepts and
  `Encodable` leaves out.
* the order and repetition of ids in the recipient lists of a text.

## 6. Plan

Done: routing table, server, client, the connection between them, voice encryption, the
codecs; the refinements to `TableLog` and `Fifo`, both proved; proofs of all safety
properties.

Next, in this order:

1. The safety core of the liveness properties: that in every state that is not final some
   fair action changes the state on the way to the end (`ShutdownChain` and `Held` have most of
   it), so that only the fairness argument is left to TLC.
2. What becomes of a receiver that is astray: which packets it still takes, and whether it
   finds back without a resync.
3. `DamageDetected` for damage in several blocks does not hold for every permutation; a
   statement that counts permutations would have to be found.
