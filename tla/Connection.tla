----------------------------- MODULE Connection -----------------------------
(***************************************************************************)
(* One TCP connection in discrete time: stutter's connection task at one   *)
(* end, stammer's session task at the other, and the socket's two bounded  *)
(* buffers between them.                                                   *)
(*                                                                         *)
(* Each task is one select! loop. A branch that writes awaits the write    *)
(* inside the branch, so that a task that waits for room in the socket     *)
(* reads nothing and looks at no timer.                                    *)
(*                                                                         *)
(* Time is counted in units that are long against what a task computes: a  *)
(* step that a task can take because of a timer or of room in the socket   *)
(* is taken before time goes on. What the network delays, and for how      *)
(* long, is left open.                                                     *)
(***************************************************************************)
EXTENDS Integers, Sequences

CONSTANTS
    ClientTimeout,  \* stutter's session_timeout
    ServerTimeout,  \* stammer's session_timeout
    MaxDelay,       \* how old a ping gets before the network counts as slow
    Capacity,       \* packets a direction of the socket holds
    MaxTime         \* bound: when the clock stops

\* ping_interval, which is session_timeout / 2
PingInterval == ClientTimeout \div 2

\* The timeouts come from two environment variables, 30 s each by default;
\* the network has the rest of the server's timeout for a ping.
ASSUME TimeoutsAssumption ==
    /\ ClientTimeout \in Nat /\ ServerTimeout \in Nat /\ MaxDelay \in Nat
    /\ PingInterval > 0
    /\ PingInterval + MaxDelay <= ServerTimeout
    /\ 2 * MaxDelay <= ServerTimeout
ASSUME BoundsAssumption == Capacity \in Nat \ {0} /\ MaxTime \in Nat

VARIABLES
    now,       \* the clock
    client,    \* where the client's connection task is
    cwrite,    \* the packet it is writing, if any
    pingAt,    \* when its keepalive interval ticks next
    server,    \* where the session task is
    swrite,    \* the packet it is writing, if any
    lastPing,  \* last_ping
    checkAt,   \* when keepalive_check ticks next
    toServer,  \* the socket, client to server
    toClient,  \* the socket, server to client
    slow       \* history: a ping was not at the server MaxDelay after its time

clientVars == <<client, cwrite, pingAt>>
serverVars == <<server, swrite, lastPing, checkAt>>
vars == <<now, clientVars, serverVars, toServer, toClient, slow>>

Times == 0 .. MaxTime + ServerTimeout + PingInterval

\* due is the time of the tick a ping was sent for; it is not in the code.
Packet == [kind : {"Version", "Authenticate", "Voice", "Ping"}, due : Times]
Plain(k)  == [kind |-> k, due |-> 0]
PingOf(t) == [kind |-> "Ping", due |-> t]

Init ==
    /\ now = 0
    /\ client = "greets" /\ cwrite = <<Plain("Version")>> /\ pingAt = 0
    /\ server = "greets" /\ swrite = <<Plain("Version")>>
    /\ lastPing = 0 /\ checkAt = 0
    /\ toServer = <<>> /\ toClient = <<>>
    /\ slow = FALSE

-----------------------------------------------------------------------------
(* The client: run_connection_task *)

ClientIdle == client = "loop" /\ cwrite = <<>>

\* server_stream.send(..).await is done; after Authenticate the interval
\* starts, its first tick being immediate
ClientWritten ==
    /\ cwrite # <<>>
    /\ Len(toServer) < Capacity
    /\ toServer' = Append(toServer, Head(cwrite))
    /\ cwrite' = <<>>
    /\ client' = IF client = "greets" THEN "awaits" ELSE "loop"
    /\ pingAt' = IF client = "authenticates" THEN now ELSE pingAt
    /\ UNCHANGED <<now, serverVars, toClient, slow>>

\* version_handshake reads the server's version; another packet is an error,
\* and so is another version, but both programs have the same one
ClientHandshake ==
    /\ client = "awaits"
    /\ toClient # <<>>
    /\ toClient' = Tail(toClient)
    /\ IF Head(toClient).kind = "Version"
       THEN client' = "authenticates" /\ cwrite' = <<Plain("Authenticate")>>
       ELSE client' = "refused" /\ UNCHANGED cwrite
    /\ UNCHANGED <<now, pingAt, serverVars, toServer, slow>>

\* a plausible slip: a ping per session_timeout, not two
PingEveryTimeout ==
    /\ ClientIdle
    /\ pingAt <= now
    /\ cwrite' = <<PingOf(pingAt)>>
    /\ pingAt' = pingAt + ClientTimeout
    /\ UNCHANGED <<now, client, serverVars, toServer, toClient, slow>>

\* keepalive.next(): a tick that was missed is made up for at once
ClientPing ==
    /\ ClientIdle
    /\ pingAt <= now
    /\ cwrite' = <<PingOf(pingAt)>>
    /\ pingAt' = pingAt + PingInterval
    /\ UNCHANGED <<now, client, serverVars, toServer, toClient, slow>>

\* connection_recver.next() yields what the microphone recorded
ClientVoice ==
    /\ ClientIdle
    /\ cwrite' = <<Plain("Voice")>>
    /\ UNCHANGED <<now, client, pingAt, serverVars, toServer, toClient, slow>>

\* server_stream.next() yields voice or a pong
ClientRead ==
    /\ ClientIdle
    /\ toClient # <<>>
    /\ toClient' = Tail(toClient)
    /\ UNCHANGED <<now, clientVars, serverVars, toServer, slow>>

\* The task ends (the connection fails or is closed, the user leaves) and
\* drops the socket; or its machine is gone, which nobody tells the server.
ClientStops ==
    /\ client \notin {"refused", "stopped", "vanished"}
    /\ client' \in {"stopped", "vanished"}
    /\ cwrite' = <<>>
    /\ UNCHANGED <<now, pingAt, serverVars, toServer, toClient, slow>>

-----------------------------------------------------------------------------
(* The server: run_session_task *)

ServerIdle == server = "active" /\ swrite = <<>>

\* a plausible slip: the exchange does not wait for the client's version
ServerWrittenNoWait ==
    /\ swrite # <<>>
    /\ Len(toClient) < Capacity
    /\ toClient' = Append(toClient, Head(swrite))
    /\ swrite' = <<>>
    /\ server' = "active"
    /\ UNCHANGED <<now, clientVars, lastPing, checkAt, toServer, slow>>

\* client_stream.send(..).await is done
ServerWritten ==
    /\ swrite # <<>>
    /\ Len(toClient) < Capacity
    /\ toClient' = Append(toClient, Head(swrite))
    /\ swrite' = <<>>
    /\ server' = IF server = "greets" THEN "awaits" ELSE server
    /\ UNCHANGED <<now, clientVars, lastPing, checkAt, toServer, slow>>

\* version_exchange reads the client's version; another packet is an error.
\* Then AddSession is sent and both keepalive timers start.
ServerHandshake ==
    /\ server = "awaits"
    /\ toServer # <<>>
    /\ toServer' = Tail(toServer)
    /\ IF Head(toServer).kind = "Version"
       THEN server' = "active" /\ lastPing' = now /\ checkAt' = now
       ELSE server' = "refused" /\ UNCHANGED <<lastPing, checkAt>>
    /\ UNCHANGED <<now, clientVars, swrite, toClient, slow>>

\* client_stream.next(): a ping is registered and answered, the rest is sent
\* to the control or the routing task, which takes no time
ServerRead ==
    /\ ServerIdle
    /\ toServer # <<>>
    /\ toServer' = Tail(toServer)
    /\ IF Head(toServer).kind = "Ping"
       THEN swrite' = <<Head(toServer)>> /\ lastPing' = now
       ELSE UNCHANGED <<swrite, lastPing>>
    /\ UNCHANGED <<now, clientVars, server, checkAt, toClient, slow>>

\* a plausible slip: the write is not awaited
ForwardWhileWriting ==
    /\ server = "active"
    /\ swrite' = Append(swrite, Plain("Voice"))
    /\ UNCHANGED <<now, clientVars, server, lastPing, checkAt, toServer,
                   toClient, slow>>

\* session_recv.next() yields a packet for the client
ServerForward ==
    /\ ServerIdle
    /\ swrite' = <<Plain("Voice")>>
    /\ UNCHANGED <<now, clientVars, server, lastPing, checkAt, toServer,
                   toClient, slow>>

\* a plausible slip: the timeout is counted in checks, two of them
CheckLenient ==
    /\ ServerIdle
    /\ checkAt <= now
    /\ server' = IF now - lastPing > 2 * ServerTimeout THEN "timedout" ELSE server
    /\ checkAt' = checkAt + ServerTimeout
    /\ UNCHANGED <<now, clientVars, swrite, lastPing, toServer, toClient, slow>>

\* keepalive_check.next(), which makes up for missed ticks as well
ServerCheck ==
    /\ ServerIdle
    /\ checkAt <= now
    /\ server' = IF now - lastPing > ServerTimeout THEN "timedout" ELSE server
    /\ checkAt' = checkAt + ServerTimeout
    /\ UNCHANGED <<now, clientVars, swrite, lastPing, toServer, toClient, slow>>

\* an io error or the end of the stream, in a read or in a write
ServerLost ==
    /\ server \in {"greets", "awaits", "active"}
    /\ server' = "lost"
    /\ swrite' = <<>>
    /\ UNCHANGED <<now, clientVars, lastPing, checkAt, toServer, toClient, slow>>

-----------------------------------------------------------------------------
(* Time *)

\* a task has something to do that waits neither for the other end nor for
\* the scheduler
Urgent ==
    \/ ClientIdle /\ pingAt <= now
    \/ ServerIdle /\ checkAt <= now
    \/ /\ client \in {"authenticates", "loop"}
       /\ cwrite # <<>> /\ Len(toServer) < Capacity
    \/ /\ server = "active"
       /\ swrite # <<>> /\ Len(toClient) < Capacity

\* At time t a ping whose tick was more than MaxDelay ago has not been read,
\* or the client is not in its loop MaxDelay after the session started.
Overdue(t) ==
    /\ server = "active"
    /\ client \notin {"stopped", "vanished"}
    /\ \/ \E i \in DOMAIN toServer :
             toServer[i].kind = "Ping" /\ toServer[i].due + MaxDelay < t
       \/ \E i \in DOMAIN cwrite :
             cwrite[i].kind = "Ping" /\ cwrite[i].due + MaxDelay < t
       \/ client = "loop" /\ pingAt + MaxDelay < t
       \/ client # "loop" /\ lastPing + MaxDelay < t

Tick ==
    /\ now < MaxTime
    /\ ~Urgent
    /\ now' = now + 1
    /\ slow' = (slow \/ Overdue(now + 1))
    /\ UNCHANGED <<clientVars, serverVars, toServer, toClient>>

\* the clock has stopped
Ended == now = MaxTime /\ UNCHANGED vars

Next ==
    \/ ClientWritten
    \/ ClientHandshake
    \/ ClientPing
    \/ ClientVoice
    \/ ClientRead
    \/ ClientStops
    \/ ServerWritten
    \/ ServerHandshake
    \/ ServerRead
    \/ ServerForward
    \/ ServerCheck
    \/ ServerLost
    \/ Tick
    \/ Ended

Spec == Init /\ [][Next]_vars

-----------------------------------------------------------------------------
(* Properties *)

\* Every variable has the type its Rust counterpart has, the socket holds at
\* most Capacity packets each way and a task writes one packet at a time.
TypeOK ==
    /\ now \in 0 .. MaxTime
    /\ client \in {"greets", "awaits", "authenticates", "loop", "refused",
                   "stopped", "vanished"}
    /\ server \in {"greets", "awaits", "active", "refused", "timedout", "lost"}
    /\ {pingAt, lastPing, checkAt} \subseteq Times
    /\ cwrite \in Seq(Packet) /\ Len(cwrite) <= 1
    /\ swrite \in Seq(Packet) /\ Len(swrite) <= 1
    /\ toServer \in Seq(Packet) /\ Len(toServer) <= Capacity
    /\ toClient \in Seq(Packet) /\ Len(toClient) <= Capacity
    /\ slow \in BOOLEAN

\* The handshakes of task_session.rs and task_connection.rs fit each other:
\* neither end meets a packet it does not expect, and the first packet of a
\* session is its Authenticate, before any ping or voice (the control task
\* throws an unauthenticated session out for anything else).
HandshakesAgree ==
    /\ client # "refused" /\ server # "refused"
    /\ server \in {"greets", "awaits"} /\ toServer # <<>> =>
          Head(toServer).kind = "Version"
    /\ server = "active" =>
          \A i \in DOMAIN toServer : toServer[i].kind # "Version"
    /\ \A i, j \in DOMAIN toServer :
          i < j /\ toServer[j].kind = "Authenticate" => toServer[i].kind = "Version"

\* The keepalive does not throw out a client that is there: a session times
\* out only if its client stopped or if the network was slow, that is, a ping
\* was not read MaxDelay after its tick. Voice in both directions, pongs,
\* full buffers and missed ticks change nothing about that.
NoFalseTimeout ==
    server = "timedout" => slow \/ client \in {"stopped", "vanished"}

\* A session that is not writing has had a ping less than two timeouts ago,
\* or its check is due at once: a vanished client is not kept for longer,
\* however many checks were missed while the task was writing.
SilenceBounded ==
    ServerIdle /\ checkAt > now => now < lastPing + 2 * ServerTimeout

=============================================================================
