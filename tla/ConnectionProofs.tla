-------------------------- MODULE ConnectionProofs --------------------------
(***************************************************************************)
(* Proofs about Connection, for all timeouts, delays and capacities that   *)
(* its assumptions admit and for as long as the clock runs.                *)
(***************************************************************************)
EXTENDS Connection, TLAPS

-----------------------------------------------------------------------------
(* Facts about the operators *)

LEMMA Constants ==
    /\ ClientTimeout \in Nat /\ ServerTimeout \in Nat /\ MaxDelay \in Nat
    /\ PingInterval \in Nat /\ PingInterval > 0
    /\ PingInterval + MaxDelay <= ServerTimeout
    /\ 2 * MaxDelay <= ServerTimeout
    /\ Capacity \in Nat \ {0} /\ MaxTime \in Nat
<1>1. ClientTimeout \in Nat /\ PingInterval \in Int
  BY TimeoutsAssumption DEF PingInterval
<1> QED
  BY <1>1, TimeoutsAssumption, BoundsAssumption

LEMMA TimesFacts ==
    ASSUME NEW t \in Int
    PROVE  t \in Times <=> 0 <= t /\ t <= MaxTime + ServerTimeout + PingInterval
BY Constants DEF Times

LEMMA PacketFacts ==
    /\ \A k \in {"Version", "Authenticate", "Voice", "Ping"} :
          /\ Plain(k) \in Packet /\ Plain(k).kind = k
    /\ \A t \in Times : PingOf(t) \in Packet /\ PingOf(t).kind = "Ping" /\ PingOf(t).due = t
    /\ \A p \in Packet :
          /\ p.kind \in {"Version", "Authenticate", "Voice", "Ping"}
          /\ p.due \in Int /\ p.due \in Times
<1>1. 0 \in Times
  BY TimesFacts, Constants
<1>2. \A t \in Times : t \in Int
  BY Constants DEF Times
<1> QED
  BY <1>1, <1>2 DEF Plain, PingOf, Packet

LEMMA AppendFacts ==
    ASSUME NEW q \in Seq(Packet), NEW p \in Packet
    PROVE  /\ Append(q, p) \in Seq(Packet)
           /\ Len(q) \in Nat /\ Len(Append(q, p)) = Len(q) + 1
           /\ \A i \in 1 .. Len(q) : Append(q, p)[i] = q[i]
           /\ Append(q, p)[Len(q) + 1] = p
OBVIOUS

LEMMA TailFacts ==
    ASSUME NEW q \in Seq(Packet), q # <<>>
    PROVE  /\ Tail(q) \in Seq(Packet)
           /\ Len(q) \in Nat /\ Len(q) > 0 /\ Len(Tail(q)) = Len(q) - 1
           /\ \A i \in 1 .. Len(q) - 1 : Tail(q)[i] = q[i + 1]
           /\ Head(q) = q[1] /\ Head(q) \in Packet
OBVIOUS

LEMMA ElementFacts ==
    ASSUME NEW q \in Seq(Packet)
    PROVE  /\ Len(q) \in Nat /\ DOMAIN q = 1 .. Len(q)
           /\ \A i \in 1 .. Len(q) : q[i] \in Packet
           /\ q = <<>> <=> Len(q) = 0
OBVIOUS

LEMMA AtMostOne ==
    ASSUME NEW q \in Seq(Packet), Len(q) <= 1
    PROVE  Len(q) = 0 \/ Len(q) = 1
<1>1. Len(q) \in Nat
  OBVIOUS
<1>2. \A n \in Nat : n <= 1 => n = 0 \/ n = 1
  OBVIOUS
<1> QED
  BY <1>1, <1>2

LEMMA SingleFacts ==
    ASSUME NEW p \in Packet
    PROVE  /\ <<p>> \in Seq(Packet) /\ Len(<<p>>) = 1 /\ <<p>>[1] = p
           /\ Head(<<p>>) = p /\ <<p>> # <<>>
OBVIOUS

-----------------------------------------------------------------------------
(* Types and clocks. TypeOK is not inductive: a timer is within Times only  *)
(* because it is set from a tick that was due.                              *)

Clocks ==
    /\ lastPing <= now
    /\ pingAt <= now + PingInterval
    /\ checkAt <= now + ServerTimeout
    /\ server = "active" => checkAt <= lastPing + 2 * ServerTimeout

LEMMA InitTypes == Init => TypeOK /\ Clocks
<1> SUFFICES ASSUME Init PROVE TypeOK /\ Clocks
  OBVIOUS
<1>1. Plain("Version") \in Packet
  BY PacketFacts
<1>2. /\ <<Plain("Version")>> \in Seq(Packet) /\ Len(<<Plain("Version")>>) = 1
      /\ <<>> \in Seq(Packet) /\ Len(<<>>) = 0
  BY <1>1, SingleFacts
<1>3. 0 \in Times
  BY TimesFacts, Constants
<1>4. 0 \in 0 .. MaxTime
  BY Constants
<1>5. /\ toServer \in Seq(Packet) /\ Len(toServer) <= Capacity
      /\ toClient \in Seq(Packet) /\ Len(toClient) <= Capacity
      /\ cwrite \in Seq(Packet) /\ Len(cwrite) <= 1
      /\ swrite \in Seq(Packet) /\ Len(swrite) <= 1
  BY <1>2, Constants DEF Init
<1>6. TypeOK
  BY <1>3, <1>4, <1>5 DEF Init, TypeOK
<1>7. Clocks
  BY Constants DEF Init, Clocks
<1> QED
  BY <1>6, <1>7

LEMMA NextTypes == TypeOK /\ Clocks /\ [Next]_vars => TypeOK' /\ Clocks'
<1> SUFFICES ASSUME TypeOK, Clocks, [Next]_vars PROVE TypeOK' /\ Clocks'
  OBVIOUS
<1> USE Constants
<1>t. /\ now \in Int /\ 0 <= now /\ now <= MaxTime
      /\ pingAt \in Int /\ lastPing \in Int /\ checkAt \in Int
      /\ 0 <= pingAt /\ 0 <= lastPing /\ 0 <= checkAt
      /\ pingAt \in Times /\ lastPing \in Times /\ checkAt \in Times
  BY TimesFacts DEF TypeOK, Times
<1>q. /\ cwrite \in Seq(Packet) /\ Len(cwrite) <= 1 /\ swrite \in Seq(Packet) /\ Len(swrite) <= 1
      /\ toServer \in Seq(Packet) /\ Len(toServer) <= Capacity
      /\ toClient \in Seq(Packet) /\ Len(toClient) <= Capacity
      /\ <<>> \in Seq(Packet) /\ Len(<<>>) = 0
  BY DEF TypeOK
<1>p. \A p \in Packet : <<p>> \in Seq(Packet) /\ Len(<<p>>) = 1
  BY SingleFacts
<1>n. now \in Times
  BY <1>t, TimesFacts
<1>1. CASE ClientWritten
  <2>1. Head(cwrite) \in Packet
    BY <1>1, <1>q, TailFacts DEF ClientWritten
  <2>2. toServer' \in Seq(Packet) /\ Len(toServer') <= Capacity
    BY <1>1, <1>q, <2>1, AppendFacts DEF ClientWritten
  <2> QED
    BY <1>1, <1>t, <1>q, <1>n, <2>2 DEF ClientWritten, TypeOK, Clocks, serverVars
<1>2. CASE ClientHandshake
  <2>1. toClient' \in Seq(Packet) /\ Len(toClient') <= Capacity
    BY <1>2, <1>q, TailFacts DEF ClientHandshake
  <2>2. Plain("Authenticate") \in Packet
    BY PacketFacts
  <2>3. /\ cwrite' \in Seq(Packet) /\ Len(cwrite') <= 1
        /\ client' \in {"authenticates", "refused"}
    <3>1. CASE Head(toClient).kind = "Version"
      <4>1. client' = "authenticates" /\ cwrite' = <<Plain("Authenticate")>>
        BY <1>2, <3>1 DEF ClientHandshake
      <4> QED
        BY <1>p, <2>2, <4>1
    <3>2. CASE Head(toClient).kind # "Version"
      BY <1>2, <1>q, <3>2 DEF ClientHandshake
    <3> QED
      BY <3>1, <3>2
  <2> QED
    BY <1>2, <1>t, <1>q, <2>1, <2>3 DEF ClientHandshake, TypeOK, Clocks, serverVars
<1>3. CASE ClientPing
  <2>1. PingOf(pingAt) \in Packet
    BY <1>t, PacketFacts
  <2>2. pingAt + PingInterval \in Times /\ pingAt + PingInterval <= now + PingInterval
    BY <1>3, <1>t, TimesFacts DEF ClientPing
  <2> QED
    BY <1>3, <1>t, <1>q, <1>p, <2>1, <2>2 DEF ClientPing, TypeOK, Clocks, serverVars
<1>4. CASE ClientVoice
  <2>1. Plain("Voice") \in Packet
    BY PacketFacts
  <2> QED
    BY <1>4, <1>t, <1>q, <1>p, <2>1 DEF ClientVoice, TypeOK, Clocks, serverVars
<1>5. CASE ClientRead
  <2>1. toClient' \in Seq(Packet) /\ Len(toClient') <= Capacity
    BY <1>5, <1>q, TailFacts DEF ClientRead
  <2> QED
    BY <1>5, <1>t, <1>q, <2>1 DEF ClientRead, TypeOK, Clocks, serverVars, clientVars
<1>6. CASE ClientStops
  BY <1>6, <1>t, <1>q DEF ClientStops, TypeOK, Clocks, serverVars
<1>7. CASE ServerWritten
  <2>1. Head(swrite) \in Packet
    BY <1>7, <1>q, TailFacts DEF ServerWritten
  <2>2. toClient' \in Seq(Packet) /\ Len(toClient') <= Capacity
    BY <1>7, <1>q, <2>1, AppendFacts DEF ServerWritten
  <2> QED
    BY <1>7, <1>t, <1>q, <2>2 DEF ServerWritten, TypeOK, Clocks, clientVars
<1>8. CASE ServerHandshake
  <2>1. toServer' \in Seq(Packet) /\ Len(toServer') <= Capacity
    BY <1>8, <1>q, TailFacts DEF ServerHandshake
  <2> QED
    BY <1>8, <1>t, <1>q, <1>n, <2>1 DEF ServerHandshake, TypeOK, Clocks, clientVars
<1>9. CASE ServerRead
  <2>1. toServer' \in Seq(Packet) /\ Len(toServer') <= Capacity /\ Head(toServer) \in Packet
    BY <1>9, <1>q, TailFacts DEF ServerRead
  <2>2. /\ swrite' \in Seq(Packet) /\ Len(swrite') <= 1
        /\ lastPing' = now \/ lastPing' = lastPing
    <3>1. CASE Head(toServer).kind = "Ping"
      <4>1. lastPing' = now /\ swrite' = <<Head(toServer)>>
        BY <1>9, <3>1 DEF ServerRead
      <4> QED
        BY <1>p, <2>1, <4>1
    <3>2. CASE Head(toServer).kind # "Ping"
      BY <1>9, <1>q, <3>2 DEF ServerRead
    <3> QED
      BY <3>1, <3>2
  <2>3. UNCHANGED <<now, client, cwrite, pingAt, server, checkAt, toClient, slow>>
    BY <1>9 DEF ServerRead, clientVars
  <2>4. TypeOK'
    BY <1>t, <1>q, <1>n, <2>1, <2>2, <2>3 DEF TypeOK
  <2>5. Clocks'
    BY <1>t, <2>2, <2>3 DEF Clocks
  <2> QED
    BY <2>4, <2>5
<1>10. CASE ServerForward
  <2>1. Plain("Voice") \in Packet
    BY PacketFacts
  <2> QED
    BY <1>10, <1>t, <1>q, <1>p, <2>1 DEF ServerForward, TypeOK, Clocks, clientVars
<1>11. CASE ServerCheck
  <2>1. checkAt + ServerTimeout \in Times /\ checkAt + ServerTimeout <= now + ServerTimeout
    BY <1>11, <1>t, TimesFacts DEF ServerCheck
  <2> QED
    BY <1>11, <1>t, <1>q, <2>1 DEF ServerCheck, ServerIdle, TypeOK, Clocks, clientVars
<1>12. CASE ServerLost
  BY <1>12, <1>t, <1>q DEF ServerLost, TypeOK, Clocks, clientVars
<1>13. CASE Tick
  <2>1. slow' \in BOOLEAN
    BY <1>13, Zenon DEF Tick, Overdue
  <2> QED
    BY <1>13, <1>t, <1>q, <2>1 DEF Tick, TypeOK, Clocks, clientVars, serverVars
<1>14. CASE UNCHANGED vars
  BY <1>14 DEF vars, clientVars, serverVars, TypeOK, Clocks
<1> QED
  BY <1>1, <1>2, <1>3, <1>4, <1>5, <1>6, <1>7, <1>8, <1>9, <1>10, <1>11, <1>12,
     <1>13, <1>14 DEF Next, Ended

\* Every reachable state is well typed: the socket never holds more than it
\* has room for, a task writes one packet at a time, and no timer runs ahead.
THEOREM TypeCorrect == Spec => []TypeOK
<1>1. Spec => [](TypeOK /\ Clocks)
  BY InitTypes, NextTypes, PTL DEF Spec
<1> QED
  BY <1>1, PTL

\* A session that is not writing has had a ping less than two timeouts ago, or
\* checks at once: a check that passed was within a timeout of the last ping,
\* and the next one is due a timeout later at most, missed ticks or not.
THEOREM SilenceIsBounded == Spec => []SilenceBounded
<1>1. Spec => [](TypeOK /\ Clocks)
  BY InitTypes, NextTypes, PTL DEF Spec
<1>2. TypeOK /\ Clocks => SilenceBounded
  <2> SUFFICES ASSUME TypeOK, Clocks, ServerIdle, checkAt > now
               PROVE  now < lastPing + 2 * ServerTimeout
    BY DEF SilenceBounded
  <2>1. now \in Int /\ lastPing \in Int /\ checkAt \in Int
    BY Constants DEF TypeOK, Times
  <2> QED
    BY <2>1, Constants DEF Clocks, ServerIdle
<1> QED
  BY <1>1, <1>2, PTL

-----------------------------------------------------------------------------
(* The handshakes. What can be in the socket depends on how far both ends   *)
(* are: the client's version is first, its Authenticate second, and neither  *)
(* end leaves its handshake before it has read the other's version.          *)

ToServer ==
    /\ server # "refused"
    /\ \A i \in 1 .. Len(toServer) : toServer[i].kind = "Version" => i = 1
    /\ \A i \in 1 .. Len(toServer) : toServer[i].kind = "Authenticate" =>
          i = 1 \/ (i = 2 /\ toServer[1].kind = "Version")
    /\ server \in {"greets", "awaits"} /\ toServer # <<>> => toServer[1].kind = "Version"
    /\ server = "active" => \A i \in 1 .. Len(toServer) : toServer[i].kind # "Version"

FromClient ==
    /\ client = "greets" =>
          /\ cwrite = <<Plain("Version")>> /\ toServer = <<>>
          /\ server \in {"greets", "awaits", "lost"}
    /\ client \in {"awaits", "authenticates"} =>
          \A i \in 1 .. Len(toServer) : toServer[i].kind = "Version"
    /\ client = "authenticates" => cwrite = <<Plain("Authenticate")>>
    /\ client = "loop" /\ cwrite # <<>> => cwrite[1].kind \in {"Voice", "Ping"}
    /\ client \in {"awaits", "stopped", "vanished"} => cwrite = <<>>
    /\ client \in {"awaits", "authenticates", "loop"} /\ server \in {"greets", "awaits"} =>
          toServer # <<>>

ToClient ==
    /\ client # "refused"
    /\ server = "greets" => toClient = <<>> /\ swrite = <<Plain("Version")>>
    /\ server \in {"awaits", "timedout", "lost"} => swrite = <<>>
    /\ client \in {"greets", "awaits"} /\ toClient # <<>> => toClient[1].kind = "Version"
    /\ client \in {"greets", "awaits"} /\ server \in {"awaits", "active"} => toClient # <<>>

Handshakes == ToServer /\ FromClient /\ ToClient

LEMMA InitHandshakes == Init => Handshakes
<1> SUFFICES ASSUME Init PROVE Handshakes
  OBVIOUS
<1>1. Len(<<>>) = 0
  OBVIOUS
<1>2. ToServer
  BY <1>1 DEF Init, ToServer
<1>3. FromClient /\ ToClient
  BY <1>1 DEF Init, FromClient, ToClient
<1> QED
  BY <1>2, <1>3 DEF Handshakes

\* Steps that leave the socket and both positions alone.
LEMMA HandshakesSame ==
    ASSUME Handshakes, UNCHANGED <<client, server, toServer, toClient>>,
           cwrite' = cwrite \/ (client = "loop" /\ cwrite' # <<>> /\ cwrite'[1].kind \in {"Voice", "Ping"}),
           swrite' = swrite \/ server = "active"
    PROVE  Handshakes'
<1>1. ToServer'
  BY DEF Handshakes, ToServer
<1>2. FromClient'
  BY DEF Handshakes, FromClient
<1>3. ToClient'
  BY DEF Handshakes, ToClient
<1> QED
  BY <1>1, <1>2, <1>3 DEF Handshakes

LEMMA NextHandshakes == TypeOK /\ Handshakes /\ [Next]_vars => Handshakes'
<1> SUFFICES ASSUME TypeOK, Handshakes, [Next]_vars PROVE Handshakes'
  OBVIOUS
<1>h. ToServer /\ FromClient /\ ToClient
  BY DEF Handshakes
<1>q. /\ cwrite \in Seq(Packet) /\ swrite \in Seq(Packet)
      /\ Len(cwrite) <= 1 /\ Len(swrite) <= 1
      /\ toServer \in Seq(Packet) /\ toClient \in Seq(Packet)
  BY DEF TypeOK
<1>e. /\ Len(toServer) \in Nat /\ Len(toClient) \in Nat
      /\ toServer = <<>> <=> Len(toServer) = 0
      /\ toClient = <<>> <=> Len(toClient) = 0
  BY <1>q, ElementFacts
<1>v. \A k \in {"Version", "Authenticate", "Voice"} :
         /\ Plain(k) \in Packet /\ Plain(k).kind = k
         /\ Head(<<Plain(k)>>) = Plain(k)
  BY PacketFacts, SingleFacts
<1>1. CASE ClientWritten
  <2> DEFINE p == Head(cwrite)
  <2>1. /\ p \in Packet /\ p = cwrite[1] /\ cwrite # <<>> /\ toServer' = Append(toServer, p)
        /\ cwrite' = <<>> /\ UNCHANGED <<server, swrite, toClient>>
        /\ client' = IF client = "greets" THEN "awaits" ELSE "loop"
    BY <1>1, <1>q, TailFacts DEF ClientWritten, serverVars
  <2>2. /\ toServer' \in Seq(Packet) /\ Len(toServer') = Len(toServer) + 1
        /\ \A i \in 1 .. Len(toServer) : toServer'[i] = toServer[i]
        /\ toServer'[Len(toServer) + 1] = p
        /\ toServer' # <<>>
    BY <2>1, <1>q, AppendFacts, ElementFacts
  <2>3. client \in {"greets", "authenticates", "loop"}
    BY <1>h, <2>1 DEF TypeOK, FromClient, ToClient
  <2>4. CASE client = "greets"
    <3>1. /\ p.kind = "Version" /\ Len(toServer) = 0
          /\ server \in {"greets", "awaits", "lost"} /\ client' = "awaits"
      BY <1>h, <1>v, <1>e, <2>1, <2>4 DEF FromClient
    <3>2. ToServer'
      BY <3>1, <1>h, <1>e, <2>1, <2>2 DEF ToServer
    <3>3. FromClient'
      BY <3>1, <1>h, <1>e, <2>1, <2>2 DEF FromClient
    <3>4. ToClient'
      BY <3>1, <1>h, <2>1, <2>4 DEF ToClient
    <3> QED
      BY <3>2, <3>3, <3>4 DEF Handshakes
  <2>5. CASE client = "authenticates"
    <3>1. /\ p.kind = "Authenticate" /\ client' = "loop"
          /\ \A i \in 1 .. Len(toServer) : toServer[i].kind = "Version" /\ i = 1
          /\ server \in {"greets", "awaits"} => Len(toServer) > 0
      BY <1>h, <1>v, <1>e, <2>1, <2>5 DEF FromClient, ToServer
    <3>2. Len(toServer) <= 1
      BY <3>1, <1>e
    <3>3. ToServer'
      BY <3>1, <3>2, <1>h, <1>e, <2>1, <2>2 DEF ToServer
    <3>4. FromClient'
      BY <3>1, <1>h, <1>e, <2>1, <2>2 DEF FromClient
    <3>5. ToClient'
      BY <3>1, <1>h, <2>1, <2>5 DEF ToClient
    <3> QED
      BY <3>3, <3>4, <3>5 DEF Handshakes
  <2>6. CASE client = "loop"
    <3>1. /\ p.kind \in {"Voice", "Ping"} /\ client' = "loop"
          /\ server \in {"greets", "awaits"} => Len(toServer) > 0
      BY <1>h, <1>e, <2>1, <2>6 DEF FromClient
    <3>2. ToServer'
      BY <3>1, <1>h, <1>e, <2>1, <2>2 DEF ToServer
    <3>3. FromClient'
      BY <3>1, <1>h, <1>e, <2>1, <2>2 DEF FromClient
    <3>4. ToClient'
      BY <3>1, <1>h, <2>1, <2>6 DEF ToClient
    <3> QED
      BY <3>2, <3>3, <3>4 DEF Handshakes
  <2> QED
    BY <2>3, <2>4, <2>5, <2>6
<1>2. CASE ClientHandshake
  <2>1. /\ client = "awaits" /\ toClient # <<>> /\ toClient' = Tail(toClient)
        /\ UNCHANGED <<server, swrite, toServer>>
    BY <1>2 DEF ClientHandshake, serverVars
  <2>2. Head(toClient).kind = "Version" /\ server # "greets"
    BY <1>h, <1>q, <2>1, TailFacts DEF ToClient
  <2>3. client' = "authenticates" /\ cwrite' = <<Plain("Authenticate")>>
    BY <1>2, <2>2 DEF ClientHandshake
  <2>4. ToServer'
    BY <1>h, <2>1 DEF ToServer
  <2>5. FromClient'
    BY <1>h, <2>1, <2>3 DEF FromClient
  <2>6. ToClient'
    BY <1>h, <2>1, <2>2, <2>3 DEF ToClient
  <2> QED
    BY <2>4, <2>5, <2>6 DEF Handshakes
<1>3. CASE ClientPing
  <2>1. pingAt \in Times
    BY DEF TypeOK
  <2>2. PingOf(pingAt).kind = "Ping" /\ <<PingOf(pingAt)>>[1] = PingOf(pingAt)
    BY <2>1, PacketFacts, SingleFacts
  <2>3. /\ UNCHANGED <<client, server, toServer, toClient, swrite>> /\ client = "loop"
        /\ cwrite' = <<PingOf(pingAt)>>
    BY <1>3 DEF ClientPing, ClientIdle, serverVars
  <2>4. cwrite' # <<>> /\ cwrite'[1].kind = "Ping"
    BY <2>2, <2>3
  <2> QED
    BY <2>3, <2>4, HandshakesSame
<1>4. CASE ClientVoice
  <2>1. /\ UNCHANGED <<client, server, toServer, toClient, swrite>> /\ client = "loop"
        /\ cwrite' = <<Plain("Voice")>>
    BY <1>4 DEF ClientVoice, ClientIdle, serverVars
  <2>2. cwrite' # <<>> /\ cwrite'[1].kind = "Voice"
    BY <1>v, <2>1
  <2> QED
    BY <2>1, <2>2, HandshakesSame
<1>5. CASE ClientRead
  <2>1. /\ client = "loop" /\ toClient # <<>> /\ toClient' = Tail(toClient)
        /\ UNCHANGED <<client, cwrite, server, swrite, toServer>>
    BY <1>5 DEF ClientRead, ClientIdle, clientVars, serverVars
  <2>2. ToServer' /\ FromClient'
    BY <1>h, <2>1 DEF ToServer, FromClient
  <2>3. ToClient'
    BY <1>h, <2>1 DEF ToClient
  <2> QED
    BY <2>2, <2>3 DEF Handshakes
<1>6. CASE ClientStops
  <2>1. ToServer' /\ FromClient'
    BY <1>6, <1>h DEF ClientStops, ToServer, FromClient, serverVars
  <2>2. ToClient'
    BY <1>6, <1>h DEF ClientStops, ToClient, serverVars
  <2> QED
    BY <2>1, <2>2 DEF Handshakes
<1>7. CASE ServerWritten
  <2> DEFINE p == Head(swrite)
  <2>1. /\ p \in Packet /\ swrite # <<>> /\ toClient' = Append(toClient, p)
        /\ swrite' = <<>> /\ UNCHANGED <<client, cwrite, toServer>>
        /\ server' = IF server = "greets" THEN "awaits" ELSE server
    BY <1>7, <1>q, TailFacts DEF ServerWritten, clientVars
  <2>2. /\ Len(toClient') = Len(toClient) + 1
        /\ \A i \in 1 .. Len(toClient) : toClient'[i] = toClient[i]
        /\ toClient'[Len(toClient) + 1] = p
        /\ toClient' # <<>>
    BY <2>1, <1>q, AppendFacts, ElementFacts
  <2>3. server \in {"greets", "active"}
    BY <1>h, <2>1 DEF TypeOK, ToServer, ToClient
  <2>4. ToServer' /\ FromClient'
    BY <1>h, <2>1, <2>3 DEF ToServer, FromClient
  <2>5. CASE server = "greets"
    <3>1. p.kind = "Version" /\ Len(toClient) = 0
      BY <1>h, <1>v, <1>e, <2>5 DEF ToClient
    <3> QED
      BY <3>1, <1>h, <1>e, <2>1, <2>2, <2>4, <2>5 DEF ToClient, Handshakes
  <2>6. CASE server = "active"
    <3>1. client \in {"greets", "awaits"} => Len(toClient) > 0 /\ toClient[1].kind = "Version"
      BY <1>h, <1>e, <2>6 DEF ToClient
    <3>2. client \in {"greets", "awaits"} => toClient'[1].kind = "Version"
      BY <3>1, <1>e, <2>2
    <3> QED
      BY <3>2, <1>h, <2>1, <2>2, <2>4, <2>6 DEF ToClient, Handshakes
  <2> QED
    BY <2>3, <2>5, <2>6
<1>8. CASE ServerHandshake
  <2>1. /\ server = "awaits" /\ toServer # <<>> /\ toServer' = Tail(toServer)
        /\ UNCHANGED <<client, cwrite, swrite, toClient>>
    BY <1>8 DEF ServerHandshake, clientVars
  <2>2. Head(toServer).kind = "Version" /\ client # "greets"
    BY <1>h, <1>q, <2>1, TailFacts DEF ToServer, FromClient
  <2>3. server' = "active"
    BY <1>8, <2>2 DEF ServerHandshake
  <2>4. /\ Len(toServer') = Len(toServer) - 1
        /\ \A i \in 1 .. Len(toServer) - 1 : toServer'[i] = toServer[i + 1]
    BY <1>q, <2>1, TailFacts
  <2>5. \A i \in 1 .. Len(toServer') :
           /\ toServer'[i].kind # "Version"
           /\ toServer'[i].kind = "Authenticate" => i = 1
    BY <1>h, <1>e, <2>4 DEF ToServer
  <2>6. ToServer'
    BY <2>3, <2>5 DEF ToServer
  <2>7. FromClient'
    <3>1. client \in {"awaits", "authenticates"} => Len(toServer') = 0
      BY <1>h, <1>e, <2>4, <2>5 DEF FromClient
    <3> QED
      BY <3>1, <1>h, <2>1, <2>2, <2>3 DEF FromClient
  <2>8. ToClient'
    BY <1>h, <2>1, <2>2, <2>3 DEF ToClient
  <2> QED
    BY <2>6, <2>7, <2>8 DEF Handshakes
<1>9. CASE ServerRead
  <2>1. /\ server = "active" /\ toServer # <<>> /\ toServer' = Tail(toServer)
        /\ UNCHANGED <<client, cwrite, server, toClient>>
    BY <1>9 DEF ServerRead, ServerIdle, clientVars
  <2>2. /\ Len(toServer') = Len(toServer) - 1
        /\ \A i \in 1 .. Len(toServer) - 1 : toServer'[i] = toServer[i + 1]
    BY <1>q, <2>1, TailFacts
  <2>3. \A i \in 1 .. Len(toServer') :
           toServer'[i].kind # "Version" /\ toServer'[i].kind # "Authenticate"
    BY <1>h, <1>e, <2>1, <2>2 DEF ToServer
  <2>4. ToServer'
    BY <2>1, <2>3 DEF ToServer
  <2>5. FromClient'
    <3>1. client \in {"awaits", "authenticates"} => Len(toServer') = 0
      BY <1>h, <1>e, <2>2, <2>3 DEF FromClient
    <3> QED
      BY <3>1, <1>h, <2>1 DEF FromClient
  <2>6. ToClient'
    BY <1>h, <2>1 DEF ToClient
  <2> QED
    BY <2>4, <2>5, <2>6 DEF Handshakes
<1>10. CASE ServerForward
  <2>1. UNCHANGED <<client, cwrite, server, toServer, toClient>> /\ server = "active"
    BY <1>10 DEF ServerForward, ServerIdle, clientVars
  <2> QED
    BY <2>1, HandshakesSame
<1>11. CASE ServerCheck
  <2>1. /\ UNCHANGED <<client, cwrite, swrite, toServer, toClient>>
        /\ server = "active" /\ swrite = <<>> /\ server' \in {"timedout", "active"}
    BY <1>11 DEF ServerCheck, ServerIdle, clientVars
  <2>2. ToServer' /\ FromClient'
    BY <1>h, <2>1 DEF ToServer, FromClient
  <2>3. ToClient'
    BY <1>h, <2>1 DEF ToClient
  <2> QED
    BY <2>2, <2>3 DEF Handshakes
<1>12. CASE ServerLost
  <2>1. /\ UNCHANGED <<client, cwrite, toServer, toClient>> /\ swrite' = <<>>
        /\ server' = "lost"
    BY <1>12 DEF ServerLost, clientVars
  <2>2. ToServer' /\ FromClient'
    BY <1>h, <2>1 DEF ToServer, FromClient
  <2>3. ToClient'
    BY <1>h, <2>1 DEF ToClient
  <2> QED
    BY <2>2, <2>3 DEF Handshakes
<1>13. CASE Tick
  <2>1. UNCHANGED <<client, cwrite, server, swrite, toServer, toClient>>
    BY <1>13 DEF Tick, clientVars, serverVars
  <2> QED
    BY <2>1, HandshakesSame
<1>14. CASE UNCHANGED vars
  <2>1. UNCHANGED <<client, cwrite, server, swrite, toServer, toClient>>
    BY <1>14 DEF vars, clientVars, serverVars
  <2> QED
    BY <2>1, HandshakesSame
<1> QED
  BY <1>1, <1>2, <1>3, <1>4, <1>5, <1>6, <1>7, <1>8, <1>9, <1>10, <1>11, <1>12,
     <1>13, <1>14 DEF Next, Ended

\* Neither end ever meets a packet that its handshake does not expect, and
\* the client's Authenticate is ahead of its pings and voice.
THEOREM HandshakesFit == Spec => []HandshakesAgree
<1>1. Spec => [](TypeOK /\ Clocks)
  BY InitTypes, NextTypes, PTL DEF Spec
<1>2. Spec => []Handshakes
  BY <1>1, InitHandshakes, NextHandshakes, PTL DEF Spec
<1>3. TypeOK /\ Handshakes => HandshakesAgree
  <2> SUFFICES ASSUME TypeOK, Handshakes PROVE HandshakesAgree
    OBVIOUS
  <2>1. /\ Len(toServer) \in Nat /\ DOMAIN toServer = 1 .. Len(toServer)
        /\ toServer # <<>> => Head(toServer) = toServer[1]
    BY ElementFacts, TailFacts DEF TypeOK
  <2> QED
    BY <2>1 DEF Handshakes, ToServer, ToClient, HandshakesAgree
<1> QED
  BY <1>1, <1>2, <1>3, PTL

-----------------------------------------------------------------------------
(* The keepalive. Pings are PingInterval apart (Chain), so that after each   *)
(* one that was read another is outstanding (Outstanding); unless the        *)
(* network was slow none of them is older than MaxDelay (Timely).            *)

Writing(due) == cwrite # <<>> /\ cwrite[1].kind = "Ping" /\ cwrite[1].due = due

Chain ==
    client = "loop" =>
        /\ \A i \in 1 .. Len(toServer) : toServer[i].kind = "Ping" =>
              /\ toServer[i].due <= now
              /\ \/ \E j \in i + 1 .. Len(toServer) :
                       /\ toServer[j].kind = "Ping"
                       /\ toServer[j].due = toServer[i].due + PingInterval
                 \/ Writing(toServer[i].due + PingInterval)
                 \/ pingAt = toServer[i].due + PingInterval
        /\ cwrite # <<>> /\ cwrite[1].kind = "Ping" =>
              cwrite[1].due <= now /\ pingAt = cwrite[1].due + PingInterval

Slack == IF PingInterval > MaxDelay THEN PingInterval ELSE MaxDelay

Outstanding ==
    ~slow /\ server = "active" /\ client = "loop" =>
        \/ pingAt <= lastPing + Slack
        \/ \E i \in 1 .. Len(toServer) :
              toServer[i].kind = "Ping" /\ toServer[i].due <= lastPing + Slack
        \/ \E due \in Times : Writing(due) /\ due <= lastPing + Slack

Timely ==
    ~slow /\ server = "active" /\ client \notin {"stopped", "vanished"} =>
        ~Overdue(now) \/ lastPing = now

Keepalive == Chain /\ Outstanding /\ Timely /\ NoFalseTimeout

LEMMA SlackFacts ==
    /\ Slack \in Nat /\ PingInterval <= Slack /\ MaxDelay <= Slack
    /\ Slack + MaxDelay <= ServerTimeout
BY Constants DEF Slack

LEMMA InitKeepalive == Init => Keepalive
BY DEF Init, Keepalive, Chain, Outstanding, Timely, NoFalseTimeout

\* Within an instant, a client in its loop that has been timely has no ping
\* outstanding that is older than MaxDelay, and is in time otherwise.
LEMMA NotOverdue ==
    ASSUME TypeOK, server = "active", client \notin {"stopped", "vanished"}, ~Overdue(now)
    PROVE  /\ \A i \in 1 .. Len(toServer) :
                 toServer[i].kind = "Ping" => now <= toServer[i].due + MaxDelay
           /\ \A due \in Times : Writing(due) => now <= due + MaxDelay
           /\ client = "loop" => now <= pingAt + MaxDelay
           /\ client # "loop" => now <= lastPing + MaxDelay
<1>1. /\ now \in Int /\ pingAt \in Int /\ lastPing \in Int
      /\ toServer \in Seq(Packet) /\ cwrite \in Seq(Packet)
  BY Constants DEF TypeOK, Times
<1>2. /\ DOMAIN toServer = 1 .. Len(toServer) /\ DOMAIN cwrite = 1 .. Len(cwrite)
      /\ \A i \in 1 .. Len(toServer) : toServer[i].due \in Int
      /\ cwrite # <<>> => 1 \in DOMAIN cwrite /\ cwrite[1].due \in Int
  BY <1>1, ElementFacts, PacketFacts
<1> QED
  BY <1>1, <1>2, Constants DEF Overdue, Writing

\* A timely client is not silent for longer than the timeout.
LEMMA NoSilence ==
    ASSUME TypeOK, Outstanding, Timely, ~slow, server = "active",
           client \notin {"stopped", "vanished"}
    PROVE  now <= lastPing + ServerTimeout
<1>1. /\ now \in Int /\ pingAt \in Int /\ lastPing \in Int /\ toServer \in Seq(Packet)
      /\ \A due \in Times : due \in Int
  BY Constants DEF TypeOK, Times
<1>2. \A i \in 1 .. Len(toServer) : toServer[i].due \in Int
  BY <1>1, ElementFacts, PacketFacts
<1>3. CASE lastPing = now
  BY <1>1, <1>3, Constants
<1>4. CASE ~Overdue(now)
  <2>1. CASE client # "loop"
    BY <1>1, <1>4, <2>1, NotOverdue, Constants
  <2>2. CASE client = "loop"
    <3>1. CASE pingAt <= lastPing + Slack
      BY <1>1, <1>4, <2>2, <3>1, NotOverdue, Constants, SlackFacts
    <3>2. CASE \E i \in 1 .. Len(toServer) :
                 toServer[i].kind = "Ping" /\ toServer[i].due <= lastPing + Slack
      BY <1>1, <1>2, <1>4, <3>2, NotOverdue, Constants, SlackFacts
    <3>3. CASE \E due \in Times : Writing(due) /\ due <= lastPing + Slack
      BY <1>1, <1>4, <3>3, NotOverdue, Constants, SlackFacts
    <3> QED
      BY <2>2, <3>1, <3>2, <3>3 DEF Outstanding
  <2> QED
    BY <2>1, <2>2
<1> QED
  BY <1>3, <1>4 DEF Timely

\* Steps that neither move a ping nor a timer, nor start a session.
LEMMA KeepaliveSame ==
    ASSUME Keepalive,
           UNCHANGED <<now, client, cwrite, pingAt, lastPing, toServer, slow>>,
           server' = server \/ server' \notin {"active", "timedout"}
    PROVE  Keepalive'
<1>1. Chain'
  BY DEF Keepalive, Chain, Writing
<1>2. Outstanding'
  BY DEF Keepalive, Outstanding, Writing
<1>3. Timely'
  BY DEF Keepalive, Timely, Overdue
<1>4. NoFalseTimeout'
  BY DEF Keepalive, NoFalseTimeout
<1> QED
  BY <1>1, <1>2, <1>3, <1>4 DEF Keepalive

\* Reading the first packet leaves the pings behind it in their order.
LEMMA ChainTail ==
    ASSUME Chain, toServer \in Seq(Packet), toServer # <<>>, toServer' = Tail(toServer),
           UNCHANGED <<now, client, cwrite, pingAt>>
    PROVE  Chain'
<1>1. /\ Len(toServer) \in Nat /\ Len(toServer') = Len(toServer) - 1
      /\ \A i \in 1 .. Len(toServer) - 1 : toServer'[i] = toServer[i + 1]
  BY TailFacts
<1> SUFFICES ASSUME client = "loop", NEW i \in 1 .. Len(toServer'), toServer'[i].kind = "Ping"
             PROVE  /\ toServer'[i].due <= now
                    /\ \/ \E j \in i + 1 .. Len(toServer') :
                             /\ toServer'[j].kind = "Ping"
                             /\ toServer'[j].due = toServer'[i].due + PingInterval
                       \/ Writing(toServer'[i].due + PingInterval)
                       \/ pingAt = toServer'[i].due + PingInterval
  BY DEF Chain, Writing
<1>2. i + 1 \in 1 .. Len(toServer) /\ toServer'[i] = toServer[i + 1]
  BY <1>1
<1>3. CASE \E j \in i + 2 .. Len(toServer) :
              toServer[j].kind = "Ping" /\ toServer[j].due = toServer[i + 1].due + PingInterval
  <2>1. PICK j \in i + 2 .. Len(toServer) :
              toServer[j].kind = "Ping" /\ toServer[j].due = toServer[i + 1].due + PingInterval
    BY <1>3
  <2>2. j - 1 \in i + 1 .. Len(toServer') /\ toServer'[j - 1] = toServer[j]
    <3>1. j - 1 \in 1 .. Len(toServer) - 1 /\ (j - 1) + 1 = j
      BY <1>1
    <3> QED
      BY <1>1, <3>1
  <2> QED
    BY <1>2, <2>1, <2>2 DEF Chain
<1>4. (i + 1) + 1 = i + 2
  OBVIOUS
<1> QED
  BY <1>2, <1>3, <1>4 DEF Chain

LEMMA NextKeepalive ==
    TypeOK /\ Clocks /\ Handshakes /\ Keepalive /\ [Next]_vars => Keepalive'
<1> SUFFICES ASSUME TypeOK, Clocks, Handshakes, Keepalive, [Next]_vars PROVE Keepalive'
  OBVIOUS
<1> USE Constants
<1>k. Chain /\ Outstanding /\ Timely /\ NoFalseTimeout
  BY DEF Keepalive
<1>h. ToServer /\ FromClient /\ ToClient
  BY DEF Handshakes
<1>t. /\ now \in Int /\ pingAt \in Int /\ lastPing \in Int /\ pingAt \in Times
      /\ lastPing <= now /\ pingAt <= now + PingInterval
      /\ \A due \in Times : due \in Int
      /\ Slack \in Nat /\ PingInterval <= Slack /\ MaxDelay <= Slack
  BY SlackFacts DEF TypeOK, Times, Clocks
<1>q. toServer \in Seq(Packet) /\ cwrite \in Seq(Packet) /\ Len(cwrite) <= 1
  BY DEF TypeOK
<1>e. /\ Len(toServer) \in Nat /\ DOMAIN toServer = 1 .. Len(toServer)
      /\ \A i \in 1 .. Len(toServer) : toServer[i].due \in Int
      /\ DOMAIN cwrite = 1 .. Len(cwrite)
      /\ cwrite = <<>> => DOMAIN cwrite = {}
      /\ cwrite # <<>> => /\ DOMAIN cwrite = {1} /\ cwrite[1].due \in Int
                         /\ cwrite[1].due \in Times /\ Head(cwrite) = cwrite[1]
  <2>1. Len(cwrite) = 0 \/ Len(cwrite) = 1
    BY <1>q, AtMostOne
  <2>2. DOMAIN cwrite = 1 .. Len(cwrite) /\ (cwrite = <<>> <=> Len(cwrite) = 0)
    BY <1>q, ElementFacts
  <2>3. cwrite = <<>> => DOMAIN cwrite = {}
    BY <2>1, <2>2
  <2>4. cwrite # <<>> => DOMAIN cwrite = {1}
    BY <2>1, <2>2
  <2>5. cwrite # <<>> => Head(cwrite) = cwrite[1] /\ cwrite[1] \in Packet
    BY <1>q, TailFacts
  <2>6. /\ Len(toServer) \in Nat /\ DOMAIN toServer = 1 .. Len(toServer)
        /\ \A i \in 1 .. Len(toServer) : toServer[i].due \in Int
    BY <1>q, ElementFacts, PacketFacts
  <2> QED
    BY <2>2, <2>3, <2>4, <2>5, <2>6, PacketFacts
<1>n. DOMAIN <<>> = {} /\ Len(<<>>) = 0
  OBVIOUS
<1>1. CASE ClientWritten
  <2>1. /\ cwrite # <<>> /\ toServer' = Append(toServer, cwrite[1]) /\ cwrite' = <<>>
        /\ client' = IF client = "greets" THEN "awaits" ELSE "loop"
        /\ pingAt' = IF client = "authenticates" THEN now ELSE pingAt
        /\ UNCHANGED <<now, server, lastPing, slow>>
    BY <1>1, <1>e DEF ClientWritten, serverVars
  <2>2. /\ Len(toServer') = Len(toServer) + 1
        /\ DOMAIN toServer' = 1 .. Len(toServer) + 1
        /\ \A i \in 1 .. Len(toServer) : toServer'[i] = toServer[i]
        /\ toServer'[Len(toServer) + 1] = cwrite[1]
    <3>1. cwrite[1] \in Packet
      BY <1>q, <2>1, TailFacts
    <3> QED
      BY <1>q, <2>1, <3>1, AppendFacts, ElementFacts
  <2>3. client \in {"greets", "authenticates", "loop"}
    BY <1>h, <2>1 DEF TypeOK, FromClient, ToClient
  <2>4. NoFalseTimeout'
    BY <1>k, <2>1, <2>3 DEF NoFalseTimeout
  <2>5. CASE client = "greets"
    BY <1>h, <2>1, <2>4, <2>5 DEF FromClient, Keepalive, Chain, Outstanding, Timely
  <2>6. CASE client = "authenticates"
    <3>1. \A i \in 1 .. Len(toServer') : toServer'[i].kind # "Ping"
      <4>1. cwrite[1].kind = "Authenticate"
        BY <1>h, <2>6, PacketFacts, SingleFacts DEF FromClient
      <4>2. \A i \in 1 .. Len(toServer) : toServer[i].kind = "Version"
        BY <1>h, <2>6 DEF FromClient
      <4> QED
        BY <1>e, <2>2, <4>1, <4>2
    <3>2. Chain'
      BY <2>1, <3>1 DEF Chain
    <3>3. Timely'
      BY <1>t, <1>n, <2>1, <2>2, <2>6, <3>1 DEF Timely, Overdue
    <3>4. Outstanding'
      <4> SUFFICES ASSUME ~slow, server = "active" PROVE now <= lastPing + Slack
        BY <2>1, <2>6 DEF Outstanding
      <4>1. CASE ~Overdue(now)
        BY <1>t, <2>6, <4>1, NotOverdue
      <4>2. CASE lastPing = now
        BY <1>t, <4>2
      <4> QED
        BY <1>k, <2>6, <4>1, <4>2 DEF Timely
    <3> QED
      BY <2>4, <3>2, <3>3, <3>4 DEF Keepalive
  <2>7. CASE client = "loop"
    <3>1. client' = "loop" /\ pingAt' = pingAt
      BY <2>1, <2>7
    <3>2. Chain'
      <4> SUFFICES ASSUME NEW i \in 1 .. Len(toServer'), toServer'[i].kind = "Ping"
                   PROVE  /\ toServer'[i].due <= now
                          /\ \/ \E j \in i + 1 .. Len(toServer') :
                                   /\ toServer'[j].kind = "Ping"
                                   /\ toServer'[j].due = toServer'[i].due + PingInterval
                             \/ pingAt = toServer'[i].due + PingInterval
        BY <2>1, <3>1 DEF Chain
      <4>1. CASE i = Len(toServer) + 1
        BY <1>k, <2>1, <2>2, <2>7, <4>1 DEF Chain
      <4>2. CASE i # Len(toServer) + 1
        <5>1. i \in 1 .. Len(toServer) /\ toServer'[i] = toServer[i]
          BY <1>e, <2>2, <4>2
        <5>2. CASE \E j \in i + 1 .. Len(toServer) :
                      /\ toServer[j].kind = "Ping"
                      /\ toServer[j].due = toServer[i].due + PingInterval
          <6>1. PICK j \in i + 1 .. Len(toServer) :
                      /\ toServer[j].kind = "Ping"
                      /\ toServer[j].due = toServer[i].due + PingInterval
            BY <5>2
          <6>2. j \in i + 1 .. Len(toServer') /\ toServer'[j] = toServer[j]
            BY <1>e, <2>2, <5>1
          <6> QED
            BY <1>k, <2>7, <5>1, <6>1, <6>2 DEF Chain
        <5>3. CASE Writing(toServer[i].due + PingInterval)
          <6>1. Len(toServer) + 1 \in i + 1 .. Len(toServer')
            BY <1>e, <2>2, <5>1
          <6> QED
            BY <1>k, <2>2, <2>7, <5>1, <5>3, <6>1 DEF Chain, Writing
        <5>4. CASE pingAt = toServer[i].due + PingInterval
          BY <1>k, <2>7, <5>1, <5>4 DEF Chain
        <5> QED
          BY <1>k, <2>7, <5>1, <5>2, <5>3, <5>4 DEF Chain
      <4> QED
        BY <4>1, <4>2
    <3>3. Outstanding'
      <4> SUFFICES ASSUME ~slow, server = "active"
                   PROVE  \/ pingAt <= lastPing + Slack
                          \/ \E i \in 1 .. Len(toServer') :
                                /\ toServer'[i].kind = "Ping"
                                /\ toServer'[i].due <= lastPing + Slack
        BY <2>1, <3>1 DEF Outstanding, Writing, Slack
      <4>1. CASE \E i \in 1 .. Len(toServer) :
                    toServer[i].kind = "Ping" /\ toServer[i].due <= lastPing + Slack
        BY <1>e, <2>2, <4>1
      <4>2. CASE \E due \in Times : Writing(due) /\ due <= lastPing + Slack
        <5>1. cwrite[1].kind = "Ping" /\ cwrite[1].due <= lastPing + Slack
          BY <4>2 DEF Writing
        <5>2. Len(toServer) + 1 \in 1 .. Len(toServer')
          BY <1>e, <2>2
        <5> QED
          BY <2>2, <5>1, <5>2
      <4> QED
        BY <1>k, <2>7, <4>1, <4>2 DEF Outstanding
    <3>4. Overdue(now)' => Overdue(now)
      BY <1>e, <1>n, <2>1, <2>2, <2>7, <3>1 DEF Overdue
    <3>5. Timely'
      BY <1>k, <2>1, <2>7, <3>1, <3>4 DEF Timely
    <3> QED
      BY <2>4, <3>2, <3>3, <3>5 DEF Keepalive
  <2> QED
    BY <2>3, <2>5, <2>6, <2>7
<1>2. CASE ClientHandshake
  <2>1. /\ client = "awaits" /\ client' \in {"authenticates", "refused"}
        /\ cwrite' = <<Plain("Authenticate")>> \/ cwrite' = cwrite
        /\ UNCHANGED <<now, pingAt, server, lastPing, toServer, slow>>
    BY <1>2 DEF ClientHandshake, serverVars
  <2>2. \A i \in DOMAIN cwrite' : cwrite'[i].kind # "Ping"
    <3>1. \A i \in DOMAIN <<Plain("Authenticate")>> :
             <<Plain("Authenticate")>>[i].kind # "Ping"
      BY DEF Plain
    <3>2. DOMAIN cwrite = {}
      BY <1>h, <1>e, <2>1 DEF FromClient
    <3> QED
      BY <2>1, <3>1, <3>2
  <2>3. Overdue(now)' => Overdue(now)
    BY <2>1, <2>2 DEF Overdue
  <2> QED
    BY <1>k, <2>1, <2>3 DEF Keepalive, Chain, Outstanding, Timely, NoFalseTimeout
<1>3. CASE ClientPing
  <2>1. /\ client = "loop" /\ cwrite = <<>> /\ pingAt <= now
        /\ cwrite' = <<PingOf(pingAt)>> /\ pingAt' = pingAt + PingInterval
        /\ UNCHANGED <<now, client, server, lastPing, toServer, slow>>
    BY <1>3 DEF ClientPing, ClientIdle, serverVars
  <2>2. /\ cwrite' # <<>> /\ cwrite'[1].kind = "Ping" /\ cwrite'[1].due = pingAt
        /\ DOMAIN cwrite' = {1}
    <3>1. /\ PingOf(pingAt) \in Packet
          /\ PingOf(pingAt).kind = "Ping" /\ PingOf(pingAt).due = pingAt
      BY <1>t, PacketFacts
    <3> QED
      BY <2>1, <3>1, SingleFacts, ElementFacts
  <2>3. Chain'
    <3> SUFFICES ASSUME NEW i \in 1 .. Len(toServer), toServer[i].kind = "Ping"
                 PROVE  /\ toServer[i].due <= now
                        /\ \/ \E j \in i + 1 .. Len(toServer) :
                                 /\ toServer[j].kind = "Ping"
                                 /\ toServer[j].due = toServer[i].due + PingInterval
                           \/ cwrite'[1].due = toServer[i].due + PingInterval
      BY <2>1, <2>2 DEF Chain, Writing
    <3> QED
      BY <1>k, <2>1, <2>2 DEF Chain, Writing
  <2>4. Outstanding'
    <3> SUFFICES ASSUME ~slow, server = "active"
                 PROVE  \/ pingAt <= lastPing + Slack
                        \/ \E i \in 1 .. Len(toServer) :
                              /\ toServer[i].kind = "Ping"
                              /\ toServer[i].due <= lastPing + Slack
      BY <1>t, <2>1, <2>2 DEF Outstanding, Writing, Slack
    <3> QED
      BY <1>k, <2>1 DEF Outstanding, Writing
  <2>5. Overdue(now)' => Overdue(now)
    BY <1>t, <2>1, <2>2 DEF Overdue
  <2>6. Timely'
    BY <1>k, <2>1, <2>5 DEF Timely
  <2>7. NoFalseTimeout'
    BY <1>k, <2>1 DEF NoFalseTimeout
  <2> QED
    BY <2>3, <2>4, <2>6, <2>7 DEF Keepalive
<1>4. CASE ClientVoice
  <2>1. /\ client = "loop" /\ cwrite = <<>> /\ cwrite' = <<Plain("Voice")>>
        /\ UNCHANGED <<now, client, pingAt, server, lastPing, toServer, slow>>
    BY <1>4 DEF ClientVoice, ClientIdle, serverVars
  <2>2. cwrite'[1].kind # "Ping" /\ DOMAIN cwrite' = {1}
    BY <2>1 DEF Plain
  <2>3. Chain'
    BY <1>k, <2>1, <2>2 DEF Chain, Writing
  <2>4. Outstanding'
    BY <1>k, <2>1, <2>2 DEF Outstanding, Writing
  <2>5. Overdue(now)' => Overdue(now)
    BY <2>1, <2>2 DEF Overdue
  <2> QED
    BY <1>k, <2>1, <2>3, <2>4, <2>5 DEF Keepalive, Timely, NoFalseTimeout
<1>5. CASE ClientRead
  <2>1. UNCHANGED <<now, client, cwrite, pingAt, server, lastPing, toServer, slow>>
    BY <1>5 DEF ClientRead, clientVars, serverVars
  <2> QED
    BY <2>1, KeepaliveSame
<1>6. CASE ClientStops
  BY <1>6 DEF ClientStops, Keepalive, Chain, Outstanding, Timely, NoFalseTimeout
<1>7. CASE ServerWritten
  <2>1. /\ UNCHANGED <<now, client, cwrite, pingAt, lastPing, toServer, slow>>
        /\ server' = server \/ server' = "awaits"
    BY <1>7 DEF ServerWritten, clientVars
  <2> QED
    BY <2>1, KeepaliveSame
<1>8. CASE ServerHandshake
  <2>1. /\ server = "awaits" /\ toServer # <<>> /\ toServer' = Tail(toServer)
        /\ UNCHANGED <<now, client, cwrite, pingAt, slow>>
    BY <1>8 DEF ServerHandshake, clientVars
  <2>2. Head(toServer).kind = "Version"
    BY <1>h, <1>q, <2>1, TailFacts DEF ToServer
  <2>3. server' = "active" /\ lastPing' = now
    BY <1>8, <2>2 DEF ServerHandshake
  <2>4. Chain'
    BY <1>k, <2>1, <1>q, ChainTail
  <2> QED
    BY <1>t, <2>1, <2>3, <2>4 DEF Keepalive, Outstanding, Timely, NoFalseTimeout, Slack
<1>9. CASE ServerRead
  <2>1. /\ server = "active" /\ toServer # <<>> /\ toServer' = Tail(toServer)
        /\ UNCHANGED <<now, client, cwrite, pingAt, server, slow>>
    BY <1>9 DEF ServerRead, ServerIdle, clientVars
  <2>2. /\ Len(toServer') = Len(toServer) - 1 /\ Head(toServer) = toServer[1]
        /\ DOMAIN toServer' = 1 .. Len(toServer) - 1
        /\ \A i \in 1 .. Len(toServer) - 1 : toServer'[i] = toServer[i + 1]
        /\ Len(toServer) > 0
    BY <1>q, <2>1, TailFacts, ElementFacts
  <2>3. Chain'
    BY <1>k, <1>q, <2>1, ChainTail
  <2>4. NoFalseTimeout'
    BY <2>1 DEF NoFalseTimeout
  <2>5. \A j \in 2 .. Len(toServer) :
           j - 1 \in 1 .. Len(toServer') /\ toServer'[j - 1] = toServer[j]
    BY <1>e, <2>2
  <2>6. CASE toServer[1].kind = "Ping"
    <3>1. lastPing' = now
      BY <1>9, <2>2, <2>6 DEF ServerRead
    <3>2. Timely'
      BY <2>1, <3>1 DEF Timely
    <3>3. Outstanding'
      <4> SUFFICES ASSUME ~slow, client = "loop"
                   PROVE  \/ pingAt <= now + Slack
                          \/ \E i \in 1 .. Len(toServer') :
                                toServer'[i].kind = "Ping" /\ toServer'[i].due <= now + Slack
                          \/ \E due \in Times : Writing(due) /\ due <= now + Slack
        BY <2>1, <3>1 DEF Outstanding, Writing, Slack
      <4> QED
        BY <1>t
    <3> QED
      BY <2>3, <2>4, <3>2, <3>3 DEF Keepalive
  <2>7. CASE toServer[1].kind # "Ping"
    <3>1. lastPing' = lastPing
      BY <1>9, <2>2, <2>7 DEF ServerRead
    <3>2. Overdue(now)' => Overdue(now)
      BY <1>e, <2>1, <2>2, <3>1 DEF Overdue
    <3>3. Timely'
      BY <1>k, <2>1, <3>1, <3>2 DEF Timely
    <3>4. Outstanding'
      <4> SUFFICES ASSUME ~slow, client = "loop"
                   PROVE  \/ pingAt <= lastPing + Slack
                          \/ \E i \in 1 .. Len(toServer') :
                                /\ toServer'[i].kind = "Ping"
                                /\ toServer'[i].due <= lastPing + Slack
                          \/ \E due \in Times : Writing(due) /\ due <= lastPing + Slack
        BY <2>1, <3>1 DEF Outstanding, Writing, Slack
      <4>1. CASE \E i \in 1 .. Len(toServer) :
                    toServer[i].kind = "Ping" /\ toServer[i].due <= lastPing + Slack
        <5>1. PICK i \in 1 .. Len(toServer) :
                    toServer[i].kind = "Ping" /\ toServer[i].due <= lastPing + Slack
          BY <4>1
        <5>2. i \in 2 .. Len(toServer)
          BY <1>e, <2>7, <5>1
        <5> QED
          BY <2>5, <5>1, <5>2
      <4> QED
        BY <1>k, <2>1, <4>1 DEF Outstanding
    <3> QED
      BY <2>3, <2>4, <3>3, <3>4 DEF Keepalive
  <2> QED
    BY <2>6, <2>7
<1>10. CASE ServerForward
  <2>1. UNCHANGED <<now, client, cwrite, pingAt, server, lastPing, toServer, slow>>
    BY <1>10 DEF ServerForward, clientVars
  <2> QED
    BY <2>1, KeepaliveSame
<1>11. CASE ServerCheck
  <2>1. /\ server = "active"
        /\ server' = IF now - lastPing > ServerTimeout THEN "timedout" ELSE server
        /\ UNCHANGED <<now, client, cwrite, pingAt, lastPing, toServer, slow>>
    BY <1>11 DEF ServerCheck, ServerIdle, clientVars
  <2>2. CASE now - lastPing > ServerTimeout
    <3>1. slow \/ client \in {"stopped", "vanished"}
      BY <1>k, <1>t, <2>1, <2>2, NoSilence
    <3>2. Chain'
      BY <1>k, <2>1 DEF Chain, Writing
    <3> QED
      BY <2>1, <2>2, <3>1, <3>2 DEF Keepalive, Outstanding, Timely, NoFalseTimeout
  <2>3. CASE ~(now - lastPing > ServerTimeout)
    BY <2>1, <2>3, KeepaliveSame
  <2> QED
    BY <2>2, <2>3
<1>12. CASE ServerLost
  <2>1. /\ UNCHANGED <<now, client, cwrite, pingAt, lastPing, toServer, slow>>
        /\ server' = "lost"
    BY <1>12 DEF ServerLost, clientVars
  <2> QED
    BY <2>1, KeepaliveSame
<1>13. CASE Tick
  <2>1. /\ now' = now + 1 /\ slow' = (slow \/ Overdue(now + 1))
        /\ UNCHANGED <<client, cwrite, pingAt, server, lastPing, toServer>>
    BY <1>13 DEF Tick, clientVars, serverVars
  <2>2. ~slow' => ~slow /\ ~Overdue(now + 1)
    BY <2>1, Zenon
  <2>3. Chain'
    BY <1>k, <1>t, <1>e, <2>1 DEF Chain, Writing
  <2>4. Outstanding'
    BY <1>k, <2>1, <2>2 DEF Outstanding, Writing
  <2>5. Timely'
    BY <2>1, <2>2 DEF Timely, Overdue
  <2>6. NoFalseTimeout'
    BY <1>k, <2>1, <2>2 DEF NoFalseTimeout
  <2> QED
    BY <2>3, <2>4, <2>5, <2>6 DEF Keepalive
<1>14. CASE UNCHANGED vars
  <2>1. UNCHANGED <<now, client, cwrite, pingAt, server, lastPing, toServer, slow>>
    BY <1>14 DEF vars, clientVars, serverVars
  <2> QED
    BY <2>1, KeepaliveSame
<1> QED
  BY <1>1, <1>2, <1>3, <1>4, <1>5, <1>6, <1>7, <1>8, <1>9, <1>10, <1>11, <1>12,
     <1>13, <1>14 DEF Next, Ended

\* The keepalive never throws out a client that is there while the network
\* brings its pings within MaxDelay: whatever the buffers' size and however
\* writes, voice and missed ticks of both ends interleave, a ping that was
\* read is followed by one that is due PingInterval later, and that one is
\* read before the timeout.
THEOREM LiveClientsStay == Spec => []NoFalseTimeout
<1>1. Spec => [](TypeOK /\ Clocks)
  BY InitTypes, NextTypes, PTL DEF Spec
<1>2. Spec => []Handshakes
  BY <1>1, InitHandshakes, NextHandshakes, PTL DEF Spec
<1>3. Spec => []Keepalive
  BY <1>1, <1>2, InitKeepalive, NextKeepalive, PTL DEF Spec
<1>4. Keepalive => NoFalseTimeout
  BY DEF Keepalive
<1> QED
  BY <1>3, <1>4, PTL

=============================================================================
