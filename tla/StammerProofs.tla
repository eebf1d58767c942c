---------------------------- MODULE StammerProofs ----------------------------
(***************************************************************************)
(* Theorems about the stammer server, for any number of sessions, rooms    *)
(* and packets: that its tasks agree on who is there, that it implements   *)
(* TableLog, and what its clients can count on.                            *)
(***************************************************************************)
EXTENDS Stammer, RoutingTableLemmas, FiniteSetTheorems, SequenceTheorems

-----------------------------------------------------------------------------
(* Sequences and messages *)

\* What send() does to a queue.
LEMMA AppendFacts ==
    ASSUME NEW S, NEW q \in Seq(S), NEW m \in S
    PROVE  /\ Append(q, m) \in Seq(S)
           /\ Len(q) \in Nat
           /\ DOMAIN q = 1 .. Len(q)
           /\ DOMAIN Append(q, m) = 1 .. Len(q) + 1
           /\ \A i \in 1 .. Len(q) : Append(q, m)[i] = q[i]
           /\ Append(q, m)[Len(q) + 1] = m
OBVIOUS

\* What receiving does to a queue.
LEMMA TailFacts ==
    ASSUME NEW S, NEW q \in Seq(S), q # <<>>
    PROVE  /\ Tail(q) \in Seq(S)
           /\ Len(q) \in Nat \ {0}
           /\ DOMAIN q = 1 .. Len(q)
           /\ DOMAIN Tail(q) = 1 .. Len(q) - 1
           /\ \A i \in 1 .. Len(q) - 1 : Tail(q)[i] = q[i + 1]
           /\ Head(q) = q[1]
           /\ Head(q) \in S
OBVIOUS

\* The messages to the control task are told apart by their kind.
LEMMA ControlMessages ==
    ASSUME NEW m \in ControlMessage
    PROVE  /\ m.kind = "Packet" => m.id \in SessionIds /\ m.packet \in Packets
           /\ m.kind = "AddSession" => m.id \in SessionIds /\ m = AddSession(m.id)
           /\ m.kind = "RemoveSession" => m.id \in SessionIds /\ m = RemoveSession(m.id)
           /\ m.kind = "Shutdown" => m = Shutdown
<1>1. CASE m \in [kind : {"Packet"}, id : SessionIds, packet : Packets]
  BY <1>1
<1>2. CASE m \in [kind : {"AddSession", "RemoveSession"}, id : SessionIds]
  BY <1>2 DEF AddSession, RemoveSession
<1>3. CASE m \in [kind : {"Shutdown"}]
  BY <1>3 DEF Shutdown
<1> QED
  BY <1>1, <1>2, <1>3 DEF ControlMessage

\* So are the messages to the routing task.
LEMMA RoutingMessages ==
    ASSUME NEW m \in RoutingMessage
    PROVE  /\ m.kind \in {"Voice", "Text"} =>
                m.id \in SessionIds /\ m.packet \in Packets /\ m.n \in Nat
           /\ m.kind = "Update" => m.table \in Tables /\ m = Update(m.table)
           /\ m.kind = "Shutdown" => m = Shutdown
<1>1. CASE m \in [kind : {"Voice", "Text"}, id : SessionIds, packet : Packets, n : Nat]
  BY <1>1
<1>2. CASE m \in [kind : {"Update"}, table : Tables]
  BY <1>2 DEF Update
<1>3. CASE m \in [kind : {"Shutdown"}]
  BY <1>3 DEF Shutdown
<1> QED
  BY <1>1, <1>2, <1>3 DEF RoutingMessage

\* The messages the tasks construct.
LEMMA MessageTypes ==
    /\ \A s \in SessionIds : AddSession(s) \in ControlMessage
    /\ \A s \in SessionIds : RemoveSession(s) \in ControlMessage
    /\ \A s \in SessionIds, p \in Packets :
          [kind |-> "Packet", id |-> s, packet |-> p] \in ControlMessage
    /\ Shutdown \in ControlMessage
    /\ Shutdown \in RoutingMessage
    /\ \A t \in Tables : Update(t) \in RoutingMessage
    /\ \A s \in SessionIds, p \in Packets, n \in Nat, k \in {"Voice", "Text"} :
          [kind |-> k, id |-> s, packet |-> p, n |-> n] \in RoutingMessage
BY DEF AddSession, RemoveSession, Shutdown, Update, ControlMessage, RoutingMessage

-----------------------------------------------------------------------------
(* Type correctness *)

\* Sending to the control task leaves a queue of control messages.
LEMMA SendControlType ==
    ASSUME TypeOK, NEW m \in ControlMessage, SendControl(m)
    PROVE  controlQ' \in Seq(ControlMessage)
BY AppendFacts DEF TypeOK, SendControl

LEMMA SendRoutingType ==
    ASSUME TypeOK, NEW m \in RoutingMessage, SendRouting(m)
    PROVE  routingQ' \in Seq(RoutingMessage)
BY AppendFacts DEF TypeOK, SendRouting

\* Copies of a packet make a queue.
LEMMA DeliverType ==
    ASSUME TypeOK, NEW p \in Clientbound, NEW copies \in [SessionIds -> Nat],
           Deliver(copies, p)
    PROVE  sessionQ' \in [SessionIds -> Seq(Clientbound)]
<1> SUFFICES ASSUME NEW d \in SessionIds
             PROVE  (IF Alive(d) THEN sessionQ[d] \o Repeat(p, copies[d]) ELSE sessionQ[d])
                        \in Seq(Clientbound)
  BY DEF Deliver
<1>1. sessionQ[d] \in Seq(Clientbound) /\ copies[d] \in Nat
  BY DEF TypeOK
<1>2. Repeat(p, copies[d]) \in Seq(Clientbound)
  BY <1>1 DEF Repeat
<1> QED
  BY <1>1, <1>2

LEMMA InitType == Init => TypeOK
<1> SUFFICES ASSUME Init PROVE TypeOK
  OBVIOUS
<1>1. stop \in BOOLEAN
  BY Zenon DEF Init
<1>2. /\ controlQ \in Seq(ControlMessage)
      /\ routingQ \in Seq(RoutingMessage)
      /\ sending \in [SessionIds -> Seq(Clientbound)]
      /\ sessionQ \in [SessionIds -> Seq(Clientbound)]
  BY DEF Init
<1>3. rtbl \in Tables /\ view \in Tables
  BY EmptyTableType DEF Init
<1>4. /\ accept \in {"running", "joining", "stopped"}
      /\ accepted \in Nat
      /\ sess \in [SessionIds -> {"none", "handshake", "active", "sending", "failed",
                                  "denied", "aborted", "graceful"}]
      /\ reads \in [SessionIds -> Nat]
      /\ greeting \in [SessionIds -> {"none", "Authenticate", "Other"}]
      /\ control \in {"open", "closing", "stopped"}
      /\ unauth \subseteq SessionIds
      /\ routing \in {"open", "closing", "stopped"}
      /\ panicked \in {"none", "accept", "control", "routing"}
  BY DEF Init
<1> QED
  BY <1>1, <1>2, <1>3, <1>4 DEF TypeOK

LEMMA AcceptType ==
    ASSUME TypeOK, NotifyStop \/ AcceptTask
    PROVE  TypeOK'
<1> USE DEF TypeOK, acceptVars, sessionVars, controlVars, routingVars, queues
<1>1. CASE NotifyStop
  BY <1>1 DEF NotifyStop
<1>2. CASE AcceptConnection
  BY <1>2 DEF AcceptConnection
<1>3. ASSUME LeaveLoop PROVE TypeOK'
  BY <1>3, MessageTypes, SendControlType DEF LeaveLoop
<1>4. CASE AcceptDone
  BY <1>4 DEF AcceptDone
<1> QED
  BY <1>1, <1>2, <1>3, <1>4 DEF AcceptTask, AcceptStop, ListenerFailed

LEMMA SessionType ==
    ASSUME TypeOK, NEW s \in SessionIds, SessionTask(s)
    PROVE  TypeOK'
<1> USE DEF TypeOK, acceptVars, sessionVars, controlVars, routingVars, queues
<1>1. CASE VersionExchanged(s)
  BY <1>1, MessageTypes, SendControlType DEF VersionExchanged
<1>2. CASE VersionExchangeFailed(s)
  BY <1>2 DEF VersionExchangeFailed
<1>3. ASSUME NEW p \in Packets, ReadRouted(s, p) PROVE TypeOK'
  <2> DEFINE k == IF p.kind = "Text" THEN "Text" ELSE "Voice"
             m == [kind |-> k, id |-> s, packet |-> p, n |-> reads[s] + 1]
  <2>1. k \in {"Voice", "Text"} /\ reads[s] + 1 \in Nat
    OBVIOUS
  <2>2. m \in RoutingMessage
    <3> HIDE DEF k
    <3> QED
      BY <2>1, MessageTypes
  <2>3. SendRouting(m)
    BY <1>3 DEF ReadRouted
  <2>4. routingQ' \in Seq(RoutingMessage)
    BY <2>2, <2>3, SendRoutingType
  <2> QED
    BY <1>3, <2>4 DEF ReadRouted, Read
<1>4. ASSUME NEW p \in Packets, ReadPing(s, p) PROVE TypeOK'
  <2>1. <<[kind |-> "Pong", from |-> s, n |-> reads[s] + 1]>> \in Seq(Clientbound)
    BY DEF Clientbound
  <2> QED
    BY <1>4, <2>1 DEF ReadPing, Read
<1>5. ASSUME NEW p \in Packets, ReadControl(s, p) PROVE TypeOK'
  <2>1. controlQ' \in Seq(ControlMessage)
    BY <1>5, MessageTypes, SendControlType DEF ReadControl
  <2>2. greeting' \in [SessionIds -> {"none", "Authenticate", "Other"}]
    BY <1>5 DEF ReadControl
  <2> QED
    BY <1>5, <2>1, <2>2 DEF ReadControl, Read
<1>6. CASE Forward(s)
  <2>1. sessionQ[s] \in Seq(Clientbound) /\ sessionQ[s] # <<>>
    BY <1>6 DEF Forward
  <2>2. Tail(sessionQ[s]) \in Seq(Clientbound) /\ Head(sessionQ[s]) \in Clientbound
    BY <2>1, TailFacts
  <2>3. <<Head(sessionQ[s])>> \in Seq(Clientbound)
    BY <2>2
  <2> QED
    BY <1>6, <2>2, <2>3 DEF Forward
<1>7. CASE Sent(s)
  BY <1>7 DEF Sent
<1>8. ASSUME Abort(s) PROVE TypeOK'
  BY <1>8, MessageTypes, SendControlType DEF Abort, DropSession
<1>9. CASE Graceful(s)
  BY <1>9 DEF Graceful
<1> QED
  BY <1>1, <1>2, <1>3, <1>4, <1>5, <1>6, <1>7, <1>8, <1>9
  DEF SessionTask, ConnectionLost, KeepaliveExpired, SendFailed

\* Receiving leaves a queue of control messages, and the head is one.
LEMMA ControlRecvType ==
    ASSUME TypeOK, NEW k, ControlRecv(k)
    PROVE  /\ controlQ' \in Seq(ControlMessage)
           /\ Head(controlQ) \in ControlMessage
           /\ Head(controlQ).kind = k
BY TailFacts DEF TypeOK, ControlRecv

LEMMA RoutingRecvType ==
    ASSUME TypeOK, NEW k, RoutingRecv(k)
    PROVE  /\ routingQ' \in Seq(RoutingMessage)
           /\ Head(routingQ) \in RoutingMessage
           /\ Head(routingQ).kind = k
BY TailFacts DEF TypeOK, RoutingRecv

LEMMA ControlType ==
    ASSUME TypeOK, ControlTask
    PROVE  TypeOK'
<1> DEFINE s == Head(controlQ).id
<1>1. ASSUME NEW t \in Tables, ExpectRouting(Update(t))
      PROVE  routingQ' \in Seq(RoutingMessage) /\ panicked' \in {"none", "accept", "control", "routing"}
  BY <1>1, MessageTypes, SendRoutingType DEF ExpectRouting, TypeOK
<1>2. CASE ControlPacket
  <2>1. controlQ' \in Seq(ControlMessage) /\ s \in SessionIds
    BY <1>2, ControlRecvType, ControlMessages DEF ControlPacket
  <2>2. unauth' \subseteq SessionIds
    BY <1>2 DEF ControlPacket, TypeOK
  <2>3. enroll_session(rtbl, s) \in Tables
    BY <2>1, EnrollTable DEF TypeOK
  <2>4. /\ rtbl' \in Tables
        /\ routingQ' \in Seq(RoutingMessage)
        /\ panicked' \in {"none", "accept", "control", "routing"}
    BY <1>1, <1>2, <2>3 DEF ControlPacket, TypeOK
  <2> QED
    BY <1>2, <2>1, <2>2, <2>4
    DEF ControlPacket, TypeOK, acceptVars, sessionVars, routingVars
<1>3. CASE ControlAddSession
  <2>1. controlQ' \in Seq(ControlMessage) /\ s \in SessionIds
    BY <1>3, ControlRecvType, ControlMessages DEF ControlAddSession
  <2> QED
    BY <1>3, <2>1 DEF ControlAddSession, TypeOK, acceptVars, sessionVars, routingVars
<1>4. CASE ControlRemoveSession
  <2>1. controlQ' \in Seq(ControlMessage) /\ s \in SessionIds
    BY <1>4, ControlRecvType, ControlMessages DEF ControlRemoveSession
  <2>2. unauth' \subseteq SessionIds
    BY <1>4 DEF ControlRemoveSession, TypeOK
  <2>3. holds_session(rtbl, s) /\ ~bad_memberships(rtbl, s) => expel_session(rtbl, s) \in Tables
    BY <2>1, ExpelType DEF TypeOK
  <2>4. /\ rtbl' \in Tables
        /\ routingQ' \in Seq(RoutingMessage)
        /\ panicked' \in {"none", "accept", "control", "routing"}
    BY <1>1, <1>4, <2>3 DEF ControlRemoveSession, TypeOK
  <2> QED
    BY <1>4, <2>1, <2>2, <2>4
    DEF ControlRemoveSession, TypeOK, acceptVars, sessionVars, routingVars
<1>5. CASE ControlShutdown
  BY <1>5, ControlRecvType
  DEF ControlShutdown, TypeOK, acceptVars, sessionVars, routingVars
<1>6. CASE ControlStop
  <2>1. routingQ' \in Seq(RoutingMessage) /\ panicked' \in {"none", "accept", "control", "routing"}
    BY <1>6, MessageTypes, SendRoutingType DEF ControlStop, ExpectRouting, TypeOK
  <2> QED
    BY <1>6, <2>1, EmptyTableType
    DEF ControlStop, TypeOK, acceptVars, sessionVars, routingVars
<1> QED
  BY <1>2, <1>3, <1>4, <1>5, <1>6 DEF ControlTask

\* What the routing task does with a text: copies for sessions it knows.
LEMMA TextCopies ==
    ASSUME TypeOK, RoutingText
    PROVE  \E copies \in [SessionIds -> Nat] :
              /\ Deliver(copies, [kind |-> "Text", from |-> Head(routingQ).id,
                                  n |-> Head(routingQ).n])
              /\ \A d \in SessionIds : copies[d] # 0 => holds_session(view, d)
<1> DEFINE m == Head(routingQ)
           p == [kind |-> "Text", from |-> m.id, n |-> m.n]
           direct(d) == IF d \in m.packet.sessions /\ holds_session(view, d) THEN 1 ELSE 0
           rooms(d, R) == {r \in R : d \in room_senders(view, r, {})}
<1>1. m.packet \in Packets
  BY RoutingRecvType, RoutingMessages DEF RoutingText
<1>2. PICK R \in SUBSET m.packet.rooms :
         Deliver([d \in SessionIds |-> direct(d) + Cardinality(rooms(d, R))], p)
  BY DEF RoutingText
<1> DEFINE copies == [d \in SessionIds |-> direct(d) + Cardinality(rooms(d, R))]
<1>3. ASSUME NEW d PROVE Cardinality(rooms(d, R)) \in Nat
  <2>1. IsFiniteSet(m.packet.rooms) /\ rooms(d, R) \in SUBSET m.packet.rooms
    BY <1>1, PacketsAssumption
  <2> QED
    BY <2>1, FS_Subset, FS_CardinalityType
<1>4. copies \in [SessionIds -> Nat]
  <2> HIDE DEF rooms
  <2> QED
    BY <1>3
<1>5. ASSUME NEW d \in SessionIds, ~holds_session(view, d) PROVE copies[d] = 0
  <2>1. direct(d) = 0 /\ rooms(d, R) = {}
    BY <1>5 DEF room_senders
  <2> QED
    BY <2>1, FS_EmptySet
<1> HIDE DEF copies
<1> QED
  BY <1>2, <1>4, <1>5 DEF copies

LEMMA RoutingType ==
    ASSUME TypeOK, RoutingTask
    PROVE  TypeOK'
<1> DEFINE m == Head(routingQ)
<1>1. CASE RoutingVoice
  <2>1. routingQ' \in Seq(RoutingMessage) /\ m.id \in SessionIds /\ m.n \in Nat
    BY <1>1, RoutingRecvType, RoutingMessages DEF RoutingVoice
  <2> DEFINE p == [kind |-> "Voice", from |-> m.id, n |-> m.n]
             copies == [d \in SessionIds |-> IF d \in target_senders(view, m.id) THEN 1 ELSE 0]
  <2>2. p \in Clientbound /\ copies \in [SessionIds -> Nat]
    BY <2>1 DEF Clientbound
  <2>3. Deliver(copies, p) => sessionQ' \in [SessionIds -> Seq(Clientbound)]
    <3> HIDE DEF copies, p
    <3> QED
      BY <2>2, DeliverType
  <2>4. /\ sessionQ' \in [SessionIds -> Seq(Clientbound)]
        /\ panicked' \in {"none", "accept", "control", "routing"}
    BY <1>1, <2>3 DEF RoutingVoice, TypeOK
  <2> QED
    BY <1>1, <2>1, <2>4
    DEF RoutingVoice, TypeOK, acceptVars, sessionVars, controlVars, routingVars
<1>2. CASE RoutingText
  <2>1. routingQ' \in Seq(RoutingMessage) /\ m.id \in SessionIds /\ m.n \in Nat
    BY <1>2, RoutingRecvType, RoutingMessages DEF RoutingText
  <2>2. [kind |-> "Text", from |-> m.id, n |-> m.n] \in Clientbound
    BY <2>1 DEF Clientbound
  <2>3. sessionQ' \in [SessionIds -> Seq(Clientbound)]
    BY <1>2, <2>2, TextCopies, DeliverType
  <2>4. panicked' \in {"none", "accept", "control", "routing"}
    BY <1>2 DEF RoutingText, TypeOK
  <2> QED
    BY <1>2, <2>1, <2>3, <2>4
    DEF RoutingText, TypeOK, acceptVars, sessionVars, controlVars, routingVars
<1>3. CASE RoutingUpdate
  BY <1>3, RoutingRecvType, RoutingMessages
  DEF RoutingUpdate, TypeOK, acceptVars, sessionVars, controlVars
<1>4. CASE RoutingShutdown
  BY <1>4, RoutingRecvType
  DEF RoutingShutdown, TypeOK, acceptVars, sessionVars, controlVars
<1>5. CASE RoutingStop
  BY <1>5, EmptyTableType
  DEF RoutingStop, TypeOK, acceptVars, sessionVars, controlVars, queues
<1> QED
  BY <1>1, <1>2, <1>3, <1>4, <1>5 DEF RoutingTask

LEMMA NextType == TypeOK /\ [Next]_vars => TypeOK'
<1> SUFFICES ASSUME TypeOK, [Next]_vars PROVE TypeOK'
  OBVIOUS
<1>1. ASSUME UNCHANGED vars PROVE TypeOK'
  BY <1>1 DEF vars, TypeOK, acceptVars, sessionVars, controlVars, routingVars, queues
<1> QED
  BY <1>1, AcceptType, SessionType, ControlType, RoutingType DEF Next, Ended

\* The server's state always has the types of the code's variables: every
\* message in a queue is one its receiver matches on, every table is a table.
THEOREM TypeCorrect == Spec => []TypeOK
BY InitType, NextType, PTL DEF Spec

-----------------------------------------------------------------------------
(* The inductive invariant *)

\* Shutdown travels down the chain accept, control, routing: a receiver is
\* open as long as the task upstream of it may still send.
ShutdownChain ==
    /\ accept = "running" => control = "open" /\ ~Queued(controlQ, Shutdown)
    /\ control # "stopped" => routing = "open" /\ ~Queued(routingQ, Shutdown)

\* Ids not handed out yet belong to no task.
FreshIds == \A s \in SessionIds : s >= accepted => sess[s] = "none"

\* The control task knows nothing of session s and will not be told.
Clean(s) ==
    /\ ~Queued(controlQ, AddSession(s))
    /\ s \notin unauth
    /\ ~holds_session(rtbl, s)

\* A queue declares session s at most once, and before it removes it.
Ordered(q, s) ==
    \A i, j \in DOMAIN q :
        /\ q[i] = AddSession(s) /\ q[j] = AddSession(s) => i = j
        /\ q[i] = AddSession(s) /\ q[j] = RemoveSession(s) => i < j

\* A session is in one place: in the queue, in unauth or in the table, and in
\* none of them before it declares itself and after it has been removed.
Registration(s) ==
    /\ sess[s] \in {"none", "handshake", "failed", "denied"} =>
          Clean(s) /\ ~Queued(controlQ, RemoveSession(s))
    /\ sess[s] = "graceful" => Clean(s)
    /\ sess[s] = "aborted" /\ control = "open" /\ ~Queued(controlQ, RemoveSession(s))
          => Clean(s)
    /\ Queued(controlQ, AddSession(s)) => s \notin unauth /\ ~holds_session(rtbl, s)
    /\ s \in unauth => ~holds_session(rtbl, s)
    /\ Ordered(controlQ, s)

IInv ==
    /\ TypeOK
    /\ NoExpectFails
    /\ ShutdownChain
    /\ FreshIds
    /\ TablesConsistent
    /\ TableSync
    /\ \A s \in SessionIds : Registration(s)

-----------------------------------------------------------------------------
(* Its parts are preserved *)

\* What is queued after a send and after a receive.
LEMMA QueuedAppend ==
    ASSUME NEW S, NEW q \in Seq(S), NEW m \in S, NEW x
    PROVE  Queued(Append(q, m), x) <=> Queued(q, x) \/ x = m
BY AppendFacts DEF Queued

LEMMA QueuedTail ==
    ASSUME NEW S, NEW q \in Seq(S), q # <<>>, NEW x
    PROVE  Queued(q, x) <=> Queued(Tail(q), x) \/ x = Head(q)
<1>1. Queued(Tail(q), x) => Queued(q, x)
  BY TailFacts DEF Queued
<1>2. x = Head(q) => Queued(q, x)
  BY TailFacts DEF Queued
<1>3. ASSUME NEW i \in DOMAIN q, q[i] = x, x # Head(q)
      PROVE  Queued(Tail(q), x)
  <2>1. i - 1 \in DOMAIN Tail(q) /\ Tail(q)[i - 1] = q[i]
    BY <1>3, TailFacts
  <2> QED
    BY <1>3, <2>1 DEF Queued
<1> QED
  BY <1>1, <1>2, <1>3 DEF Queued

\* Messages of different kinds differ.
LEMMA Distinct ==
    /\ \A s, t : AddSession(s) # RemoveSession(t)
    /\ \A s, t : AddSession(s) = AddSession(t) => s = t
    /\ \A s, t : RemoveSession(s) = RemoveSession(t) => s = t
    /\ \A s : AddSession(s) # Shutdown /\ RemoveSession(s) # Shutdown
    /\ \A t : Update(t) # Shutdown
<1>1. \A s : /\ AddSession(s).kind = "AddSession" /\ AddSession(s).id = s
             /\ RemoveSession(s).kind = "RemoveSession" /\ RemoveSession(s).id = s
             /\ Update(s).kind = "Update" /\ Update(s).table = s
  BY DEF AddSession, RemoveSession, Update
<1>2. Shutdown.kind = "Shutdown"
  BY DEF Shutdown
<1> QED
  BY <1>1, <1>2

\* The expectations hold in the step that tests them.
LEMMA ExpectStep ==
    ASSUME IInv, [Next]_vars
    PROVE  NoExpectFails'
<1> USE DEF NoExpectFails
<1>1. CASE UNCHANGED vars
  BY <1>1 DEF vars, IInv
<1>2. CASE NotifyStop \/ AcceptTask
  BY <1>2 DEF IInv, ShutdownChain, NotifyStop, AcceptTask, AcceptConnection,
              AcceptStop, ListenerFailed, LeaveLoop, AcceptDone
<1>3. ASSUME NEW s \in SessionIds, SessionTask(s) PROVE panicked' = panicked
  BY <1>3 DEF SessionTask, VersionExchanged, VersionExchangeFailed, ReadRouted, ReadPing,
              ReadControl, Forward, Sent, ConnectionLost, KeepaliveExpired, SendFailed, Abort, DropSession,
              Graceful
<1>4. CASE ControlTask
  <2>1. ASSUME NEW m, control # "stopped", ExpectRouting(m) PROVE panicked' = panicked
    BY <2>1 DEF IInv, ShutdownChain, ExpectRouting
  <2>2. CASE ControlPacket
    BY <2>1, <2>2 DEF ControlPacket, ControlRecv, IInv
  <2>3. CASE ControlRemoveSession
    <3>1. Head(controlQ).id \in SessionIds
      BY <2>3, ControlRecvType, ControlMessages DEF ControlRemoveSession, IInv
    <3>2. holds_session(rtbl, Head(controlQ).id) => ~bad_memberships(rtbl, Head(controlQ).id)
      BY <3>1, ExpelTable DEF IInv, TypeOK, TablesConsistent
    <3> QED
      BY <2>1, <2>3, <3>2 DEF ControlRemoveSession, ControlRecv, IInv
  <2>4. CASE ControlStop
    BY <2>1, <2>4 DEF ControlStop, IInv
  <2>5. CASE ControlAddSession \/ ControlShutdown
    BY <2>5 DEF ControlAddSession, ControlShutdown, IInv
  <2> QED
    BY <1>4, <2>2, <2>3, <2>4, <2>5 DEF ControlTask
<1>5. CASE RoutingTask
  BY <1>5 DEF IInv, RoutingTask, RoutingVoice, RoutingText, RoutingUpdate, RoutingShutdown,
              RoutingStop, queues
<1> QED
  BY <1>1, <1>2, <1>3, <1>4, <1>5 DEF Next, Ended, IInv

\* A new connection gets an id that nobody had.
LEMMA FreshStep ==
    ASSUME IInv, [Next]_vars
    PROVE  FreshIds'
<1> SUFFICES ASSUME NEW t \in SessionIds, t >= accepted' PROVE sess'[t] = "none"
  BY DEF FreshIds
<1> t \in Nat /\ accepted \in Nat
  BY IdsAssumption DEF IInv, TypeOK
<1>1. CASE AcceptConnection
  BY <1>1 DEF AcceptConnection, IInv, TypeOK, FreshIds
<1>2. ASSUME NEW s \in SessionIds, SessionTask(s) PROVE sess'[t] = "none"
  <2>1. accepted' = accepted /\ sess[s] # "none"
    BY <1>2 DEF SessionTask, VersionExchanged, VersionExchangeFailed, ReadRouted, ReadPing,
                ReadControl, Read, Forward, Sent, ConnectionLost, KeepaliveExpired, SendFailed, Abort,
                DropSession, Graceful, acceptVars
  <2>2. sess[t] = "none"
    BY <2>1 DEF IInv, FreshIds
  <2>3. sess'[t] = sess[t]
    BY <1>2, <2>1, <2>2 DEF SessionTask, VersionExchanged, VersionExchangeFailed, ReadRouted,
                ReadPing, ReadControl, Forward, Sent, ConnectionLost, KeepaliveExpired, SendFailed, Abort,
                DropSession, Graceful, IInv, TypeOK
  <2> QED
    BY <2>2, <2>3
<1>3. ASSUME sess' = sess, accepted' = accepted PROVE sess'[t] = "none"
  BY <1>3 DEF IInv, FreshIds
<1>4. CASE NotifyStop \/ AcceptStop \/ ListenerFailed \/ AcceptDone \/ ControlTask \/ RoutingTask
  BY <1>3, <1>4 DEF NotifyStop, AcceptStop, ListenerFailed, LeaveLoop, AcceptDone, ControlTask,
      ControlPacket, ControlAddSession, ControlRemoveSession, ControlShutdown, ControlStop,
      RoutingTask, RoutingVoice, RoutingText, RoutingUpdate, RoutingShutdown, RoutingStop,
      acceptVars, sessionVars
<1>5. CASE UNCHANGED vars
  BY <1>3, <1>5 DEF vars, acceptVars, sessionVars
<1> QED
  BY <1>1, <1>2, <1>4, <1>5 DEF Next, AcceptTask, Ended

\* Only the task upstream sends Shutdown, and it does so once it is done.
LEMMA ChainStep ==
    ASSUME IInv, [Next]_vars
    PROVE  ShutdownChain'
<1> USE DEF IInv, ShutdownChain
<1> TypeOK
  OBVIOUS
<1> USE DEF TypeOK
<1>1. ASSUME NEW m \in ControlMessage, m # Shutdown, SendControl(m)
      PROVE  Queued(controlQ, Shutdown)' <=> Queued(controlQ, Shutdown)
  BY <1>1, QueuedAppend DEF SendControl
<1>2. ASSUME NEW m \in RoutingMessage, m # Shutdown, SendRouting(m)
      PROVE  Queued(routingQ, Shutdown)' <=> Queued(routingQ, Shutdown)
  BY <1>2, QueuedAppend DEF SendRouting
<1>3. ASSUME NEW k, ControlRecv(k)
      PROVE  /\ Queued(controlQ, Shutdown)' => Queued(controlQ, Shutdown)
             /\ k = "Shutdown" => Queued(controlQ, Shutdown)
  BY <1>3, QueuedTail, ControlRecvType, ControlMessages DEF ControlRecv
<1>4. ASSUME NEW k, RoutingRecv(k)
      PROVE  /\ Queued(routingQ, Shutdown)' => Queued(routingQ, Shutdown)
             /\ k = "Shutdown" => Queued(routingQ, Shutdown)
  BY <1>4, QueuedTail, RoutingRecvType, RoutingMessages DEF RoutingRecv
<1>5. ASSUME UNCHANGED <<accept, control, controlQ, routing, routingQ>> PROVE ShutdownChain'
  BY <1>5 DEF Queued
<1>6. CASE NotifyStop \/ AcceptConnection \/ UNCHANGED vars
  BY <1>5, <1>6 DEF NotifyStop, AcceptConnection, vars, acceptVars, controlVars,
                    routingVars, queues
<1>7. CASE AcceptStop \/ ListenerFailed \/ AcceptDone
  BY <1>7 DEF AcceptStop, ListenerFailed, LeaveLoop, AcceptDone, controlVars, routingVars,
              queues, Queued
<1>8. ASSUME NEW s \in SessionIds, SessionTask(s) PROVE ShutdownChain'
  <2>1. UNCHANGED <<accept, control, routing>>
    BY <1>8 DEF SessionTask, VersionExchanged, VersionExchangeFailed, ReadRouted, ReadPing,
                ReadControl, Forward, Sent, ConnectionLost, KeepaliveExpired, SendFailed, Abort,
                DropSession, Graceful, acceptVars, controlVars, routingVars
  <2>2. CASE VersionExchanged(s)
    BY <2>1, <2>2, <1>1, MessageTypes, Distinct DEF VersionExchanged, Queued
  <2>3. ASSUME NEW p \in Packets, ReadRouted(s, p) PROVE ShutdownChain'
    <3> DEFINE k == IF p.kind = "Text" THEN "Text" ELSE "Voice"
               m == [kind |-> k, id |-> s, packet |-> p, n |-> reads[s] + 1]
    <3>1. k \in {"Voice", "Text"} /\ reads[s] + 1 \in Nat
      OBVIOUS
    <3>2. m \in RoutingMessage
      <4> HIDE DEF k
      <4> QED
        BY <3>1, MessageTypes
    <3>3. m # Shutdown
      <4>1. m.kind = k /\ Shutdown.kind = "Shutdown"
        BY DEF Shutdown
      <4> QED
        BY <3>1, <4>1
    <3>4. SendRouting(m) /\ controlQ' = controlQ
      BY <2>3 DEF ReadRouted
    <3>5. Queued(routingQ, Shutdown)' <=> Queued(routingQ, Shutdown)
      <4> HIDE DEF m
      <4> QED
        BY <3>2, <3>3, <3>4, <1>2
    <3> QED
      BY <2>1, <3>4, <3>5 DEF Queued
  <2>4. ASSUME NEW p \in Packets, ReadControl(s, p) PROVE ShutdownChain'
    <3> DEFINE m == [kind |-> "Packet", id |-> s, packet |-> p]
    <3>1. m \in ControlMessage
      BY MessageTypes
    <3>2. m # Shutdown
      <4>1. m.kind = "Packet" /\ Shutdown.kind = "Shutdown"
        BY DEF Shutdown
      <4> QED
        BY <4>1
    <3>3. SendControl(m) /\ routingQ' = routingQ
      BY <2>4 DEF ReadControl
    <3>4. Queued(controlQ, Shutdown)' <=> Queued(controlQ, Shutdown)
      <4> HIDE DEF m
      <4> QED
        BY <3>1, <3>2, <3>3, <1>1
    <3> QED
      BY <2>1, <3>3, <3>4 DEF Queued
  <2>5. ASSUME Abort(s) PROVE ShutdownChain'
    BY <2>1, <2>5, <1>1, MessageTypes, Distinct DEF Abort, DropSession, Queued
  <2>6. ASSUME controlQ' = controlQ, routingQ' = routingQ PROVE ShutdownChain'
    BY <2>1, <2>6, <1>5
  <2>7. CASE VersionExchangeFailed(s) \/ Forward(s) \/ Sent(s) \/ Graceful(s)
    BY <2>6, <2>7 DEF VersionExchangeFailed, Forward, Sent, Graceful, queues
  <2>8. ASSUME NEW p \in Packets, ReadPing(s, p) PROVE ShutdownChain'
    BY <2>6, <2>8 DEF ReadPing, queues
  <2> QED
    BY <1>8, <2>2, <2>3, <2>4, <2>5, <2>7, <2>8 DEF SessionTask, ConnectionLost, KeepaliveExpired, SendFailed
<1>9. CASE ControlTask
  <2>1. UNCHANGED <<accept, routing>>
    BY <1>9 DEF ControlTask, ControlPacket, ControlAddSession, ControlRemoveSession,
                ControlShutdown, ControlStop, acceptVars, routingVars
  <2>2. ASSUME NEW t \in Tables, ExpectRouting(Update(t))
        PROVE  Queued(routingQ, Shutdown)' <=> Queued(routingQ, Shutdown)
    BY <2>2, <1>2, MessageTypes, Distinct DEF ExpectRouting
  <2>3. CASE ControlPacket
    <3>1. rtbl' \in Tables
      BY NextType, <1>9 DEF Next
    <3>2. Queued(routingQ, Shutdown)' <=> Queued(routingQ, Shutdown)
      BY <2>2, <2>3, <3>1 DEF ControlPacket, Queued
    <3>3. control' = control /\ ControlRecv("Packet")
      BY <2>3 DEF ControlPacket
    <3> QED
      BY <2>1, <3>2, <3>3, <1>3
  <2>4. CASE ControlRemoveSession
    <3>1. rtbl' \in Tables
      BY NextType, <1>9 DEF Next
    <3>2. Queued(routingQ, Shutdown)' <=> Queued(routingQ, Shutdown)
      BY <2>2, <2>4, <3>1 DEF ControlRemoveSession, Queued
    <3>3. control' = control /\ ControlRecv("RemoveSession")
      BY <2>4 DEF ControlRemoveSession
    <3> QED
      BY <2>1, <3>2, <3>3, <1>3
  <2>5. CASE ControlAddSession
    BY <2>1, <2>5, <1>3 DEF ControlAddSession, Queued
  <2>6. CASE ControlShutdown
    <3>1. control # "stopped" /\ accept # "running"
      BY <2>6, <1>3 DEF ControlShutdown, ControlRecv
    <3> QED
      BY <2>1, <2>6, <3>1 DEF ControlShutdown, Queued
  <2>7. CASE ControlStop
    BY <2>1, <2>7 DEF ControlStop, Queued
  <2> QED
    BY <1>9, <2>3, <2>4, <2>5, <2>6, <2>7 DEF ControlTask
<1>10. CASE RoutingTask
  <2>1. UNCHANGED <<accept, control, controlQ>>
    BY <1>10 DEF RoutingTask, RoutingVoice, RoutingText, RoutingUpdate, RoutingShutdown,
                 RoutingStop, acceptVars, controlVars, queues
  <2>2. ASSUME NEW k, RoutingRecv(k), routing' = routing PROVE ShutdownChain'
    BY <2>1, <2>2, <1>4 DEF Queued
  <2>3. CASE RoutingVoice \/ RoutingText \/ RoutingUpdate
    BY <2>2, <2>3 DEF RoutingVoice, RoutingText, RoutingUpdate, routingVars
  <2>4. CASE RoutingShutdown
    <3>1. control = "stopped"
      BY <2>4, <1>4 DEF RoutingShutdown
    <3> QED
      BY <2>1, <3>1 DEF Queued
  <2>5. CASE RoutingStop
    BY <2>1, <2>5 DEF RoutingStop, Queued
  <2> QED
    BY <1>10, <2>3, <2>4, <2>5 DEF RoutingTask
<1> QED
  BY <1>6, <1>7, <1>8, <1>9, <1>10 DEF Next, AcceptTask, Ended

\* Sending the routing task something else than a table changes nothing.
LEMMA SendKeepsTables ==
    ASSUME IInv, NEW m \in RoutingMessage, m.kind # "Update", SendRouting(m),
           UNCHANGED <<rtbl, view>>, control' = "stopped" \/ control' = control
    PROVE  TablesConsistent' /\ TableSync'
<1>1. CASE routingQ' = routingQ
  BY <1>1 DEF IInv, TablesConsistent, TableSync
<1>2. CASE routingQ' = Append(routingQ, m)
  <2>1. /\ Len(routingQ) \in Nat
        /\ DOMAIN routingQ = 1 .. Len(routingQ)
        /\ DOMAIN routingQ' = 1 .. Len(routingQ) + 1
        /\ \A i \in 1 .. Len(routingQ) : routingQ'[i] = routingQ[i]
        /\ routingQ'[Len(routingQ) + 1] = m
    BY <1>2, AppendFacts DEF IInv, TypeOK
  <2>2. TablesConsistent'
    BY <2>1 DEF TablesConsistent, IInv
  <2>3. TableSync'
    <3>1. CASE control' = "stopped"
      BY <3>1 DEF TableSync
    <3>2. CASE rtbl = view /\ \A i \in DOMAIN routingQ : routingQ[i].kind # "Update"
      BY <2>1, <3>2 DEF TableSync
    <3>3. ASSUME NEW i \in DOMAIN routingQ, routingQ[i] = Update(rtbl),
                 \A j \in DOMAIN routingQ : j > i => routingQ[j].kind # "Update"
          PROVE  TableSync'
      <4>1. /\ i \in DOMAIN routingQ'
            /\ routingQ'[i] = Update(rtbl')
            /\ \A j \in DOMAIN routingQ' : j > i => routingQ'[j].kind # "Update"
        BY <2>1, <3>3
      <4> QED
        BY <4>1 DEF TableSync
    <3> QED
      BY <3>1, <3>2, <3>3 DEF TableSync, IInv
  <2> QED
    BY <2>2, <2>3
<1> QED
  BY <1>1, <1>2 DEF SendRouting

\* A changed table is sent, and then is the last one queued.
LEMMA UpdateKeepsTables ==
    ASSUME IInv, control # "stopped", rtbl' \in Tables, Consistent(rtbl'),
           ExpectRouting(Update(rtbl')), view' = view
    PROVE  TablesConsistent' /\ TableSync'
<1>1. routingQ' = Append(routingQ, Update(rtbl'))
  BY DEF IInv, ShutdownChain, ExpectRouting, SendRouting
<1>2. /\ Update(rtbl') \in RoutingMessage
      /\ Update(rtbl').kind = "Update"
      /\ Update(rtbl').table = rtbl'
  BY MessageTypes DEF Update
<1>3. /\ Len(routingQ) \in Nat
      /\ DOMAIN routingQ = 1 .. Len(routingQ)
      /\ DOMAIN routingQ' = 1 .. Len(routingQ) + 1
      /\ \A i \in 1 .. Len(routingQ) : routingQ'[i] = routingQ[i]
      /\ routingQ'[Len(routingQ) + 1] = Update(rtbl')
  BY <1>1, <1>2, AppendFacts DEF IInv, TypeOK
<1>4. TablesConsistent'
  <2>1. ASSUME NEW i \in DOMAIN routingQ', routingQ'[i].kind = "Update"
        PROVE  Consistent(routingQ'[i].table)
    BY <1>2, <1>3, <2>1 DEF TablesConsistent, IInv
  <2>2. Consistent(view')
    BY DEF TablesConsistent, IInv
  <2> QED
    BY <2>1, <2>2 DEF TablesConsistent
<1>5. TableSync'
  <2>1. /\ Len(routingQ) + 1 \in DOMAIN routingQ'
        /\ \A j \in DOMAIN routingQ' : ~(j > Len(routingQ) + 1)
    BY <1>3
  <2> QED
    BY <1>3, <2>1 DEF TableSync
<1> QED
  BY <1>4, <1>5

\* Taking something else than a table from the queue changes nothing.
LEMMA RecvKeepsTables ==
    ASSUME IInv, NEW k, k # "Update", RoutingRecv(k), UNCHANGED <<rtbl, view, control>>
    PROVE  TablesConsistent' /\ TableSync'
<1>1. /\ Len(routingQ) \in Nat \ {0}
      /\ DOMAIN routingQ = 1 .. Len(routingQ)
      /\ DOMAIN routingQ' = 1 .. Len(routingQ) - 1
      /\ \A i \in 1 .. Len(routingQ) - 1 : routingQ'[i] = routingQ[i + 1]
      /\ routingQ[1].kind # "Update"
  BY TailFacts DEF RoutingRecv, IInv, TypeOK
<1>2. TablesConsistent'
  BY <1>1 DEF TablesConsistent, IInv
<1>3. TableSync'
  <2>1. CASE control = "stopped"
    BY <2>1 DEF TableSync, IInv
  <2>2. CASE rtbl = view /\ \A i \in DOMAIN routingQ : routingQ[i].kind # "Update"
    BY <1>1, <2>2 DEF TableSync
  <2>3. ASSUME NEW i \in DOMAIN routingQ, routingQ[i] = Update(rtbl),
               \A j \in DOMAIN routingQ : j > i => routingQ[j].kind # "Update"
        PROVE  TableSync'
    <3>1. i # 1
      BY <1>1, <2>3 DEF Update
    <3>2. /\ i - 1 \in DOMAIN routingQ'
          /\ routingQ'[i - 1] = Update(rtbl')
          /\ \A j \in DOMAIN routingQ' : j > i - 1 => routingQ'[j].kind # "Update"
      BY <1>1, <2>3, <3>1
    <3> QED
      BY <3>2 DEF TableSync
  <2> QED
    BY <2>1, <2>2, <2>3 DEF TableSync, IInv
<1> QED
  BY <1>2, <1>3

\* Taking a table from the queue makes it the routing task's.
LEMMA RecvUpdateTables ==
    ASSUME IInv, RoutingUpdate
    PROVE  TablesConsistent' /\ TableSync'
<1>1. /\ Len(routingQ) \in Nat \ {0}
      /\ DOMAIN routingQ = 1 .. Len(routingQ)
      /\ DOMAIN routingQ' = 1 .. Len(routingQ) - 1
      /\ \A i \in 1 .. Len(routingQ) - 1 : routingQ'[i] = routingQ[i + 1]
      /\ routingQ[1].kind = "Update"
      /\ view' = routingQ[1].table
      /\ UNCHANGED <<rtbl, control>>
  BY TailFacts DEF RoutingUpdate, RoutingRecv, controlVars, IInv, TypeOK
<1>2. TablesConsistent'
  BY <1>1 DEF TablesConsistent, IInv
<1>3. TableSync'
  <2>1. CASE control = "stopped"
    BY <1>1, <2>1 DEF TableSync
  <2>2. ~\A i \in DOMAIN routingQ : routingQ[i].kind # "Update"
    BY <1>1
  <2>3. ASSUME NEW i \in DOMAIN routingQ, routingQ[i] = Update(rtbl),
               \A j \in DOMAIN routingQ : j > i => routingQ[j].kind # "Update"
        PROVE  TableSync'
    <3>1. CASE i = 1
      <4>1. view' = rtbl'
        BY <1>1, <2>3, <3>1 DEF Update
      <4>2. \A j \in DOMAIN routingQ' : routingQ'[j].kind # "Update"
        BY <1>1, <2>3, <3>1
      <4> QED
        BY <4>1, <4>2 DEF TableSync
    <3>2. CASE i # 1
      <4>1. /\ i - 1 \in DOMAIN routingQ'
            /\ routingQ'[i - 1] = Update(rtbl')
            /\ \A j \in DOMAIN routingQ' : j > i - 1 => routingQ'[j].kind # "Update"
        BY <1>1, <2>3, <3>2
      <4> QED
        BY <4>1 DEF TableSync
    <3> QED
      BY <3>1, <3>2
  <2> QED
    BY <1>1, <2>1, <2>2, <2>3 DEF TableSync, IInv
<1> QED
  BY <1>2, <1>3

\* Every copy of the table stays consistent, and the last one is the control
\* task's own.
LEMMA TablesStep ==
    ASSUME IInv, [Next]_vars
    PROVE  TablesConsistent' /\ TableSync'
<1> TypeOK /\ TablesConsistent /\ Consistent(rtbl) /\ rtbl \in Tables
  BY DEF IInv, TypeOK, TablesConsistent
<1>1. ASSUME UNCHANGED <<rtbl, view, routingQ>>, control # "stopped" \/ control' = control
      PROVE  TablesConsistent' /\ TableSync'
  BY <1>1 DEF IInv, TablesConsistent, TableSync
<1>2. CASE NotifyStop \/ AcceptTask \/ UNCHANGED vars
  BY <1>1, <1>2 DEF NotifyStop, AcceptTask, AcceptConnection, AcceptStop, ListenerFailed,
      LeaveLoop, AcceptDone, vars, controlVars, routingVars, queues
<1>3. ASSUME NEW s \in SessionIds, SessionTask(s) PROVE TablesConsistent' /\ TableSync'
  <2>1. UNCHANGED <<rtbl, view, control>>
    BY <1>3 DEF SessionTask, VersionExchanged, VersionExchangeFailed, ReadRouted, ReadPing,
        ReadControl, Forward, Sent, ConnectionLost, KeepaliveExpired, SendFailed, Abort, DropSession,
        Graceful, controlVars, routingVars
  <2>2. ASSUME NEW p \in Packets, ReadRouted(s, p) PROVE TablesConsistent' /\ TableSync'
    <3> DEFINE k == IF p.kind = "Text" THEN "Text" ELSE "Voice"
               m == [kind |-> k, id |-> s, packet |-> p, n |-> reads[s] + 1]
    <3>1. k \in {"Voice", "Text"} /\ reads[s] + 1 \in Nat
      BY DEF TypeOK
    <3>2. m \in RoutingMessage /\ m.kind # "Update"
      <4> HIDE DEF k
      <4> QED
        BY <3>1, MessageTypes
    <3>3. SendRouting(m)
      BY <2>2 DEF ReadRouted
    <3> QED
      BY <2>1, <3>2, <3>3, SendKeepsTables
  <2>3. ASSUME routingQ' = routingQ PROVE TablesConsistent' /\ TableSync'
    BY <1>1, <2>1, <2>3
  <2>4. ASSUME ~\E p \in Packets : ReadRouted(s, p) PROVE routingQ' = routingQ
    BY <1>3, <2>4 DEF SessionTask, VersionExchanged, VersionExchangeFailed, ReadPing,
        ReadControl, Forward, Sent, ConnectionLost, KeepaliveExpired, SendFailed, Abort, DropSession,
        Graceful, queues
  <2> QED
    BY <2>2, <2>3, <2>4
<1>4. CASE ControlPacket
  <2> DEFINE s == Head(controlQ).id
  <2>1. s \in SessionIds /\ control # "stopped" /\ UNCHANGED <<view, control>>
    BY <1>4, ControlRecvType, ControlMessages DEF ControlPacket, ControlRecv, routingVars
  <2>2. CASE UNCHANGED <<rtbl, routingQ>>
    BY <1>1, <2>1, <2>2
  <2>3. ASSUME ~holds_session(rtbl, s), rtbl' = enroll_session(rtbl, s),
               ExpectRouting(Update(rtbl'))
        PROVE  TablesConsistent' /\ TableSync'
    <3>1. rtbl' \in Tables /\ Consistent(rtbl')
      BY <2>1, <2>3, EnrollTable
    <3> QED
      BY <2>1, <2>3, <3>1, UpdateKeepsTables
  <2> QED
    BY <1>4, <2>2, <2>3 DEF ControlPacket
<1>5. CASE ControlRemoveSession
  <2> DEFINE s == Head(controlQ).id
  <2>1. s \in SessionIds /\ control # "stopped" /\ UNCHANGED <<view, control>>
    BY <1>5, ControlRecvType, ControlMessages DEF ControlRemoveSession, ControlRecv, routingVars
  <2>2. CASE UNCHANGED <<rtbl, routingQ>>
    BY <1>1, <2>1, <2>2
  <2>3. ASSUME holds_session(rtbl, s), rtbl' = expel_session(rtbl, s),
               ExpectRouting(Update(rtbl'))
        PROVE  TablesConsistent' /\ TableSync'
    <3>1. rtbl' \in Tables /\ Consistent(rtbl')
      BY <2>1, <2>3, ExpelTable
    <3> QED
      BY <2>1, <2>3, <3>1, UpdateKeepsTables
  <2> QED
    BY <1>5, <2>2, <2>3 DEF ControlRemoveSession
<1>6. CASE ControlAddSession \/ ControlShutdown
  BY <1>1, <1>6 DEF ControlAddSession, ControlShutdown, ControlRecv, routingVars
<1>7. CASE ControlStop
  <2>1. /\ SendRouting(Shutdown) /\ control' = "stopped" /\ rtbl' = EmptyTable
        /\ view' = view /\ routing = "open"
    BY <1>7 DEF ControlStop, ExpectRouting, routingVars, IInv, ShutdownChain
  <2>2. TableSync'
    BY <2>1 DEF TableSync
  <2>3. Shutdown \in RoutingMessage /\ Shutdown.kind # "Update"
    BY MessageTypes DEF Shutdown
  <2>4. TablesConsistent'
    BY <2>1, <2>3, AppendFacts, EmptyTableConsistent DEF TablesConsistent, SendRouting, TypeOK
  <2> QED
    BY <2>2, <2>4
<1>8. CASE RoutingVoice \/ RoutingText \/ RoutingShutdown
  BY <1>8, RecvKeepsTables DEF RoutingVoice, RoutingText, RoutingShutdown, controlVars, routingVars
<1>9. CASE RoutingUpdate
  BY <1>9, RecvUpdateTables
<1>10. CASE RoutingStop
  <2>1. /\ control = "stopped" /\ view' = EmptyTable
        /\ UNCHANGED <<control, rtbl, routingQ>>
    BY <1>10 DEF RoutingStop, IInv, ShutdownChain, controlVars, queues
  <2> QED
    BY <2>1, EmptyTableConsistent DEF TablesConsistent, TableSync
<1> QED
  BY <1>2, <1>3, <1>4, <1>5, <1>6, <1>7, <1>8, <1>9, <1>10
  DEF Next, Ended, ControlTask, RoutingTask

\* Sends keep a queue ordered: nobody is declared twice or after its removal.
LEMMA OrderedAppend ==
    ASSUME NEW q \in Seq(ControlMessage), NEW m \in ControlMessage, NEW s, Ordered(q, s),
           m = AddSession(s) => ~Queued(q, AddSession(s)) /\ ~Queued(q, RemoveSession(s))
    PROVE  Ordered(Append(q, m), s)
<1> DEFINE r == Append(q, m)
<1>1. /\ Len(q) \in Nat
      /\ DOMAIN q = 1 .. Len(q)
      /\ DOMAIN r = 1 .. Len(q) + 1
      /\ \A i \in 1 .. Len(q) : r[i] = q[i]
      /\ r[Len(q) + 1] = m
  BY AppendFacts
<1> HIDE DEF r
<1> QED
  BY <1>1, Distinct DEF Ordered, Queued

\* Receiving keeps it ordered, and what is received is not behind.
LEMMA OrderedTail ==
    ASSUME NEW q \in Seq(ControlMessage), q # <<>>, NEW s, Ordered(q, s)
    PROVE  /\ Ordered(Tail(q), s)
           /\ Head(q) = AddSession(s) => ~Queued(Tail(q), AddSession(s))
           /\ Head(q) = RemoveSession(s) => ~Queued(Tail(q), AddSession(s))
<1> DEFINE r == Tail(q)
<1>1. /\ Len(q) \in Nat \ {0}
      /\ DOMAIN q = 1 .. Len(q)
      /\ DOMAIN r = 1 .. Len(q) - 1
      /\ \A i \in 1 .. Len(q) - 1 : r[i] = q[i + 1]
      /\ Head(q) = q[1]
  BY TailFacts
<1> HIDE DEF r
<1>2. ASSUME NEW i \in DOMAIN r
      PROVE  i + 1 \in DOMAIN q /\ r[i] = q[i + 1] /\ 1 \in DOMAIN q /\ i \in Nat \ {0}
  BY <1>1
<1>3. Ordered(r, s)
  <2> SUFFICES ASSUME NEW i \in DOMAIN r, NEW j \in DOMAIN r
               PROVE  /\ r[i] = AddSession(s) /\ r[j] = AddSession(s) => i = j
                      /\ r[i] = AddSession(s) /\ r[j] = RemoveSession(s) => i < j
    BY DEF Ordered
  <2>1. /\ i + 1 \in DOMAIN q /\ r[i] = q[i + 1] /\ i \in Nat
        /\ j + 1 \in DOMAIN q /\ r[j] = q[j + 1] /\ j \in Nat
    BY <1>2
  <2> QED
    BY <2>1 DEF Ordered
<1>4. ASSUME Head(q) = AddSession(s) PROVE ~Queued(r, AddSession(s))
  BY <1>1, <1>2, <1>4 DEF Ordered, Queued
<1>5. ASSUME Head(q) = RemoveSession(s) PROVE ~Queued(r, AddSession(s))
  BY <1>1, <1>2, <1>5 DEF Ordered, Queued
<1> QED
  BY <1>3, <1>4, <1>5 DEF r

\* A send to the control task that is no AddSession leaves registrations alone.
LEMMA RegistrationSend ==
    ASSUME IInv, NEW t \in SessionIds, NEW m \in ControlMessage, SendControl(m),
           m # AddSession(t), m # RemoveSession(t), sess'[t] = sess[t],
           UNCHANGED <<control, unauth, rtbl>>
    PROVE  Registration(t)'
<1>1. controlQ \in Seq(ControlMessage) /\ Registration(t)
  BY DEF IInv, TypeOK
<1>2. /\ Queued(controlQ, AddSession(t))' <=> Queued(controlQ, AddSession(t))
      /\ Queued(controlQ, RemoveSession(t))' <=> Queued(controlQ, RemoveSession(t))
      /\ Ordered(controlQ, t)'
  BY <1>1, QueuedAppend, OrderedAppend DEF SendControl, Registration
<1> QED
  BY <1>1, <1>2 DEF Registration, Clean, holds_session

\* What a session task does to its own and to the others' registration.
LEMMA RegistrationSession ==
    ASSUME IInv, NEW s \in SessionIds, SessionTask(s), NEW t \in SessionIds
    PROVE  Registration(t)'
<1>1. controlQ \in Seq(ControlMessage) /\ Registration(t) /\ Registration(s)
  BY DEF IInv, TypeOK
<1>2. UNCHANGED <<control, unauth, rtbl>>
  BY DEF SessionTask, VersionExchanged, VersionExchangeFailed, ReadRouted, ReadPing,
      ReadControl, Forward, Sent, ConnectionLost, KeepaliveExpired, SendFailed, Abort, DropSession, Graceful,
      controlVars
<1>3. ASSUME controlQ' = controlQ, sess'[t] = sess[t] PROVE Registration(t)'
  BY <1>1, <1>2, <1>3 DEF Registration, Clean, holds_session, Queued, Ordered
<1>4. CASE VersionExchanged(s)
  <2>1. CASE t # s
    <3>1. SendControl(AddSession(s)) /\ sess'[t] = sess[t]
      BY <1>4, <2>1 DEF VersionExchanged, IInv, TypeOK
    <3> QED
      BY <1>2, <2>1, <3>1, RegistrationSend, Distinct, MessageTypes
  <2>2. CASE t = s /\ control = "open"
    <3>1. /\ controlQ' = Append(controlQ, AddSession(t)) /\ sess'[t] = "active"
          /\ sess[t] = "handshake"
      BY <1>4, <2>2 DEF VersionExchanged, SendControl, IInv, TypeOK
    <3>2. Clean(t) /\ ~Queued(controlQ, RemoveSession(t)) /\ ~Queued(controlQ, AddSession(t))
      BY <1>1, <3>1 DEF Registration, Clean
    <3>3. Ordered(controlQ', t)
      BY <1>1, <3>1, <3>2, OrderedAppend, MessageTypes DEF Registration
    <3> QED
      BY <1>2, <3>1, <3>2, <3>3 DEF Registration, Clean, holds_session
  <2>3. CASE t = s /\ control # "open"
    <3>1. controlQ' = controlQ /\ sess'[t] = "denied" /\ sess[t] = "handshake"
      BY <1>4, <2>3 DEF VersionExchanged, SendControl, IInv, TypeOK
    <3> QED
      BY <1>1, <1>2, <3>1 DEF Registration, Clean, holds_session, Queued, Ordered
  <2> QED
    BY <2>1, <2>2, <2>3
<1>5. CASE VersionExchangeFailed(s)
  <2>1. controlQ' = controlQ
    BY <1>5 DEF VersionExchangeFailed, queues
  <2>2. t # s => sess'[t] = sess[t]
    BY <1>5 DEF VersionExchangeFailed, IInv, TypeOK
  <2>3. CASE t = s
    <3>1. sess'[t] = "failed" /\ sess[t] = "handshake"
      BY <1>5, <2>3 DEF VersionExchangeFailed, IInv, TypeOK
    <3> QED
      BY <1>1, <1>2, <2>1, <3>1 DEF Registration, Clean, holds_session, Queued, Ordered
  <2> QED
    BY <1>3, <2>1, <2>2, <2>3
<1>6. ASSUME NEW p \in Packets, ReadControl(s, p) PROVE Registration(t)'
  <2> DEFINE m == [kind |-> "Packet", id |-> s, packet |-> p]
  <2>1. m \in ControlMessage
    BY MessageTypes
  <2>2. m # AddSession(t) /\ m # RemoveSession(t)
    <3>1. /\ m.kind = "Packet" /\ AddSession(t).kind = "AddSession"
          /\ RemoveSession(t).kind = "RemoveSession"
      BY DEF AddSession, RemoveSession
    <3> QED
      BY <3>1
  <2>3. SendControl(m) /\ sess' = sess
    BY <1>6 DEF ReadControl
  <2> QED
    BY <1>2, <2>1, <2>2, <2>3, RegistrationSend
<1>7. ASSUME Abort(s), sess[s] \in {"active", "sending"} PROVE Registration(t)'
  <2>1. CASE t # s
    <3>1. SendControl(RemoveSession(s)) /\ sess'[t] = sess[t]
      BY <1>7, <2>1 DEF Abort, DropSession, IInv, TypeOK
    <3> QED
      BY <1>2, <2>1, <3>1, RegistrationSend, Distinct, MessageTypes
  <2>2. CASE t = s /\ control = "open"
    <3>1. controlQ' = Append(controlQ, RemoveSession(t)) /\ sess'[t] = "aborted"
      BY <1>7, <2>2 DEF Abort, DropSession, SendControl, IInv, TypeOK
    <3>2. /\ Queued(controlQ', RemoveSession(t))
          /\ Queued(controlQ', AddSession(t)) <=> Queued(controlQ, AddSession(t))
      BY <1>1, <3>1, QueuedAppend, MessageTypes, Distinct
    <3>3. Ordered(controlQ', t)
      BY <1>1, <3>1, OrderedAppend, MessageTypes, Distinct DEF Registration
    <3> QED
      BY <1>1, <1>2, <3>1, <3>2, <3>3 DEF Registration, Clean, holds_session
  <2>3. CASE t = s /\ control # "open"
    <3>1. controlQ' = controlQ /\ sess'[t] = "aborted"
      BY <1>7, <2>3 DEF Abort, DropSession, SendControl, IInv, TypeOK
    <3> QED
      BY <1>1, <1>2, <2>3, <3>1 DEF Registration, Clean, holds_session, Queued, Ordered
  <2> QED
    BY <2>1, <2>2, <2>3
<1>8. CASE Graceful(s)
  <2>1. controlQ' = controlQ
    BY <1>8 DEF Graceful, queues
  <2>2. CASE t # s
    <3>1. sess'[t] = sess[t]
      BY <1>8, <2>2 DEF Graceful, IInv, TypeOK
    <3> QED
      BY <1>3, <2>1, <3>1
  <2>3. CASE t = s
    <3>1. Clean(t) /\ sess'[t] = "graceful"
      BY <1>8, <2>3 DEF Graceful, Held, Clean, Queued, IInv, TypeOK
    <3> QED
      BY <1>1, <1>2, <2>1, <3>1 DEF Registration, Clean, holds_session, Queued, Ordered
  <2> QED
    BY <2>2, <2>3
<1>9. ASSUME controlQ' = controlQ, \/ sess' = sess
                                   \/ /\ sess[s] \in {"active", "sending"}
                                      /\ \/ sess' = [sess EXCEPT ![s] = "active"]
                                         \/ sess' = [sess EXCEPT ![s] = "sending"]
      PROVE  Registration(t)'
  <2>1. CASE sess'[t] = sess[t]
    BY <1>3, <1>9, <2>1
  <2>2. CASE sess'[t] \in {"active", "sending"}
    BY <1>1, <1>2, <1>9, <2>2 DEF Registration, Clean, holds_session, Queued, Ordered
  <2> QED
    BY <1>9, <2>1, <2>2 DEF IInv, TypeOK
<1>10. ASSUME NEW p \in Packets, ReadRouted(s, p) \/ ReadPing(s, p) PROVE Registration(t)'
  BY <1>9, <1>10 DEF ReadRouted, ReadPing, Read, queues
<1>11. CASE Forward(s) \/ Sent(s)
  BY <1>9, <1>11 DEF Forward, Sent, queues
<1> QED
  BY <1>4, <1>5, <1>6, <1>7, <1>8, <1>10, <1>11 DEF SessionTask, ConnectionLost, KeepaliveExpired, SendFailed

\* What the control task's handlers do to a registration.
LEMMA RegistrationControl ==
    ASSUME IInv, ControlTask, NEW t \in SessionIds
    PROVE  Registration(t)'
<1>1. controlQ \in Seq(ControlMessage) /\ Registration(t) /\ rtbl \in Tables
  BY DEF IInv, TypeOK
<1>2. sess' = sess
  BY DEF ControlTask, ControlPacket, ControlAddSession, ControlRemoveSession, ControlShutdown,
      ControlStop, sessionVars
<1> DEFINE h == Head(controlQ)
<1>3. ASSUME NEW k, ControlRecv(k)
      PROVE  /\ controlQ # <<>> /\ controlQ' = Tail(controlQ) /\ h.kind = k
             /\ h \in ControlMessage
             /\ Queued(controlQ, AddSession(t)) <=> Queued(controlQ', AddSession(t)) \/ h = AddSession(t)
             /\ Queued(controlQ, RemoveSession(t)) <=> Queued(controlQ', RemoveSession(t)) \/ h = RemoveSession(t)
             /\ Ordered(controlQ', t)
             /\ h \in {AddSession(t), RemoveSession(t)} => ~Queued(controlQ', AddSession(t))
  <2>1. controlQ # <<>> /\ controlQ' = Tail(controlQ) /\ h.kind = k /\ h \in ControlMessage
    BY <1>3, ControlRecvType DEF ControlRecv, IInv
  <2>2. /\ Queued(controlQ, AddSession(t)) <=> Queued(Tail(controlQ), AddSession(t)) \/ AddSession(t) = h
        /\ Queued(controlQ, RemoveSession(t)) <=> Queued(Tail(controlQ), RemoveSession(t)) \/ RemoveSession(t) = h
    BY <1>1, <2>1, QueuedTail
  <2>3. /\ Ordered(Tail(controlQ), t)
        /\ h = AddSession(t) => ~Queued(Tail(controlQ), AddSession(t))
        /\ h = RemoveSession(t) => ~Queued(Tail(controlQ), AddSession(t))
    BY <1>1, <2>1, OrderedTail DEF Registration
  <2> QED
    BY <2>1, <2>2, <2>3
<1>4. AddSession(t).kind = "AddSession" /\ RemoveSession(t).kind = "RemoveSession"
      /\ AddSession(t).id = t /\ RemoveSession(t).id = t
  BY DEF AddSession, RemoveSession
<1>5. CASE ControlPacket
  <2>1. ControlRecv("Packet") /\ control' = control
    BY <1>5 DEF ControlPacket
  <2>2. /\ Queued(controlQ, AddSession(t)) <=> Queued(controlQ', AddSession(t))
        /\ Queued(controlQ, RemoveSession(t)) <=> Queued(controlQ', RemoveSession(t))
        /\ Ordered(controlQ', t)
        /\ h.id \in SessionIds
    BY <1>3, <1>4, <2>1, ControlMessages
  <2>3. CASE UNCHANGED rtbl /\ unauth' \in {unauth, unauth \ {h.id}}
    BY <1>1, <1>2, <2>1, <2>2, <2>3 DEF Registration, Clean, holds_session
  <2>4. ASSUME h.id \in unauth, ~holds_session(rtbl, h.id), unauth' = unauth \ {h.id},
               rtbl' = enroll_session(rtbl, h.id)
        PROVE  Registration(t)'
    <3>1. holds_session(rtbl', t) <=> holds_session(rtbl, t) \/ t = h.id
      BY <1>1, <2>2, <2>4, EnrollTable DEF holds_session
    <3> QED
      BY <1>1, <1>2, <2>1, <2>2, <2>4, <3>1 DEF Registration, Clean
  <2> QED
    BY <1>5, <2>3, <2>4 DEF ControlPacket
<1>6. CASE ControlAddSession
  <2>1. ControlRecv("AddSession") /\ control' = control /\ rtbl' = rtbl
        /\ unauth' = unauth \cup {h.id}
    BY <1>6 DEF ControlAddSession
  <2>2. h = AddSession(h.id)
    BY <1>3, <2>1, ControlMessages
  <2>3. CASE t = h.id
    BY <1>1, <1>2, <1>3, <1>4, <2>1, <2>2, <2>3 DEF Registration, Clean, holds_session
  <2>4. CASE t # h.id
    BY <1>1, <1>2, <1>3, <1>4, <2>1, <2>2, <2>4 DEF Registration, Clean, holds_session
  <2> QED
    BY <2>3, <2>4
<1>7. CASE ControlRemoveSession
  <2>1. ControlRecv("RemoveSession") /\ control' = control /\ unauth' = unauth \ {h.id}
    BY <1>7 DEF ControlRemoveSession
  <2>2. h = RemoveSession(h.id) /\ h.id \in SessionIds
    BY <1>3, <2>1, ControlMessages
  <2>3. \/ rtbl' = rtbl /\ (h.id \in unauth \/ ~holds_session(rtbl, h.id))
        \/ rtbl' = expel_session(rtbl, h.id) /\ holds_session(rtbl, h.id)
    BY <1>7, <2>2, ExpelTable DEF ControlRemoveSession, IInv, TypeOK, TablesConsistent
  <2>4. h.id \in unauth => ~holds_session(rtbl, h.id)
    BY <2>2 DEF IInv, Registration
  <2>5. holds_session(rtbl', t) <=> holds_session(rtbl, t) /\ t # h.id
    <3>1. CASE rtbl' = rtbl /\ ~holds_session(rtbl, h.id)
      BY <3>1
    <3>2. CASE rtbl' = expel_session(rtbl, h.id) /\ holds_session(rtbl, h.id)
      BY <2>2, <3>2, ExpelTable DEF holds_session, IInv, TypeOK, TablesConsistent
    <3> QED
      BY <2>3, <2>4, <3>1, <3>2
  <2>6. CASE t = h.id
    BY <1>1, <1>2, <1>3, <1>4, <2>1, <2>2, <2>5, <2>6 DEF Registration, Clean
  <2>7. CASE t # h.id
    BY <1>1, <1>2, <1>3, <1>4, <2>1, <2>2, <2>5, <2>7 DEF Registration, Clean
  <2> QED
    BY <2>6, <2>7
<1>8. CASE ControlShutdown
  <2>1. ControlRecv("Shutdown") /\ control' = "closing" /\ UNCHANGED <<rtbl, unauth>>
    BY <1>8 DEF ControlShutdown
  <2> QED
    BY <1>1, <1>2, <1>3, <1>4, <2>1 DEF Registration, Clean, holds_session
<1>9. CASE ControlStop
  <2>1. controlQ' = <<>> /\ unauth' = {} /\ rtbl' = EmptyTable
    BY <1>9 DEF ControlStop
  <2>2. Clean(t)' /\ ~Queued(controlQ', RemoveSession(t)) /\ ~Queued(controlQ', AddSession(t))
    BY <2>1 DEF Clean, Queued, holds_session, EmptyTable
  <2>3. Ordered(controlQ', t)
    BY <2>1 DEF Ordered
  <2> QED
    BY <2>1, <2>2, <2>3 DEF Registration, Clean
<1> QED
  BY <1>5, <1>6, <1>7, <1>8, <1>9 DEF ControlTask

\* No step of any task breaks a registration.
LEMMA RegistrationStep ==
    ASSUME IInv, [Next]_vars, NEW t \in SessionIds
    PROVE  Registration(t)'
<1>1. Registration(t)
  BY DEF IInv
<1>2. ASSUME sess'[t] = sess[t], UNCHANGED <<control, controlQ, unauth, rtbl>>
      PROVE  Registration(t)'
  BY <1>1, <1>2 DEF Registration, Clean, holds_session, Queued, Ordered
<1>3. CASE NotifyStop \/ AcceptDone \/ RoutingTask \/ UNCHANGED vars
  BY <1>2, <1>3 DEF NotifyStop, AcceptDone, RoutingTask, RoutingVoice, RoutingText,
      RoutingUpdate, RoutingShutdown, RoutingStop, vars, sessionVars, controlVars, queues
<1>4. CASE AcceptConnection
  <2>1. CASE t # accepted
    <3>1. sess'[t] = sess[t]
      BY <1>4, <2>1 DEF AcceptConnection, IInv, TypeOK
    <3> QED
      BY <1>2, <1>4, <3>1 DEF AcceptConnection, controlVars, queues
  <2>2. CASE t = accepted
    <3>1. sess[t] = "none"
      BY <2>2, IdsAssumption DEF IInv, FreshIds, TypeOK
    <3>2. sess'[t] = "handshake" /\ UNCHANGED <<control, controlQ, unauth, rtbl>>
      BY <1>4, <2>2 DEF AcceptConnection, controlVars, queues, IInv, TypeOK
    <3> QED
      BY <1>1, <3>1, <3>2 DEF Registration, Clean, holds_session, Queued, Ordered
  <2> QED
    BY <2>1, <2>2
<1>5. CASE AcceptStop \/ ListenerFailed
  <2>1. SendControl(Shutdown) /\ sess' = sess /\ UNCHANGED <<control, unauth, rtbl>>
    BY <1>5 DEF AcceptStop, ListenerFailed, LeaveLoop, sessionVars, controlVars
  <2> QED
    BY <2>1, RegistrationSend, Distinct, MessageTypes
<1> QED
  BY <1>3, <1>4, <1>5, RegistrationSession, RegistrationControl DEF Next, AcceptTask, Ended

LEMMA InitIInv == Init => IInv
<1> SUFFICES ASSUME Init PROVE IInv
  OBVIOUS
<1>1. TypeOK
  BY InitType
<1>2. NoExpectFails
  BY DEF Init, NoExpectFails
<1>3. ShutdownChain
  BY DEF Init, ShutdownChain, Queued
<1>4. FreshIds
  BY DEF Init, FreshIds
<1>5. TablesConsistent /\ TableSync
  BY EmptyTableConsistent DEF Init, TablesConsistent, TableSync
<1>6. ASSUME NEW s \in SessionIds PROVE Registration(s)
  <2>1. Clean(s) /\ ~Queued(controlQ, RemoveSession(s)) /\ ~Queued(controlQ, AddSession(s))
    BY DEF Init, Clean, Queued, holds_session, EmptyTable
  <2>2. Ordered(controlQ, s)
    BY DEF Init, Ordered
  <2> QED
    BY <2>1, <2>2 DEF Registration, Clean
<1> QED
  BY <1>1, <1>2, <1>3, <1>4, <1>5, <1>6 DEF IInv

LEMMA NextIInv == IInv /\ [Next]_vars => IInv'
<1> SUFFICES ASSUME IInv, [Next]_vars PROVE IInv'
  OBVIOUS
<1>1. TypeOK'
  BY NextType DEF IInv
<1>2. NoExpectFails' /\ ShutdownChain' /\ FreshIds'
  BY ExpectStep, ChainStep, FreshStep
<1>3. TablesConsistent' /\ TableSync'
  BY TablesStep
<1>4. \A s \in SessionIds : Registration(s)'
  BY RegistrationStep
<1> QED
  BY <1>1, <1>2, <1>3, <1>4 DEF IInv

-----------------------------------------------------------------------------
(* The theorems *)

\* None of the expect() calls of the accept and control tasks ever fails, in
\* whatever order sessions connect, authenticate, fail and end, and wherever a
\* shutdown falls.
THEOREM ExpectationsHold == Spec => []NoExpectFails
<1>1. IInv => NoExpectFails
  BY DEF IInv
<1> QED
  BY InitIInv, NextIInv, <1>1, PTL DEF Spec

\* The routing task's table is the control task's as soon as it has taken the
\* updates under way.
THEOREM TablesInSync == Spec => []TableSync
<1>1. IInv => TableSync
  BY DEF IInv
<1> QED
  BY InitIInv, NextIInv, <1>1, PTL DEF Spec

\* Every table the routing task ever looks at is consistent.
THEOREM TablesAgree == Spec => []TablesConsistent
<1>1. IInv => TablesConsistent
  BY DEF IInv
<1> QED
  BY InitIInv, NextIInv, <1>1, PTL DEF Spec

\* A session task that has ended leaves nothing behind in the control task,
\* or its removal is under way.
THEOREM NobodyLingers == Spec => []Deregistered
<1>1. IInv => Deregistered
  <2> SUFFICES ASSUME IInv, control = "open", NEW s \in SessionIds, Finished(s),
                      ~Queued(controlQ, RemoveSession(s))
               PROVE  /\ ~Queued(controlQ, AddSession(s))
                      /\ s \notin unauth
                      /\ ~holds_session(rtbl, s)
    BY DEF Deregistered
  <2> QED
    BY DEF IInv, Registration, Clean, Finished
<1> QED
  BY InitIInv, NextIInv, <1>1, PTL DEF Spec

-----------------------------------------------------------------------------
(***************************************************************************)
(* Stammer implements TableLog: the routing task goes through the control  *)
(* task's tables one by one. Every step of the server is a step of         *)
(* TableLog or leaves its variables alone; IInv rules out the step that    *)
(* would change the table and not get the Update through.                  *)
(***************************************************************************)

\* What can be in the channel, and that it is a sequence.
Items == {<<>>} \cup {<<t>> : t \in Tables}

LEMMA ItemType ==
    ASSUME NEW m \in RoutingMessage
    PROVE  Item(m) \in Items
<1>1. CASE m.kind = "Update"
  BY <1>1, RoutingMessages DEF Item, Items
<1>2. CASE m.kind # "Update"
  BY <1>2 DEF Item, Items
<1> QED
  BY <1>1, <1>2

LEMMA MailType ==
    ASSUME NEW q \in Seq(RoutingMessage), NEW mail,
           mail = [i \in 1 .. Len(q) |-> Item(q[i])]
    PROVE  /\ mail \in Seq(Items)
           /\ Len(mail) = Len(q) /\ Len(q) \in Nat
           /\ \A i \in 1 .. Len(q) : mail[i] = Item(q[i])
<1>1. Len(q) \in Nat /\ \A i \in 1 .. Len(q) : q[i] \in RoutingMessage
  OBVIOUS
<1>2. \A i \in 1 .. Len(q) : Item(q[i]) \in Items
  BY <1>1, ItemType
<1> QED
  BY <1>1, <1>2

\* A message sent is one more item, a message received one less.
LEMMA MailAppend ==
    ASSUME TypeOK, TypeOK', NEW m \in RoutingMessage, routingQ' = Append(routingQ, m)
    PROVE  Mail' = Append(Mail, Item(m))
<1>1. /\ Mail \in Seq(Items) /\ Len(Mail) = Len(routingQ) /\ Len(routingQ) \in Nat
      /\ \A i \in 1 .. Len(routingQ) : Mail[i] = Item(routingQ[i])
  BY MailType DEF TypeOK, Mail
<1>2. /\ Mail' \in Seq(Items) /\ Len(Mail') = Len(routingQ')
      /\ \A i \in 1 .. Len(routingQ') : Mail'[i] = Item(routingQ'[i])
  BY MailType DEF TypeOK, Mail
<1>3. /\ Len(routingQ') = Len(routingQ) + 1
      /\ \A i \in 1 .. Len(routingQ) : routingQ'[i] = routingQ[i]
      /\ routingQ'[Len(routingQ) + 1] = m
  BY AppendFacts DEF TypeOK
<1>4. /\ Append(Mail, Item(m)) \in Seq(Items)
      /\ Len(Append(Mail, Item(m))) = Len(Mail) + 1
      /\ \A i \in 1 .. Len(Mail) : Append(Mail, Item(m))[i] = Mail[i]
      /\ Append(Mail, Item(m))[Len(Mail) + 1] = Item(m)
  BY <1>1, ItemType, AppendProperties
<1>5. \A i \in 1 .. Len(Mail') : Mail'[i] = Append(Mail, Item(m))[i]
  BY <1>1, <1>2, <1>3, <1>4
<1>6. Len(Mail') = Len(Append(Mail, Item(m)))
  BY <1>1, <1>2, <1>3, <1>4
<1> QED
  BY <1>2, <1>4, <1>5, <1>6, SeqEqual

LEMMA MailTail ==
    ASSUME TypeOK, TypeOK', routingQ # <<>>, routingQ' = Tail(routingQ)
    PROVE  Mail # <<>> /\ Mail' = Tail(Mail) /\ Head(Mail) = Item(Head(routingQ))
<1>1. /\ Mail \in Seq(Items) /\ Len(Mail) = Len(routingQ) /\ Len(routingQ) \in Nat
      /\ \A i \in 1 .. Len(routingQ) : Mail[i] = Item(routingQ[i])
  BY MailType DEF TypeOK, Mail
<1>2. /\ Mail' \in Seq(Items) /\ Len(Mail') = Len(routingQ')
      /\ \A i \in 1 .. Len(routingQ') : Mail'[i] = Item(routingQ'[i])
  BY MailType DEF TypeOK, Mail
<1>3. /\ Len(routingQ) \in Nat \ {0}
      /\ Len(routingQ') = Len(routingQ) - 1
      /\ \A i \in 1 .. Len(routingQ) - 1 : routingQ'[i] = routingQ[i + 1]
      /\ Head(routingQ) = routingQ[1]
  BY TailFacts DEF TypeOK
<1>4. Mail # <<>> /\ Head(Mail) = Item(Head(routingQ))
  BY <1>1, <1>3
<1>5. /\ Tail(Mail) \in Seq(Items)
      /\ Len(Tail(Mail)) = Len(Mail) - 1
      /\ \A i \in 1 .. Len(Tail(Mail)) : Tail(Mail)[i] = Mail[i + 1]
  BY <1>1, <1>4, HeadTailProperties
<1>6. \A i \in 1 .. Len(Mail') : Mail'[i] = Tail(Mail)[i]
  BY <1>1, <1>2, <1>3, <1>5
<1>7. Len(Mail') = Len(Tail(Mail))
  BY <1>1, <1>2, <1>3, <1>5
<1> QED
  BY <1>2, <1>4, <1>5, <1>6, <1>7, SeqEqual

-----------------------------------------------------------------------------
\* A step that touches no table and may send the routing task something else
\* is Chatter or nothing.
LEMMA ChatterStep ==
    ASSUME TypeOK, TypeOK', NEW m \in RoutingMessage, m.kind # "Update",
           SendRouting(m), UNCHANGED <<rtbl, control, view>>
    PROVE  [Log!Next]_Log!vars
<1>1. CASE routingQ' = routingQ
  BY <1>1 DEF Log!vars, Mail
<1>2. CASE routingQ' = Append(routingQ, m)
  <2>1. Mail' = Append(Mail, <<>>)
    BY <1>2, MailAppend DEF Item
  <2> QED
    BY <2>1 DEF Log!Next, Log!Chatter
<1> QED
  BY <1>1, <1>2 DEF SendRouting

\* Taking something else than a table is Take, and changes no table.
LEMMA SkipStep ==
    ASSUME TypeOK, TypeOK', NEW k, k # "Update", RoutingRecv(k),
           UNCHANGED <<rtbl, control, view>>
    PROVE  [Log!Next]_Log!vars
<1>1. /\ Mail # <<>> /\ Mail' = Tail(Mail)
      /\ Head(Mail) = <<>>
  BY MailTail DEF RoutingRecv, Item
<1> QED
  BY <1>1 DEF Log!Next, Log!Take

\* Every change of the control task's table gets through to the channel.
LEMMA PublishStep ==
    ASSUME IInv, TypeOK', control # "stopped", ExpectRouting(Update(rtbl')),
           UNCHANGED <<control, view>>
    PROVE  [Log!Next]_Log!vars
<1>1. routingQ' = Append(routingQ, Update(rtbl'))
  BY DEF IInv, ShutdownChain, ExpectRouting, SendRouting
<1>2. rtbl' \in Tables /\ TypeOK
  BY DEF TypeOK, IInv
<1>3. Update(rtbl') \in RoutingMessage /\ Item(Update(rtbl')) = <<rtbl'>>
  BY <1>2, MessageTypes DEF Item, Update
<1>4. Mail' = Append(Mail, <<rtbl'>>)
  BY <1>1, <1>2, <1>3, MailAppend
<1> QED
  BY <1>2, <1>4 DEF Log!Next, Log!Publish

LEMMA RefineControl ==
    ASSUME IInv, IInv', ControlTask
    PROVE  [Log!Next]_Log!vars
<1> TypeOK /\ TypeOK'
  BY DEF IInv
<1>1. ASSUME UNCHANGED <<rtbl, routingQ, view>>, control # "stopped", control' # "stopped"
      PROVE  [Log!Next]_Log!vars
  BY <1>1 DEF Log!vars, Mail
<1>2. CASE ControlPacket
  <2>1. control # "stopped" /\ UNCHANGED <<control, view>>
    BY <1>2 DEF ControlPacket, ControlRecv, routingVars
  <2>2. \/ ExpectRouting(Update(rtbl'))
        \/ UNCHANGED <<rtbl, routingQ>>
    BY <1>2 DEF ControlPacket
  <2> QED
    BY <1>1, <2>1, <2>2, PublishStep
<1>3. CASE ControlRemoveSession
  <2>1. control # "stopped" /\ UNCHANGED <<control, view>>
    BY <1>3 DEF ControlRemoveSession, ControlRecv, routingVars
  <2>2. \/ ExpectRouting(Update(rtbl'))
        \/ UNCHANGED <<rtbl, routingQ>>
    BY <1>3 DEF ControlRemoveSession
  <2> QED
    BY <1>1, <2>1, <2>2, PublishStep
<1>4. CASE ControlAddSession \/ ControlShutdown
  BY <1>1, <1>4 DEF ControlAddSession, ControlShutdown, ControlRecv, routingVars
<1>5. CASE ControlStop
  <2>1. routingQ' = Append(routingQ, Shutdown)
    BY <1>5 DEF ControlStop, IInv, ShutdownChain, ExpectRouting, SendRouting
  <2>2. Shutdown \in RoutingMessage /\ Item(Shutdown) = <<>>
    BY MessageTypes DEF Item, Shutdown
  <2>3. Mail' = Append(Mail, <<>>)
    BY <2>1, <2>2, MailAppend
  <2> QED
    BY <1>5, <2>3 DEF ControlStop, routingVars, Log!Next, Log!Retire
<1> QED
  BY <1>2, <1>3, <1>4, <1>5 DEF ControlTask

LEMMA RefineRouting ==
    ASSUME IInv, IInv', RoutingTask
    PROVE  [Log!Next]_Log!vars
<1> TypeOK /\ TypeOK'
  BY DEF IInv
<1>1. CASE RoutingVoice \/ RoutingText
  BY <1>1, SkipStep DEF RoutingVoice, RoutingText, controlVars, routingVars
<1>2. CASE RoutingShutdown
  BY <1>2, SkipStep DEF RoutingShutdown, controlVars
<1>3. CASE RoutingUpdate
  <2>1. /\ Mail # <<>> /\ Mail' = Tail(Mail)
        /\ Head(Mail) = <<Head(routingQ).table>>
    BY <1>3, MailTail DEF RoutingUpdate, RoutingRecv, Item
  <2>2. view' = Head(Mail)[1] /\ Head(Mail) # <<>> /\ UNCHANGED <<rtbl, control>>
    BY <1>3, <2>1 DEF RoutingUpdate, controlVars
  <2> QED
    BY <2>1, <2>2 DEF Log!Next, Log!Take
<1>4. CASE RoutingStop
  <2>1. control = "stopped"
    BY <1>4 DEF RoutingStop, IInv, ShutdownChain
  <2>2. Mail = <<>>
    BY <1>4 DEF RoutingStop, Mail
  <2>3. Mail' = Mail /\ UNCHANGED <<rtbl, control>> /\ view' = EmptyTable
    BY <1>4 DEF RoutingStop, controlVars, queues, Mail
  <2> QED
    BY <2>1, <2>2, <2>3 DEF Log!Next, Log!Drop
<1> QED
  BY <1>1, <1>2, <1>3, <1>4 DEF RoutingTask

LEMMA RefineOthers ==
    ASSUME IInv, IInv', NotifyStop \/ AcceptTask \/ (\E s \in SessionIds : SessionTask(s))
    PROVE  [Log!Next]_Log!vars
<1> TypeOK /\ TypeOK'
  BY DEF IInv
<1>1. ASSUME UNCHANGED <<rtbl, control, view, routingQ>> PROVE [Log!Next]_Log!vars
  BY <1>1 DEF Log!vars, Mail
<1>2. CASE NotifyStop \/ AcceptTask
  BY <1>1, <1>2 DEF NotifyStop, AcceptTask, AcceptConnection, AcceptStop, ListenerFailed,
                    LeaveLoop, AcceptDone, controlVars, routingVars, queues
<1>3. ASSUME NEW s \in SessionIds, SessionTask(s) PROVE [Log!Next]_Log!vars
  <2>1. ASSUME NEW p \in Packets, ReadRouted(s, p) PROVE [Log!Next]_Log!vars
    <3> DEFINE m == [kind |-> IF p.kind = "Text" THEN "Text" ELSE "Voice",
                     id |-> s, packet |-> p, n |-> reads[s] + 1]
    <3>1. m \in RoutingMessage /\ m.kind # "Update"
      BY DEF RoutingMessage, TypeOK
    <3> QED
      BY <2>1, <3>1, ChatterStep DEF ReadRouted, controlVars, routingVars
  <2>2. CASE ~\E p \in Packets : ReadRouted(s, p)
    BY <1>1, <1>3, <2>2
       DEF SessionTask, VersionExchanged, VersionExchangeFailed, ReadPing, ReadControl,
           Forward, Sent, ConnectionLost, KeepaliveExpired, SendFailed, Abort, DropSession,
           Graceful, controlVars, routingVars, queues
  <2> QED
    BY <2>1, <2>2
<1> QED
  BY <1>2, <1>3

-----------------------------------------------------------------------------
\* The routing task goes through the control task's tables one by one, in
\* order, whatever the number of sessions and rooms (task_control.rs sends an
\* Update for every change, task_routing.rs takes them from one channel).
THEOREM ImplementsTableLog == Spec => TablesInOrder
<1>1. Init => Log!Init
  BY DEF Init, Log!Init, Mail
<1>2. IInv /\ IInv' /\ [Next]_vars => [Log!Next]_Log!vars
  <2> SUFFICES ASSUME IInv, IInv', [Next]_vars PROVE [Log!Next]_Log!vars
    OBVIOUS
  <2>1. CASE UNCHANGED vars
    BY <2>1 DEF vars, controlVars, routingVars, queues, Log!vars, Mail
  <2> QED
    BY <2>1, RefineControl, RefineRouting, RefineOthers DEF Next, Ended
<1>3. Spec => []IInv
  BY InitIInv, NextIInv, PTL DEF Spec
<1> QED
  BY <1>1, <1>2, <1>3, PTL DEF Spec, TablesInOrder, Log!Spec

-----------------------------------------------------------------------------
(***************************************************************************)
(* What the server's clients can count on: who is sent anything, in which  *)
(* order, and that the control task lets go of no session that did nothing *)
(* wrong. Each needs an invariant of its own on top of IInv.               *)
(***************************************************************************)

\* A session task that is not writing to its client has nothing half written.
Idle == \A s \in SessionIds : sess[s] # "sending" => sending[s] = <<>>

\* Session s has been enrolled, for good.
Past(s) == Enrolled(s) /\ sess[s] \notin {"none", "handshake"}

\* Some copy of the table, under way or not, has session s.
UnderWay(s) ==
    \E i \in DOMAIN routingQ : /\ routingQ[i].kind = "Update"
                               /\ holds_session(routingQ[i].table, s)
Tabled(s) == holds_session(rtbl, s) \/ holds_session(view, s) \/ UnderWay(s)

\* d may be sent p.
Allowed(d, p) ==
    /\ p.kind # "Pong" => Past(d)
    /\ p.kind = "Voice" => p.from # d /\ Past(p.from)

\* Session s is on its way into unauth or in it.
Waiting(s) == Queued(controlQ, AddSession(s)) \/ s \in unauth

\* m is a packet that session s has passed on to the control task.
IsFrom(m, s) == m.kind = "Packet" /\ m.id = s

\* The first packet of session s in queue q is of kind g, and there is one
\* unless g is "none".
Greets(q, s, g) ==
    /\ g # "none" => \E i \in DOMAIN q : IsFrom(q[i], s)
    /\ \A i \in DOMAIN q :
          IsFrom(q[i], s) => \/ q[i].packet.kind = g
                            \/ \E j \in DOMAIN q : j < i /\ IsFrom(q[j], s)

\* The control task does not learn of a session's packets before it learns of
\* the session, and the first one it sees is the one that was sent first.
Greeting(s) ==
    /\ sess[s] \in {"none", "handshake"} => greeting[s] = "none"
    /\ greeting[s] = "none" => \A i \in DOMAIN controlQ : ~IsFrom(controlQ[i], s)
    /\ Waiting(s) => Greets(controlQ, s, greeting[s])
    /\ \A i, j \in DOMAIN controlQ :
          controlQ[i] = AddSession(s) /\ IsFrom(controlQ[j], s) => i < j

Greetings == \A s \in SessionIds : Greeting(s)

\* Whoever is in a table has been let in, and so has whoever is sent
\* anything, although it may have left the table since.
LetIn ==
    /\ \A s \in SessionIds : Tabled(s) => Past(s)
    /\ \A d \in SessionIds : \A i \in DOMAIN Inbound(d) : Allowed(d, Inbound(d)[i])

\* m is a packet on its way to the routing task, and what becomes of it.
Routed(m)    == m.kind \in {"Voice", "Text"}
Forwarded(m) == [kind |-> m.kind, from |-> m.id, n |-> m.n]

\* The routing queue rq has the packets of each client in the order in which
\* they were read.
ReadInOrder(rq, rd) ==
    /\ \A i \in DOMAIN rq : Routed(rq[i]) => rq[i].n <= rd[rq[i].id]
    /\ \A i, j \in DOMAIN rq :
          i < j /\ Routed(rq[i]) /\ Routed(rq[j]) /\ rq[i].id = rq[j].id
              => rq[i].n < rq[j].n

\* p may be ahead of q in what is on its way to a session.
Before(p, q) ==
    p.from = q.from /\ "Pong" \notin {p.kind, q.kind} =>
        p.n < q.n \/ (p.n = q.n /\ p.kind = "Text")

\* The packets q on their way to a session are in order, have been read, and
\* were ahead of the packets in the routing queue rq.
Sorted(q)      == \A i, j \in DOMAIN q : i < j => Before(q[i], q[j])
HasRead(q, rd) == \A i \in DOMAIN q : q[i].kind # "Pong" => q[i].n <= rd[q[i].from]
InFront(q, rq) ==
    \A i \in DOMAIN q, j \in DOMAIN rq :
        q[i].kind # "Pong" /\ Routed(rq[j]) /\ rq[j].id = q[i].from => q[i].n < rq[j].n

Orderly(q, rq, rd) == Sorted(q) /\ HasRead(q, rd) /\ InFront(q, rq)

InOrder ==
    /\ ReadInOrder(routingQ, reads)
    /\ \A d \in SessionIds : Orderly(Inbound(d), routingQ, reads)

\* Every Packet in a control queue is from a session that has been read from.
CountedPackets(q, rd) == \A i \in DOMAIN q : q[i].kind = "Packet" => rd[q[i].id] > 0

\* While the control task takes messages, it holds the sender of a session
\* that has sent nothing, and no message would make it let go.
KeptSession(s) ==
    /\ Queued(controlQ, RemoveSession(s)) => sess[s] = "aborted"
    /\ control = "open" /\ sess[s] \in {"active", "sending"} /\ reads[s] = 0
          => Queued(controlQ, AddSession(s)) \/ s \in unauth
    /\ control = "open" /\ sess[s] = "graceful" => reads[s] > 0

Kept == CountedPackets(controlQ, reads) /\ \A s \in SessionIds : KeptSession(s)

-----------------------------------------------------------------------------
(* Nobody is let go who has sent nothing *)

\* What is read is counted.
LEMMA ReadsGrow ==
    ASSUME IInv, [Next]_vars
    PROVE  \A s \in SessionIds : reads'[s] >= reads[s] /\ reads[s] \in Nat /\ reads'[s] \in Nat
<1>1. reads \in [SessionIds -> Nat]
  BY DEF IInv, TypeOK
<1>2. CASE reads' = reads
  BY <1>1, <1>2
<1>3. ASSUME NEW s \in SessionIds, reads' = [reads EXCEPT ![s] = @ + 1]
      PROVE  \A t \in SessionIds : reads'[t] >= reads[t] /\ reads[t] \in Nat /\ reads'[t] \in Nat
  BY <1>1, <1>3
<1>4. ASSUME NEW s \in SessionIds, SessionTask(s)
      PROVE  reads' = reads \/ reads' = [reads EXCEPT ![s] = @ + 1]
  BY <1>4 DEF SessionTask, VersionExchanged, VersionExchangeFailed, ReadRouted, ReadPing,
      ReadControl, Read, Forward, Sent, ConnectionLost, KeepaliveExpired, SendFailed, Abort,
      DropSession, Graceful
<1>5. CASE NotifyStop \/ AcceptTask \/ ControlTask \/ RoutingTask \/ UNCHANGED vars
  <2>1. reads' = reads
    BY <1>5 DEF NotifyStop, AcceptTask, AcceptConnection, AcceptStop, ListenerFailed, LeaveLoop,
        AcceptDone, ControlTask, ControlPacket, ControlAddSession, ControlRemoveSession,
        ControlShutdown, ControlStop, RoutingTask, RoutingVoice, RoutingText, RoutingUpdate,
        RoutingShutdown, RoutingStop, vars, sessionVars
  <2> QED
    BY <1>2, <2>1
<1> QED
  BY <1>2, <1>3, <1>4, <1>5 DEF Next, Ended

LEMMA CountedSend ==
    ASSUME NEW q \in Seq(ControlMessage), NEW m \in ControlMessage, NEW rd,
           CountedPackets(q, rd), m.kind = "Packet" => rd[m.id] > 0
    PROVE  CountedPackets(Append(q, m), rd)
BY AppendFacts DEF CountedPackets

LEMMA CountedRecv ==
    ASSUME NEW q \in Seq(ControlMessage), q # <<>>, NEW rd, CountedPackets(q, rd)
    PROVE  /\ CountedPackets(Tail(q), rd)
           /\ Head(q).kind = "Packet" => rd[Head(q).id] > 0
<1>1. /\ Len(q) \in Nat \ {0} /\ DOMAIN q = 1 .. Len(q)
      /\ DOMAIN Tail(q) = 1 .. Len(q) - 1
      /\ \A i \in 1 .. Len(q) - 1 : Tail(q)[i] = q[i + 1]
      /\ Head(q) = q[1]
  BY TailFacts
<1>2. \A i \in 1 .. Len(q) - 1 : i + 1 \in DOMAIN q
  BY <1>1
<1> QED
  BY <1>1, <1>2 DEF CountedPackets

LEMMA CountedLater ==
    ASSUME NEW q \in Seq(ControlMessage), NEW rd, NEW rd2, CountedPackets(q, rd),
           \A s \in SessionIds : rd[s] \in Nat /\ rd2[s] \in Nat /\ rd2[s] >= rd[s]
    PROVE  CountedPackets(q, rd2)
<1> SUFFICES ASSUME NEW i \in DOMAIN q, q[i].kind = "Packet" PROVE rd2[q[i].id] > 0
  BY DEF CountedPackets
<1>1. q[i] \in ControlMessage
  OBVIOUS
<1>2. q[i].id \in SessionIds
  BY <1>1, ControlMessages
<1> QED
  BY <1>2 DEF CountedPackets

\* A message to the control task about something else changes nothing.
LEMMA KeptSend ==
    ASSUME IInv, [Next]_vars, NEW t \in SessionIds, KeptSession(t),
           NEW m \in ControlMessage, SendControl(m), m # RemoveSession(t),
           sess'[t] = sess[t], UNCHANGED <<control, unauth>>
    PROVE  KeptSession(t)'
<1>1. controlQ \in Seq(ControlMessage) /\ reads'[t] >= reads[t]
      /\ reads[t] \in Nat /\ reads'[t] \in Nat
  BY ReadsGrow DEF IInv, TypeOK
<1>2. /\ Queued(controlQ', RemoveSession(t)) => Queued(controlQ, RemoveSession(t))
      /\ Queued(controlQ, AddSession(t)) => Queued(controlQ', AddSession(t))
  BY <1>1, QueuedAppend DEF SendControl
<1> QED
  BY <1>1, <1>2 DEF KeptSession

LEMMA KeptFrame ==
    ASSUME IInv, [Next]_vars, NEW t \in SessionIds, KeptSession(t),
           controlQ' = controlQ, UNCHANGED <<control, unauth>>,
           \/ sess'[t] = sess[t]
           \/ sess'[t] \in {"none", "handshake", "failed", "denied"}
              /\ sess[t] \in {"none", "handshake"}
           \/ sess[t] \in {"active", "sending"} /\ sess'[t] \in {"active", "sending"}
    PROVE  KeptSession(t)'
<1>1. reads'[t] >= reads[t] /\ reads[t] \in Nat /\ reads'[t] \in Nat
  BY ReadsGrow
<1> QED
  BY <1>1 DEF KeptSession, Queued

LEMMA KeptBySession ==
    ASSUME IInv, [Next]_vars, NEW s \in SessionIds, SessionTask(s),
           NEW t \in SessionIds, KeptSession(t), KeptSession(s)
    PROVE  KeptSession(t)'
<1>1. controlQ \in Seq(ControlMessage) /\ UNCHANGED <<control, unauth>>
  BY DEF IInv, TypeOK, SessionTask, VersionExchanged, VersionExchangeFailed, ReadRouted,
      ReadPing, ReadControl, Forward, Sent, ConnectionLost, KeepaliveExpired, SendFailed, Abort,
      DropSession, Graceful, controlVars
<1> sess \in [SessionIds -> {"none", "handshake", "active", "sending", "failed",
                             "denied", "aborted", "graceful"}]
  BY DEF IInv, TypeOK
<1>2. CASE VersionExchanged(s)
  <2>1. CASE t # s
    <3>1. SendControl(AddSession(s)) /\ sess'[t] = sess[t]
      BY <1>2, <2>1 DEF VersionExchanged
    <3> QED
      BY <1>1, <3>1, KeptSend, MessageTypes, Distinct
  <2>2. CASE t = s /\ control = "open"
    <3>1. controlQ' = Append(controlQ, AddSession(t)) /\ sess'[t] = "active"
          /\ sess[t] = "handshake"
      BY <1>2, <2>2 DEF VersionExchanged, SendControl
    <3>2. /\ Queued(controlQ', AddSession(t))
          /\ ~Queued(controlQ', RemoveSession(t))
      BY <1>1, <3>1, QueuedAppend, MessageTypes, Distinct DEF KeptSession
    <3> QED
      BY <3>1, <3>2 DEF KeptSession
  <2>3. CASE t = s /\ control # "open"
    <3>1. controlQ' = controlQ /\ sess'[t] = "denied" /\ sess[t] = "handshake"
      BY <1>2, <2>3 DEF VersionExchanged, SendControl
    <3> QED
      BY <1>1, <3>1, KeptFrame
  <2> QED
    BY <2>1, <2>2, <2>3
<1>3. CASE VersionExchangeFailed(s)
  <2>1. controlQ' = controlQ /\ (sess'[t] = sess[t] \/ (sess'[t] = "failed" /\ sess[t] = "handshake"))
    BY <1>3 DEF VersionExchangeFailed, queues
  <2> QED
    BY <1>1, <2>1, KeptFrame
<1>4. ASSUME NEW p \in Packets, ReadRouted(s, p) \/ ReadPing(s, p) PROVE KeptSession(t)'
  <2>1. controlQ' = controlQ /\ (sess'[t] = sess[t] \/ (sess'[t] = "sending" /\ sess[t] = "active"))
    BY <1>4 DEF ReadRouted, ReadPing, Read, queues
  <2> QED
    BY <1>1, <2>1, KeptFrame
<1>5. ASSUME NEW p \in Packets, ReadControl(s, p) PROVE KeptSession(t)'
  <2> DEFINE m == [kind |-> "Packet", id |-> s, packet |-> p]
  <2>1. m \in ControlMessage /\ m # RemoveSession(t)
    <3>1. m.kind = "Packet" /\ RemoveSession(t).kind = "RemoveSession"
      BY DEF RemoveSession
    <3> QED
      BY <3>1, MessageTypes
  <2>2. SendControl(m) /\ sess' = sess
    BY <1>5 DEF ReadControl
  <2> QED
    BY <1>1, <2>1, <2>2, KeptSend
<1>6. CASE Forward(s) \/ Sent(s)
  <2>1. controlQ' = controlQ /\ (sess'[t] = sess[t]
          \/ (sess'[t] \in {"active", "sending"} /\ sess[t] \in {"active", "sending"}))
    BY <1>6 DEF Forward, Sent, queues
  <2> QED
    BY <1>1, <2>1, KeptFrame
<1>7. ASSUME Abort(s) PROVE KeptSession(t)'
  <2>1. CASE t # s
    <3>1. SendControl(RemoveSession(s)) /\ sess'[t] = sess[t]
      BY <1>7, <2>1 DEF Abort, DropSession
    <3> QED
      BY <1>1, <2>1, <3>1, KeptSend, MessageTypes, Distinct
  <2>2. CASE t = s
    <3>1. sess'[t] = "aborted"
      BY <1>7, <2>2 DEF Abort, DropSession
    <3> QED
      BY <3>1 DEF KeptSession
  <2> QED
    BY <2>1, <2>2
<1>8. CASE Graceful(s)
  <2>1. controlQ' = controlQ /\ reads' = reads
    BY <1>8 DEF Graceful, queues
  <2>2. CASE t # s
    <3>1. sess'[t] = sess[t]
      BY <1>8, <2>2 DEF Graceful
    <3> QED
      BY <1>1, <2>1, <3>1, KeptFrame
  <2>3. CASE t = s
    <3>1. /\ sess'[t] = "graceful" /\ sess[t] = "active" /\ t \notin unauth
          /\ ~Queued(controlQ, AddSession(t))
      BY <1>8, <2>3 DEF Graceful, Held, Queued
    <3>2. reads[t] \in Nat
      BY DEF IInv, TypeOK
    <3> QED
      BY <1>1, <2>1, <3>1, <3>2 DEF KeptSession
  <2> QED
    BY <2>2, <2>3
<1> QED
  BY <1>2, <1>3, <1>4, <1>5, <1>6, <1>7, <1>8
  DEF SessionTask, ConnectionLost, KeepaliveExpired, SendFailed

LEMMA KeptByControl ==
    ASSUME IInv, CountedPackets(controlQ, reads), ControlTask,
           NEW t \in SessionIds, KeptSession(t)
    PROVE  KeptSession(t)'
<1>1. controlQ \in Seq(ControlMessage)
  BY DEF IInv, TypeOK
<1>2. UNCHANGED <<sess, reads>>
  BY DEF ControlTask, ControlPacket, ControlAddSession, ControlRemoveSession, ControlShutdown,
      ControlStop, sessionVars
<1> DEFINE h == Head(controlQ)
<1>3. ASSUME NEW k, ControlRecv(k)
      PROVE  /\ h.kind = k /\ h \in ControlMessage
             /\ Queued(controlQ, AddSession(t)) <=> Queued(controlQ', AddSession(t)) \/ AddSession(t) = h
             /\ Queued(controlQ, RemoveSession(t)) <=> Queued(controlQ', RemoveSession(t)) \/ RemoveSession(t) = h
             /\ k = "Packet" => reads[h.id] > 0
  <2>1. controlQ # <<>> /\ controlQ' = Tail(controlQ) /\ h.kind = k /\ h \in ControlMessage
    BY <1>3, ControlRecvType DEF ControlRecv, IInv
  <2> QED
    BY <1>1, <2>1, QueuedTail, CountedRecv
<1>4. AddSession(t).kind = "AddSession" /\ RemoveSession(t).kind = "RemoveSession"
      /\ AddSession(t).id = t /\ RemoveSession(t).id = t
  BY DEF AddSession, RemoveSession
<1>5. CASE ControlPacket
  <2>1. ControlRecv("Packet") /\ control' = control /\ unauth' \in {unauth, unauth \ {h.id}}
    BY <1>5 DEF ControlPacket
  <2>2. reads[t] \in Nat
    BY DEF IInv, TypeOK
  <2>3. t = h.id => reads[t] # 0
    BY <1>3, <2>1, <2>2
  <2>4. /\ Queued(controlQ, AddSession(t)) <=> Queued(controlQ', AddSession(t))
        /\ Queued(controlQ, RemoveSession(t)) <=> Queued(controlQ', RemoveSession(t))
    BY <1>3, <1>4, <2>1
  <2> QED
    BY <1>2, <2>1, <2>3, <2>4 DEF KeptSession
<1>6. CASE ControlAddSession
  <2>1. ControlRecv("AddSession") /\ control' = control /\ unauth' = unauth \cup {h.id}
    BY <1>6 DEF ControlAddSession
  <2>2. /\ Queued(controlQ, AddSession(t)) => Queued(controlQ', AddSession(t)) \/ t = h.id
        /\ Queued(controlQ', RemoveSession(t)) => Queued(controlQ, RemoveSession(t))
    BY <1>3, <1>4, <2>1
  <2> QED
    BY <1>2, <2>1, <2>2 DEF KeptSession
<1>7. CASE ControlRemoveSession
  <2>1. ControlRecv("RemoveSession") /\ control' = control /\ unauth' = unauth \ {h.id}
    BY <1>7 DEF ControlRemoveSession
  <2>2. h = RemoveSession(h.id)
    BY <1>3, <2>1, ControlMessages
  <2>3. /\ Queued(controlQ, AddSession(t)) <=> Queued(controlQ', AddSession(t))
        /\ Queued(controlQ', RemoveSession(t)) => Queued(controlQ, RemoveSession(t))
        /\ t = h.id => Queued(controlQ, RemoveSession(t))
    BY <1>3, <1>4, <2>1, <2>2
  <2> QED
    BY <1>2, <2>1, <2>3 DEF KeptSession
<1>8. CASE ControlShutdown
  <2>1. ControlRecv("Shutdown") /\ control' = "closing"
    BY <1>8 DEF ControlShutdown
  <2>2. Queued(controlQ', RemoveSession(t)) => Queued(controlQ, RemoveSession(t))
    BY <1>3, <2>1
  <2> QED
    BY <1>2, <2>1, <2>2 DEF KeptSession
<1>9. CASE ControlStop
  <2>1. controlQ' = <<>> /\ control' = "stopped"
    BY <1>9 DEF ControlStop
  <2>2. ~Queued(controlQ', RemoveSession(t))
    BY <2>1 DEF Queued
  <2> QED
    BY <2>1, <2>2 DEF KeptSession
<1> QED
  BY <1>5, <1>6, <1>7, <1>8, <1>9 DEF ControlTask

LEMMA CountedStep ==
    ASSUME IInv, [Next]_vars, CountedPackets(controlQ, reads)
    PROVE  CountedPackets(controlQ', reads')
<1>1. controlQ \in Seq(ControlMessage) /\ reads \in [SessionIds -> Nat]
  BY DEF IInv, TypeOK
<1>2. CountedPackets(controlQ, reads')
  BY <1>1, ReadsGrow, CountedLater
<1>3. CASE controlQ' = controlQ
  BY <1>2, <1>3
<1>4. ASSUME NEW m \in ControlMessage, SendControl(m), m.kind = "Packet" => reads'[m.id] > 0
      PROVE  CountedPackets(controlQ', reads')
  BY <1>1, <1>2, <1>4, CountedSend DEF SendControl
<1>5. ASSUME NEW k, ControlRecv(k) PROVE CountedPackets(controlQ', reads')
  BY <1>1, <1>2, <1>5, CountedRecv DEF ControlRecv
<1>6. ASSUME NEW s \in SessionIds, SessionTask(s) PROVE CountedPackets(controlQ', reads')
  <2>1. AddSession(s).kind # "Packet" /\ RemoveSession(s).kind # "Packet"
    BY DEF AddSession, RemoveSession
  <2>2. ASSUME NEW p \in Packets, ReadControl(s, p) PROVE CountedPackets(controlQ', reads')
    <3> DEFINE m == [kind |-> "Packet", id |-> s, packet |-> p]
    <3>1. SendControl(m) /\ m \in ControlMessage /\ m.id = s
      BY <2>2, MessageTypes DEF ReadControl
    <3>2. reads'[s] > 0
      BY <1>1, <2>2 DEF ReadControl, Read
    <3> QED
      BY <1>4, <3>1, <3>2
  <2>3. CASE VersionExchanged(s)
    BY <1>4, <2>1, <2>3, MessageTypes DEF VersionExchanged
  <2>4. ASSUME Abort(s) PROVE CountedPackets(controlQ', reads')
    BY <1>4, <2>1, <2>4, MessageTypes DEF Abort
  <2>5. ASSUME NEW p \in Packets, ReadRouted(s, p) \/ ReadPing(s, p)
        PROVE CountedPackets(controlQ', reads')
    BY <1>3, <2>5 DEF ReadRouted, ReadPing, queues
  <2>6. CASE VersionExchangeFailed(s) \/ Forward(s) \/ Sent(s) \/ Graceful(s)
    BY <1>3, <2>6 DEF VersionExchangeFailed, Forward, Sent, Graceful, queues
  <2> QED
    BY <1>6, <2>2, <2>3, <2>4, <2>5, <2>6
    DEF SessionTask, ConnectionLost, KeepaliveExpired, SendFailed
<1>7. CASE ControlTask
  <2>1. ControlStop => controlQ' = controlQ
    BY DEF ControlStop
  <2> QED
    BY <1>3, <1>5, <1>7, <2>1 DEF ControlTask, ControlPacket, ControlAddSession,
        ControlRemoveSession, ControlShutdown
<1>8. CASE AcceptStop \/ ListenerFailed
  <2>1. SendControl(Shutdown) /\ Shutdown \in ControlMessage /\ Shutdown.kind # "Packet"
    BY <1>8, MessageTypes DEF AcceptStop, ListenerFailed, LeaveLoop, Shutdown
  <2> QED
    BY <1>4, <2>1
<1>9. CASE NotifyStop \/ AcceptConnection \/ AcceptDone \/ RoutingTask \/ UNCHANGED vars
  BY <1>3, <1>9 DEF NotifyStop, AcceptConnection, AcceptDone, RoutingTask, RoutingVoice,
      RoutingText, RoutingUpdate, RoutingShutdown, RoutingStop, vars, queues
<1> QED
  BY <1>6, <1>7, <1>8, <1>9 DEF Next, AcceptTask, Ended

LEMMA KeptStep ==
    ASSUME IInv, Kept, [Next]_vars
    PROVE  Kept'
<1>1. CountedPackets(controlQ, reads) /\ \A s \in SessionIds : KeptSession(s)
  BY DEF Kept
<1>2. CountedPackets(controlQ', reads')
  BY <1>1, CountedStep
<1>3. ASSUME NEW t \in SessionIds PROVE KeptSession(t)'
  <2>1. KeptSession(t)
    BY <1>1
  <2>2. ASSUME NEW s \in SessionIds, SessionTask(s) PROVE KeptSession(t)'
    BY <1>1, <2>1, <2>2, KeptBySession
  <2>3. CASE ControlTask
    BY <1>1, <2>1, <2>3, KeptByControl
  <2>4. CASE AcceptStop \/ ListenerFailed
    <3>1. SendControl(Shutdown) /\ sess' = sess /\ UNCHANGED <<control, unauth>>
      BY <2>4 DEF AcceptStop, ListenerFailed, LeaveLoop, sessionVars, controlVars
    <3> QED
      BY <2>1, <3>1, KeptSend, Distinct, MessageTypes
  <2>5. CASE AcceptConnection
    <3>1. UNCHANGED <<control, controlQ, unauth>>
      BY <2>5 DEF AcceptConnection, controlVars, queues
    <3>2. t # accepted => sess'[t] = sess[t]
      BY <2>5 DEF AcceptConnection, IInv, TypeOK
    <3>3. t = accepted => sess[t] = "none" /\ sess'[t] = "handshake"
      BY <2>5, IdsAssumption DEF AcceptConnection, IInv, FreshIds, TypeOK
    <3> QED
      BY <2>1, <3>1, <3>2, <3>3, KeptFrame
  <2>6. CASE NotifyStop \/ AcceptDone \/ RoutingTask \/ UNCHANGED vars
    <3>1. UNCHANGED <<sess, control, controlQ, unauth>>
      BY <2>6 DEF NotifyStop, AcceptDone, RoutingTask, RoutingVoice, RoutingText, RoutingUpdate,
          RoutingShutdown, RoutingStop, vars, sessionVars, controlVars, queues
    <3> QED
      BY <2>1, <3>1, KeptFrame
  <2> QED
    BY <2>2, <2>3, <2>4, <2>5, <2>6 DEF Next, AcceptTask, Ended
<1> QED
  BY <1>2, <1>3 DEF Kept, CountedPackets

\* As long as the control task takes messages, a session whose client has sent
\* nothing keeps its sender: nothing the other sessions do makes it end.
THEOREM SilentSessionsKept == Spec => []DroppedOnlyForPacket
<1>1. Init => Kept
  BY DEF Init, Kept, CountedPackets, KeptSession, Queued
<1>2. IInv /\ Kept /\ [Next]_vars => Kept'
  BY KeptStep
<1>3. Kept => DroppedOnlyForPacket
  BY DEF Kept, KeptSession, DroppedOnlyForPacket
<1> QED
  BY InitIInv, NextIInv, <1>1, <1>2, <1>3, PTL DEF Spec

-----------------------------------------------------------------------------
(* What is on its way to a session *)

\* One sequence behind another.
LEMMA ConcatFacts ==
    ASSUME NEW S, NEW a \in Seq(S), NEW b \in Seq(S)
    PROVE  /\ a \o b \in Seq(S)
           /\ Len(a) \in Nat /\ Len(b) \in Nat
           /\ DOMAIN a = 1 .. Len(a) /\ DOMAIN b = 1 .. Len(b)
           /\ DOMAIN (a \o b) = 1 .. Len(a) + Len(b)
           /\ \A i \in DOMAIN a : i \in DOMAIN (a \o b) /\ (a \o b)[i] = a[i]
           /\ \A i \in DOMAIN b : Len(a) + i \in DOMAIN (a \o b) /\ (a \o b)[Len(a) + i] = b[i]
           /\ \A i \in DOMAIN (a \o b) :
                 \/ i \in DOMAIN a /\ i <= Len(a)
                 \/ i > Len(a) /\ i - Len(a) \in DOMAIN b /\ (a \o b)[i] = b[i - Len(a)]
OBVIOUS

\* Copies of a packet.
LEMMA RepeatFacts ==
    ASSUME NEW S, NEW p \in S, NEW k \in Nat
    PROVE  /\ Repeat(p, k) \in Seq(S)
           /\ DOMAIN Repeat(p, k) = 1 .. k
           /\ \A i \in 1 .. k : Repeat(p, k)[i] = p
BY DEF Repeat

\* The routing task takes the packet m at the head of its queue and sends
\* copies of it to session d.
Delivers(d, m) ==
    /\ routingQ # <<>> /\ m = Head(routingQ) /\ Routed(m)
    /\ routingQ' = Tail(routingQ) /\ reads' = reads
    /\ \E k \in Nat :
          /\ Inbound(d)' = Inbound(d) \o Repeat(Forwarded(m), k)
          /\ k > 0 => holds_session(view, d)
          /\ m.kind = "Voice" => k <= 1
          /\ m.kind = "Voice" /\ k > 0 => m.id # d /\ holds_session(view, m.id)

\* All that a step does to what is on its way to session d: nothing; the
\* front is written out, or all is dropped; a pong goes ahead of the rest; or
\* the routing task adds something behind.
LEMMA InboundStep ==
    ASSUME IInv, Idle, [Next]_vars, NEW d \in SessionIds
    PROVE  \/ Inbound(d)' = Inbound(d)
           \/ Inbound(d) = sending[d] \o Inbound(d)'
           \/ Inbound(d)' = <<>>
           \/ Inbound(d)' = <<[kind |-> "Pong", from |-> d, n |-> reads[d] + 1]>> \o Inbound(d)
           \/ \E m \in RoutingMessage : Delivers(d, m)
<1> USE DEF Inbound
<1>1. /\ sending \in [SessionIds -> Seq(Clientbound)] /\ sending[d] \in Seq(Clientbound)
      /\ sessionQ \in [SessionIds -> Seq(Clientbound)] /\ sessionQ[d] \in Seq(Clientbound)
      /\ reads[d] \in Nat
  BY DEF IInv, TypeOK
<1>2. /\ <<>> \o sessionQ[d] = sessionQ[d]
      /\ sessionQ[d] # <<>> => <<Head(sessionQ[d])>> \o Tail(sessionQ[d]) = sessionQ[d]
  BY <1>1
<1>3. ASSUME NEW s \in SessionIds, SessionTask(s)
      PROVE  \/ Inbound(d)' = Inbound(d)
             \/ Inbound(d) = sending[d] \o Inbound(d)'
             \/ Inbound(d)' = <<>>
             \/ Inbound(d)' = <<[kind |-> "Pong", from |-> d, n |-> reads[d] + 1]>> \o Inbound(d)
  <2>1. CASE s # d
    <3>1. sending'[d] = sending[d] /\ sessionQ'[d] = sessionQ[d]
      BY <1>1, <1>3, <2>1 DEF SessionTask, VersionExchanged, VersionExchangeFailed, ReadRouted,
          ReadPing, ReadControl, Forward, Sent, ConnectionLost, KeepaliveExpired, SendFailed,
          Abort, DropSession, Graceful, queues
    <3> QED
      BY <3>1
  <2>2. ASSUME NEW p \in Packets, ReadPing(d, p)
        PROVE  Inbound(d)' = <<[kind |-> "Pong", from |-> d, n |-> reads[d] + 1]>> \o Inbound(d)
    <3>1. sending[d] = <<>>
      BY <2>2 DEF ReadPing, Read, Idle
    <3>2. sending'[d] = <<[kind |-> "Pong", from |-> d, n |-> reads[d] + 1]>>
          /\ sessionQ'[d] = sessionQ[d]
      BY <1>1, <2>2 DEF ReadPing, queues
    <3> QED
      BY <1>2, <3>1, <3>2
  <2>3. CASE Forward(d)
    <3>1. sending[d] = <<>> /\ sessionQ[d] # <<>>
      BY <2>3 DEF Forward, Idle
    <3>2. sending'[d] = <<Head(sessionQ[d])>> /\ sessionQ'[d] = Tail(sessionQ[d])
      BY <1>1, <2>3 DEF Forward
    <3> QED
      BY <1>2, <3>1, <3>2
  <2>4. CASE Sent(d)
    <3>1. sending'[d] = <<>> /\ sessionQ'[d] = sessionQ[d]
      BY <1>1, <2>4 DEF Sent, queues
    <3> QED
      BY <1>1, <1>2, <3>1
  <2>5. ASSUME Abort(d) PROVE Inbound(d)' = <<>>
    <3>1. sending'[d] = <<>> /\ sessionQ'[d] = <<>>
      BY <1>1, <2>5 DEF Abort, DropSession
    <3> QED
      BY <3>1
  <2>6. ASSUME \/ VersionExchanged(d) \/ VersionExchangeFailed(d) \/ Graceful(d)
               \/ \E p \in Packets : ReadRouted(d, p) \/ ReadControl(d, p)
        PROVE  Inbound(d)' = Inbound(d)
    BY <2>6 DEF VersionExchanged, VersionExchangeFailed, Graceful, ReadRouted, ReadControl, queues
  <2> QED
    BY <1>3, <2>1, <2>2, <2>3, <2>4, <2>5, <2>6
    DEF SessionTask, ConnectionLost, KeepaliveExpired, SendFailed
<1>4. CASE UNCHANGED <<sending, sessionQ>>
  BY <1>4
<1>5. CASE NotifyStop \/ AcceptTask \/ ControlTask \/ UNCHANGED vars
           \/ RoutingUpdate \/ RoutingShutdown \/ RoutingStop
  BY <1>4, <1>5 DEF NotifyStop, AcceptTask, AcceptConnection, AcceptStop, ListenerFailed,
      LeaveLoop, AcceptDone, ControlTask, ControlPacket, ControlAddSession, ControlRemoveSession,
      ControlShutdown, ControlStop, RoutingUpdate, RoutingShutdown, RoutingStop, vars,
      sessionVars, queues
<1> DEFINE m == Head(routingQ)
<1>6. ASSUME NEW copies \in [SessionIds -> Nat], Deliver(copies, Forwarded(m)),
             sending' = sending, Forwarded(m) \in Clientbound
      PROVE  \E k \in {0, copies[d]} : Inbound(d)' = Inbound(d) \o Repeat(Forwarded(m), k)
  <2> DEFINE p == Forwarded(m)
  <2>1. copies[d] \in Nat /\ 0 \in Nat
    BY <1>6
  <2>2. CASE Alive(d)
    <3>1. Repeat(p, copies[d]) \in Seq(Clientbound)
      BY <1>6, <2>1, RepeatFacts
    <3>2. sessionQ'[d] = sessionQ[d] \o Repeat(p, copies[d]) /\ sending'[d] = sending[d]
      BY <1>6, <2>2 DEF Deliver
    <3>3. sending[d] \o (sessionQ[d] \o Repeat(p, copies[d]))
            = (sending[d] \o sessionQ[d]) \o Repeat(p, copies[d])
      <4> DEFINE a == sending[d]
                 b == sessionQ[d]
                 c == Repeat(p, copies[d])
      <4>1. a \in Seq(Clientbound) /\ b \in Seq(Clientbound) /\ c \in Seq(Clientbound)
        BY <1>1, <3>1
      <4> HIDE DEF a, b, c
      <4>2. a \o (b \o c) = (a \o b) \o c
        BY <4>1
      <4> QED
        BY <4>2 DEF a, b, c
    <3> QED
      BY <3>2, <3>3
  <2>3. CASE ~Alive(d)
    <3>1. sessionQ'[d] = sessionQ[d] /\ sending'[d] = sending[d]
      BY <1>6, <2>3 DEF Deliver
    <3>2. Repeat(p, 0) = <<>>
      BY DEF Repeat
    <3>3. (sending[d] \o sessionQ[d]) \o <<>> = sending[d] \o sessionQ[d]
      BY <1>1
    <3> QED
      BY <3>1, <3>2, <3>3
  <2> QED
    BY <2>2, <2>3
<1>7. CASE RoutingVoice
  <2>1. /\ RoutingRecv("Voice") /\ routingQ # <<>> /\ routingQ' = Tail(routingQ)
        /\ reads' = reads /\ sending' = sending
    BY <1>7 DEF RoutingVoice, RoutingRecv, sessionVars
  <2>2. m \in RoutingMessage /\ m.kind = "Voice" /\ m.id \in SessionIds /\ m.n \in Nat
    BY <2>1, RoutingRecvType, RoutingMessages DEF IInv
  <2> DEFINE copies == [e \in SessionIds |-> IF e \in target_senders(view, m.id) THEN 1 ELSE 0]
  <2>3. Forwarded(m) = [kind |-> "Voice", from |-> m.id, n |-> m.n]
        /\ Forwarded(m) \in Clientbound /\ Routed(m) /\ copies \in [SessionIds -> Nat]
    BY <2>2 DEF Forwarded, Clientbound, Routed
  <2>4. \/ UNCHANGED sessionQ
        \/ holds_session(view, m.id) /\ Deliver(copies, Forwarded(m))
    BY <1>7, <2>3 DEF RoutingVoice
  <2>5. ASSUME holds_session(view, m.id), Deliver(copies, Forwarded(m)) PROVE Delivers(d, m)
    <3>1. copies[d] \in {0, 1} /\ (copies[d] # 0 => d # m.id /\ holds_session(view, d))
      BY DEF target_senders, room_senders
    <3> HIDE DEF copies
    <3>2. PICK k \in {0, copies[d]} : Inbound(d)' = Inbound(d) \o Repeat(Forwarded(m), k)
      BY <1>6, <2>1, <2>3, <2>5
    <3>3. k \in Nat /\ k <= 1 /\ (k > 0 => d # m.id /\ holds_session(view, d))
      BY <3>1
    <3> QED
      BY <2>1, <2>3, <2>5, <3>2, <3>3 DEF Delivers
  <2> QED
    BY <1>4, <2>1, <2>2, <2>4, <2>5
<1>8. CASE RoutingText
  <2>1. /\ RoutingRecv("Text") /\ routingQ # <<>> /\ routingQ' = Tail(routingQ)
        /\ reads' = reads /\ sending' = sending
    BY <1>8 DEF RoutingText, RoutingRecv, sessionVars
  <2>2. m \in RoutingMessage /\ m.kind = "Text" /\ m.id \in SessionIds /\ m.n \in Nat
    BY <2>1, RoutingRecvType, RoutingMessages DEF IInv
  <2>3. Forwarded(m) = [kind |-> "Text", from |-> m.id, n |-> m.n]
        /\ Forwarded(m) \in Clientbound /\ Routed(m)
    BY <2>2 DEF Forwarded, Clientbound, Routed
  <2>4. PICK copies \in [SessionIds -> Nat] :
           Deliver(copies, Forwarded(m)) /\ (copies[d] # 0 => holds_session(view, d))
    BY <1>8, <2>3, TextCopies DEF IInv
  <2>5. PICK k \in {0, copies[d]} : Inbound(d)' = Inbound(d) \o Repeat(Forwarded(m), k)
    BY <1>6, <2>1, <2>3, <2>4
  <2>6. k \in Nat /\ (k > 0 => holds_session(view, d)) /\ m.kind # "Voice"
    BY <2>2, <2>4
  <2> QED
    BY <2>1, <2>2, <2>3, <2>5, <2>6 DEF Delivers
<1> QED
  BY <1>3, <1>5, <1>7, <1>8 DEF Next, Ended, RoutingTask

\* A session task is not interrupted while it writes.
LEMMA IdleStep ==
    ASSUME IInv, Idle, [Next]_vars
    PROVE  Idle'
<1> SUFFICES ASSUME NEW d \in SessionIds, sess'[d] # "sending" PROVE sending'[d] = <<>>
  BY DEF Idle
<1>1. /\ sending \in [SessionIds -> Seq(Clientbound)]
      /\ sess \in [SessionIds -> {"none", "handshake", "active", "sending", "failed",
                                  "denied", "aborted", "graceful"}]
  BY DEF IInv, TypeOK
<1>2. ASSUME sess[d] # "sending", sending'[d] = sending[d] PROVE sending'[d] = <<>>
  BY <1>2 DEF Idle
<1>3. CASE UNCHANGED <<sess, sending>>
  BY <1>2, <1>3
<1>4. CASE NotifyStop \/ AcceptStop \/ ListenerFailed \/ AcceptDone \/ ControlTask
           \/ RoutingTask \/ UNCHANGED vars
  BY <1>3, <1>4 DEF NotifyStop, AcceptStop, ListenerFailed,
      LeaveLoop, AcceptDone, ControlTask, ControlPacket, ControlAddSession, ControlRemoveSession,
      ControlShutdown, ControlStop, RoutingTask, RoutingVoice, RoutingText, RoutingUpdate,
      RoutingShutdown, RoutingStop, vars, sessionVars
<1>5. CASE AcceptConnection
  <2>1. sess[accepted] = "none" /\ sending' = sending
        /\ sess' = [sess EXCEPT ![accepted] = "handshake"] /\ accepted \in SessionIds
    BY <1>5, IdsAssumption DEF AcceptConnection, IInv, FreshIds, TypeOK
  <2>2. sess[d] # "sending"
    BY <1>1, <2>1
  <2> QED
    BY <1>2, <2>1, <2>2
<1>6. ASSUME NEW s \in SessionIds, SessionTask(s) PROVE sending'[d] = <<>>
  <2>1. CASE s # d
    <3>1. sending'[d] = sending[d] /\ sess'[d] = sess[d]
      BY <1>1, <1>6, <2>1 DEF SessionTask, VersionExchanged, VersionExchangeFailed, ReadRouted,
          ReadPing, ReadControl, Forward, Sent, ConnectionLost, KeepaliveExpired, SendFailed,
          Abort, DropSession, Graceful
    <3> QED
      BY <1>2, <3>1
  <2>2. ASSUME NEW p \in Packets, ReadPing(d, p) PROVE FALSE
    BY <1>1, <2>2 DEF ReadPing
  <2>3. CASE Forward(d)
    BY <1>1, <2>3 DEF Forward
  <2>4. ASSUME Sent(d) \/ Abort(d) PROVE sending'[d] = <<>>
    BY <1>1, <2>4 DEF Sent, Abort, DropSession
  <2>5. ASSUME \/ VersionExchanged(d) \/ VersionExchangeFailed(d) \/ Graceful(d)
               \/ \E p \in Packets : ReadRouted(d, p) \/ ReadControl(d, p)
        PROVE  sending'[d] = <<>>
    BY <1>2, <2>5 DEF VersionExchanged, VersionExchangeFailed, Graceful, ReadRouted, ReadControl,
        Read
  <2> QED
    BY <1>6, <2>1, <2>2, <2>3, <2>4, <2>5
    DEF SessionTask, ConnectionLost, KeepaliveExpired, SendFailed
<1> QED
  BY <1>4, <1>5, <1>6 DEF Next, AcceptTask, Ended

LEMMA InitIdle == Init => Idle
BY DEF Init, Idle

\* The sequences are of packets.
LEMMA InboundType ==
    ASSUME TypeOK, NEW d \in SessionIds
    PROVE  Inbound(d) \in Seq(Clientbound) /\ sending[d] \in Seq(Clientbound)
<1>1. sending[d] \in Seq(Clientbound) /\ sessionQ[d] \in Seq(Clientbound)
  BY DEF TypeOK
<1> QED
  BY <1>1 DEF Inbound

-----------------------------------------------------------------------------
(* Only sessions that were let in are sent anything *)

\* Only reading a packet for the control task changes what is remembered of a
\* session's first one, and nothing does twice.
LEMMA GreetingKept ==
    ASSUME IInv, [Next]_vars, NEW t \in SessionIds,
           greeting[t] # "none" \/ ~\E p \in Packets : ReadControl(t, p)
    PROVE  greeting'[t] = greeting[t]
<1>1. greeting \in [SessionIds -> {"none", "Authenticate", "Other"}]
  BY DEF IInv, TypeOK
<1>2. CASE greeting' = greeting
  BY <1>2
<1>3. ASSUME NEW s \in SessionIds, NEW p \in Packets, ReadControl(s, p)
      PROVE  greeting'[t] = greeting[t]
  <2>1. greeting' = [greeting EXCEPT ![s] =
                        IF control = "open" /\ greeting[s] = "none" THEN p.kind ELSE greeting[s]]
    BY <1>3 DEF ReadControl
  <2>2. s = t => greeting[s] # "none"
    BY <1>3
  <2> QED
    BY <1>1, <2>1, <2>2
<1>4. ASSUME NEW s \in SessionIds, SessionTask(s), ~\E p \in Packets : ReadControl(s, p)
      PROVE  greeting' = greeting
  BY <1>4 DEF SessionTask, VersionExchanged, VersionExchangeFailed, ReadRouted, ReadPing,
      Forward, Sent, ConnectionLost, KeepaliveExpired, SendFailed, Abort, DropSession, Graceful
<1>5. CASE NotifyStop \/ AcceptTask \/ ControlTask \/ RoutingTask \/ UNCHANGED vars
  <2>1. greeting' = greeting
    BY <1>5 DEF NotifyStop, AcceptTask, AcceptConnection, AcceptStop, ListenerFailed, LeaveLoop,
        AcceptDone, ControlTask, ControlPacket, ControlAddSession, ControlRemoveSession,
        ControlShutdown, ControlStop, RoutingTask, RoutingVoice, RoutingText, RoutingUpdate,
        RoutingShutdown, RoutingStop, vars, sessionVars
  <2> QED
    BY <1>2, <2>1
<1> QED
  BY <1>2, <1>3, <1>4, <1>5 DEF Next, Ended

\* Who has been let in once is never a stranger again: a session declares
\* itself once.
LEMMA PastStable ==
    ASSUME IInv, [Next]_vars, NEW s \in SessionIds, Past(s)
    PROVE  Past(s)'
<1>1. /\ controlQ \in Seq(ControlMessage)
      /\ sess \in [SessionIds -> {"none", "handshake", "active", "sending", "failed",
                                  "denied", "aborted", "graceful"}]
      /\ ~Queued(controlQ, AddSession(s)) /\ s \notin unauth
      /\ sess[s] \notin {"none", "handshake"}
  BY DEF IInv, TypeOK, Past, Enrolled
<1>2. SUFFICES /\ ~Queued(controlQ', AddSession(s)) /\ s \notin unauth'
               /\ sess'[s] \notin {"none", "handshake"}
  <2>1. greeting'[s] = "Authenticate"
    BY GreetingKept DEF Past, Enrolled
  <2> QED
    BY <2>1 DEF Past, Enrolled
<1>3. ASSUME NEW m \in ControlMessage, SendControl(m), m # AddSession(s)
      PROVE  ~Queued(controlQ', AddSession(s))
  BY <1>1, <1>3, QueuedAppend DEF SendControl
<1>4. ASSUME NEW k, ControlRecv(k)
      PROVE  /\ ~Queued(controlQ', AddSession(s)) /\ AddSession(s) # Head(controlQ)
             /\ Head(controlQ) \in ControlMessage /\ Head(controlQ).kind = k
  <2>1. controlQ # <<>> /\ controlQ' = Tail(controlQ)
    BY <1>4 DEF ControlRecv
  <2> QED
    BY <1>1, <1>4, <2>1, QueuedTail, ControlRecvType DEF IInv
<1>5. ASSUME NEW t \in SessionIds, SessionTask(t)
      PROVE  /\ ~Queued(controlQ', AddSession(s)) /\ s \notin unauth'
             /\ sess'[s] \notin {"none", "handshake"}
  <2>1. s \notin unauth' /\ sess'[s] \notin {"none", "handshake"}
    BY <1>1, <1>5 DEF SessionTask, VersionExchanged, VersionExchangeFailed, ReadRouted,
        ReadPing, ReadControl, Forward, Sent, ConnectionLost, KeepaliveExpired, SendFailed,
        Abort, DropSession, Graceful, controlVars
  <2>2. CASE VersionExchanged(t)
    <3>1. t # s /\ SendControl(AddSession(t))
      BY <1>1, <2>2 DEF VersionExchanged
    <3> QED
      BY <1>3, <2>1, <3>1, MessageTypes, Distinct
  <2>3. ASSUME NEW p \in Packets, ReadControl(t, p) PROVE ~Queued(controlQ', AddSession(s))
    <3> DEFINE m == [kind |-> "Packet", id |-> t, packet |-> p]
    <3>1. m \in ControlMessage /\ SendControl(m)
      BY <2>3, MessageTypes DEF ReadControl
    <3>2. m.kind = "Packet" /\ AddSession(s).kind = "AddSession"
      BY DEF AddSession
    <3> QED
      BY <1>3, <3>1, <3>2
  <2>4. ASSUME Abort(t) PROVE ~Queued(controlQ', AddSession(s))
    BY <1>3, <2>4, MessageTypes, Distinct DEF Abort
  <2>5. ASSUME \/ VersionExchangeFailed(t) \/ Graceful(t) \/ Forward(t) \/ Sent(t)
               \/ \E p \in Packets : ReadRouted(t, p) \/ ReadPing(t, p)
        PROVE  ~Queued(controlQ', AddSession(s))
    <3>1. controlQ' = controlQ
      BY <2>5 DEF VersionExchangeFailed, Graceful, Forward, Sent, ReadRouted, ReadPing, queues
    <3> QED
      BY <1>1, <3>1
  <2> QED
    BY <1>5, <2>1, <2>2, <2>3, <2>4, <2>5
    DEF SessionTask, ConnectionLost, KeepaliveExpired, SendFailed
<1>6. CASE ControlTask
  <2>1. sess' = sess
    BY <1>6 DEF ControlTask, ControlPacket, ControlAddSession, ControlRemoveSession,
        ControlShutdown, ControlStop, sessionVars
  <2>2. CASE ControlPacket \/ ControlRemoveSession \/ ControlShutdown
    BY <1>1, <1>4, <2>1, <2>2 DEF ControlPacket, ControlRemoveSession, ControlShutdown
  <2>3. CASE ControlAddSession
    <3>1. ControlRecv("AddSession") /\ unauth' = unauth \cup {Head(controlQ).id}
      BY <2>3 DEF ControlAddSession
    <3>2. Head(controlQ) = AddSession(Head(controlQ).id)
      BY <1>4, <3>1, ControlMessages
    <3>3. s # Head(controlQ).id
      BY <1>4, <3>1, <3>2
    <3> QED
      BY <1>1, <1>4, <2>1, <3>1, <3>3
  <2>4. CASE ControlStop
    BY <1>1, <2>1, <2>4 DEF ControlStop
  <2> QED
    BY <1>6, <2>2, <2>3, <2>4 DEF ControlTask
<1>7. CASE AcceptConnection
  <2>1. sess[accepted] = "none" /\ accepted \in SessionIds
    BY <1>7, IdsAssumption DEF AcceptConnection, IInv, FreshIds, TypeOK
  <2>2. sess'[s] = sess[s] /\ UNCHANGED <<controlQ, unauth>>
    BY <1>1, <1>7, <2>1 DEF AcceptConnection, controlVars, queues
  <2> QED
    BY <1>1, <2>2
<1>8. CASE AcceptStop \/ ListenerFailed
  <2>1. SendControl(Shutdown) /\ UNCHANGED <<sess, unauth>>
    BY <1>8 DEF AcceptStop, ListenerFailed, LeaveLoop, sessionVars, controlVars
  <2> QED
    BY <1>1, <1>3, <2>1, MessageTypes, Distinct
<1>9. CASE NotifyStop \/ AcceptDone \/ RoutingTask \/ UNCHANGED vars
  <2>1. UNCHANGED <<sess, controlQ, unauth>>
    BY <1>9 DEF NotifyStop, AcceptDone, RoutingTask, RoutingVoice, RoutingText, RoutingUpdate,
        RoutingShutdown, RoutingStop, vars, sessionVars, controlVars, queues
  <2> QED
    BY <1>1, <2>1
<1> QED
  BY <1>5, <1>6, <1>7, <1>8, <1>9 DEF Next, AcceptTask, Ended

\* Nothing that matters to session t changes.
LEMMA GreetingFrame ==
    ASSUME IInv, [Next]_vars, NEW t \in SessionIds, Greeting(t),
           controlQ' = controlQ, unauth' = unauth, greeting'[t] = greeting[t],
           sess'[t] \in {"none", "handshake"} => sess[t] \in {"none", "handshake"}
    PROVE  Greeting(t)'
BY DEF Greeting, Waiting, Queued

\* The control task is sent something else than t's declaration or packet.
LEMMA GreetingSend ==
    ASSUME IInv, [Next]_vars, NEW t \in SessionIds, Greeting(t),
           NEW m \in ControlMessage, SendControl(m), m # AddSession(t), ~IsFrom(m, t),
           unauth' = unauth, greeting'[t] = greeting[t],
           sess'[t] \in {"none", "handshake"} => sess[t] \in {"none", "handshake"}
    PROVE  Greeting(t)'
<1>1. controlQ \in Seq(ControlMessage)
  BY DEF IInv, TypeOK
<1>2. CASE controlQ' = controlQ
  BY <1>2, GreetingFrame
<1>3. CASE controlQ' = Append(controlQ, m)
  <2>1. /\ \A i \in DOMAIN controlQ : i \in DOMAIN controlQ' /\ controlQ'[i] = controlQ[i]
        /\ \A i \in DOMAIN controlQ' : i \in DOMAIN controlQ \/ controlQ'[i] = m
    BY <1>1, <1>3, AppendFacts
  <2>2. \A i \in DOMAIN controlQ' :
           IsFrom(controlQ'[i], t) \/ controlQ'[i] = AddSession(t)
              => i \in DOMAIN controlQ /\ controlQ'[i] = controlQ[i]
    BY <2>1
  <2>3. Waiting(t)' => Waiting(t)
    BY <2>2 DEF Waiting, Queued
  <2>4. Greets(controlQ, t, greeting[t]) => Greets(controlQ', t, greeting[t])
    BY <2>1, <2>2 DEF Greets
  <2> QED
    BY <2>2, <2>3, <2>4 DEF Greeting
<1> QED
  BY <1>2, <1>3 DEF SendControl

\* t declares itself: it has sent nothing yet.
LEMMA GreetingDeclare ==
    ASSUME IInv, [Next]_vars, NEW t \in SessionIds, Greeting(t), VersionExchanged(t)
    PROVE  Greeting(t)'
<1>1. /\ controlQ \in Seq(ControlMessage) /\ sess[t] = "handshake" /\ greeting' = greeting
      /\ AddSession(t) \in ControlMessage /\ ~IsFrom(AddSession(t), t)
      /\ controlQ' = controlQ \/ controlQ' = Append(controlQ, AddSession(t))
  BY MessageTypes DEF IInv, TypeOK, VersionExchanged, SendControl, AddSession, IsFrom
<1>2. greeting[t] = "none" /\ \A i \in DOMAIN controlQ : ~IsFrom(controlQ[i], t)
  BY <1>1 DEF Greeting
<1>3. \A i \in DOMAIN controlQ' : ~IsFrom(controlQ'[i], t)
  BY <1>1, <1>2, AppendFacts
<1> QED
  BY <1>1, <1>2, <1>3 DEF Greeting, Greets

\* A packet of t's goes to the control task: it is the first, or there is one.
LEMMA GreetingRead ==
    ASSUME IInv, [Next]_vars, NEW t \in SessionIds, Greeting(t), NEW p \in Packets,
           ReadControl(t, p)
    PROVE  Greeting(t)'
<1> DEFINE m == [kind |-> "Packet", id |-> t, packet |-> p]
<1>1. /\ controlQ \in Seq(ControlMessage) /\ unauth' = unauth /\ sess' = sess
      /\ sess[t] = "active" /\ greeting \in [SessionIds -> {"none", "Authenticate", "Other"}]
  BY DEF IInv, TypeOK, ReadControl, Read, controlVars
<1>2. /\ greeting'[t] = IF control = "open" /\ greeting[t] = "none" THEN p.kind ELSE greeting[t]
      /\ p.kind # "none" /\ SendControl(m)
  BY <1>1 DEF ReadControl
<1>3. CASE control # "open"
  <2>1. controlQ' = controlQ /\ greeting'[t] = greeting[t]
    BY <1>2, <1>3 DEF SendControl
  <2> QED
    BY <1>1, <2>1, GreetingFrame
<1>4. CASE control = "open"
  <2> DEFINE last == Len(controlQ) + 1
  <2>1. m \in ControlMessage /\ IsFrom(m, t) /\ m.packet.kind = p.kind /\ m # AddSession(t)
    <3>1. m.kind = "Packet" /\ AddSession(t).kind = "AddSession"
      BY DEF AddSession
    <3> QED
      BY <3>1, MessageTypes DEF IsFrom
  <2>2. controlQ' = Append(controlQ, m)
    BY <1>2, <1>4 DEF SendControl
  <2> HIDE DEF m
  <2>3. /\ \A i \in DOMAIN controlQ : /\ i \in DOMAIN controlQ' /\ controlQ'[i] = controlQ[i]
                                      /\ i < last
        /\ \A i \in DOMAIN controlQ' : i \in DOMAIN controlQ \/ i = last
        /\ last \in DOMAIN controlQ' /\ controlQ'[last] = m
    BY <1>1, <2>1, <2>2, AppendFacts
  <2> HIDE DEF last
  <2>4. greeting'[t] # "none"
    BY <1>2, <1>4
  <2>5. Waiting(t)' => Waiting(t)
    BY <1>1, <2>1, <2>3 DEF Waiting, Queued
  <2>6. ASSUME Greets(controlQ, t, greeting[t]) PROVE Greets(controlQ', t, greeting'[t])
    <3>1. \E i \in DOMAIN controlQ' : IsFrom(controlQ'[i], t)
      BY <2>1, <2>3
    <3>2. ASSUME NEW i \in DOMAIN controlQ', IsFrom(controlQ'[i], t)
          PROVE  \/ controlQ'[i].packet.kind = greeting'[t]
                 \/ \E j \in DOMAIN controlQ' : j < i /\ IsFrom(controlQ'[j], t)
      <4>1. CASE greeting[t] = "none"
        <5>1. \A j \in DOMAIN controlQ : ~IsFrom(controlQ[j], t)
          BY <4>1 DEF Greeting
        <5>2. i = last
          BY <2>3, <3>2, <5>1
        <5> QED
          BY <1>2, <1>4, <2>1, <2>3, <4>1, <5>2
      <4>2. CASE greeting[t] # "none" /\ i = last
        BY <2>3, <2>6, <4>2 DEF Greets
      <4>3. CASE greeting[t] # "none" /\ i \in DOMAIN controlQ
        BY <1>2, <2>3, <2>6, <3>2, <4>3 DEF Greets
      <4> QED
        BY <2>3, <4>1, <4>2, <4>3
    <3> QED
      BY <3>1, <3>2 DEF Greets
  <2>7. ASSUME NEW i \in DOMAIN controlQ', NEW j \in DOMAIN controlQ',
               controlQ'[i] = AddSession(t), IsFrom(controlQ'[j], t)
        PROVE  i < j
    <3>1. i \in DOMAIN controlQ /\ controlQ[i] = AddSession(t)
      BY <2>1, <2>3, <2>7
    <3>2. CASE j = last
      BY <2>3, <3>1, <3>2
    <3>3. CASE j \in DOMAIN controlQ
      BY <2>3, <2>7, <3>1, <3>3 DEF Greeting
    <3> QED
      BY <2>3, <3>2, <3>3
  <2> QED
    BY <1>1, <2>4, <2>5, <2>6, <2>7 DEF Greeting
<1> QED
  BY <1>3, <1>4

\* The control task takes a message that is not a packet of t's.
LEMMA GreetingOther ==
    ASSUME IInv, [Next]_vars, NEW t \in SessionIds, Greeting(t), NEW k, ControlRecv(k),
           ~IsFrom(Head(controlQ), t), Waiting(t)' => Waiting(t),
           sess' = sess, greeting' = greeting
    PROVE  Greeting(t)'
<1>1. /\ controlQ # <<>> /\ controlQ' = Tail(controlQ) /\ controlQ \in Seq(ControlMessage)
  BY DEF ControlRecv, IInv, TypeOK
<1>2. /\ \A i \in DOMAIN controlQ' :
            i \in Nat /\ i + 1 \in DOMAIN controlQ /\ controlQ'[i] = controlQ[i + 1]
      /\ \A i \in DOMAIN controlQ :
            /\ i \in Nat
            /\ \/ i = 1 /\ controlQ[i] = Head(controlQ)
               \/ i - 1 \in DOMAIN controlQ' /\ controlQ'[i - 1] = controlQ[i]
  BY <1>1, TailFacts
<1>3. \A i \in DOMAIN controlQ : IsFrom(controlQ[i], t) =>
         i - 1 \in DOMAIN controlQ' /\ IsFrom(controlQ'[i - 1], t)
  BY <1>2
<1>4. ASSUME Greets(controlQ, t, greeting[t]) PROVE Greets(controlQ', t, greeting[t])
  <2>1. greeting[t] # "none" => \E i \in DOMAIN controlQ' : IsFrom(controlQ'[i], t)
    BY <1>3, <1>4 DEF Greets
  <2>2. ASSUME NEW i \in DOMAIN controlQ', IsFrom(controlQ'[i], t)
        PROVE  \/ controlQ'[i].packet.kind = greeting[t]
               \/ \E j \in DOMAIN controlQ' : j < i /\ IsFrom(controlQ'[j], t)
    <3>1. i + 1 \in DOMAIN controlQ /\ controlQ'[i] = controlQ[i + 1] /\ i \in Nat
      BY <1>2
    <3>2. ASSUME NEW j \in DOMAIN controlQ, j < i + 1, IsFrom(controlQ[j], t)
          PROVE  \E l \in DOMAIN controlQ' : l < i /\ IsFrom(controlQ'[l], t)
      <4>1. j - 1 \in DOMAIN controlQ' /\ IsFrom(controlQ'[j - 1], t) /\ j - 1 < i
        BY <1>2, <1>3, <3>1, <3>2
      <4> QED
        BY <4>1
    <3> QED
      BY <1>4, <2>2, <3>1, <3>2 DEF Greets
  <2> QED
    BY <2>1, <2>2 DEF Greets
<1>5. ASSUME NEW i \in DOMAIN controlQ', NEW j \in DOMAIN controlQ',
             controlQ'[i] = AddSession(t), IsFrom(controlQ'[j], t)
      PROVE  i < j
  <2>1. i + 1 < j + 1 /\ i \in Nat /\ j \in Nat
    BY <1>2, <1>5 DEF Greeting
  <2> QED
    BY <2>1
<1>6. greeting[t] = "none" => \A i \in DOMAIN controlQ' : ~IsFrom(controlQ'[i], t)
  BY <1>2 DEF Greeting
<1> QED
  BY <1>4, <1>5, <1>6 DEF Greeting

\* The control task takes the first packet of t's: t waits no longer.
LEMMA GreetingTaken ==
    ASSUME IInv, [Next]_vars, NEW t \in SessionIds, Greeting(t), ControlPacket,
           IsFrom(Head(controlQ), t)
    PROVE  Greeting(t)'
<1>1. /\ controlQ # <<>> /\ controlQ' = Tail(controlQ) /\ controlQ \in Seq(ControlMessage)
      /\ Head(controlQ).id = t /\ sess' = sess /\ greeting' = greeting
  BY DEF ControlPacket, ControlRecv, IInv, TypeOK, IsFrom, sessionVars
<1>2. /\ \A i \in DOMAIN controlQ' :
            i \in Nat /\ i + 1 \in DOMAIN controlQ /\ controlQ'[i] = controlQ[i + 1]
      /\ 1 \in DOMAIN controlQ /\ controlQ[1] = Head(controlQ)
      /\ \A i \in DOMAIN controlQ : ~(i < 1)
  BY <1>1, TailFacts
<1>3. ~Queued(controlQ, AddSession(t))
  BY <1>2 DEF Greeting, Queued
<1>4. ~Queued(controlQ', AddSession(t))
  BY <1>1, <1>3, QueuedTail
<1>5. t \notin unauth'
  <2>1. holds_session(rtbl, t) => t \notin unauth
    BY DEF IInv, Registration
  <2> QED
    BY <1>1, <2>1 DEF ControlPacket
<1>6. greeting[t] # "none"
  BY <1>2 DEF Greeting
<1>7. ASSUME NEW i \in DOMAIN controlQ' PROVE controlQ'[i] # AddSession(t)
  BY <1>4, <1>7 DEF Queued
<1> QED
  BY <1>1, <1>4, <1>5, <1>6, <1>7 DEF Greeting, Waiting

LEMMA GreetingByControl ==
    ASSUME IInv, [Next]_vars, NEW t \in SessionIds, Greeting(t), ControlTask
    PROVE  Greeting(t)'
<1>1. /\ controlQ \in Seq(ControlMessage) /\ sess' = sess /\ greeting' = greeting
  BY DEF IInv, TypeOK, ControlTask, ControlPacket, ControlAddSession, ControlRemoveSession,
      ControlShutdown, ControlStop, sessionVars
<1>2. ASSUME NEW k, ControlRecv(k)
      PROVE  /\ Head(controlQ) \in ControlMessage /\ Head(controlQ).kind = k
             /\ Queued(controlQ', AddSession(t)) => Queued(controlQ, AddSession(t))
             /\ Head(controlQ) = AddSession(t) => Queued(controlQ, AddSession(t))
  <2>1. controlQ # <<>> /\ controlQ' = Tail(controlQ)
    BY <1>2 DEF ControlRecv
  <2> QED
    BY <1>1, <1>2, <2>1, QueuedTail, ControlRecvType DEF IInv
<1>3. CASE ControlPacket
  <2>1. CASE IsFrom(Head(controlQ), t)
    BY <1>3, <2>1, GreetingTaken
  <2>2. CASE ~IsFrom(Head(controlQ), t)
    <3>1. ControlRecv("Packet") /\ unauth' \subseteq unauth
      BY <1>3 DEF ControlPacket
    <3>2. Waiting(t)' => Waiting(t)
      BY <1>2, <3>1 DEF Waiting
    <3> QED
      BY <1>1, <2>2, <3>1, <3>2, GreetingOther
  <2> QED
    BY <2>1, <2>2
<1>4. CASE ControlAddSession
  <2>1. ControlRecv("AddSession") /\ unauth' = unauth \cup {Head(controlQ).id}
    BY <1>4 DEF ControlAddSession
  <2>2. Head(controlQ) = AddSession(Head(controlQ).id) /\ ~IsFrom(Head(controlQ), t)
    BY <1>2, <2>1, ControlMessages DEF IsFrom
  <2>3. Waiting(t)' => Waiting(t)
    BY <1>2, <2>1, <2>2 DEF Waiting
  <2> QED
    BY <1>1, <2>1, <2>2, <2>3, GreetingOther
<1>5. CASE ControlRemoveSession \/ ControlShutdown
  <2>1. PICK k \in {"RemoveSession", "Shutdown"} : ControlRecv(k) /\ unauth' \subseteq unauth
    BY <1>5 DEF ControlRemoveSession, ControlShutdown
  <2>2. ~IsFrom(Head(controlQ), t)
    BY <1>2, <2>1 DEF IsFrom
  <2>3. Waiting(t)' => Waiting(t)
    BY <1>2, <2>1 DEF Waiting
  <2> QED
    BY <1>1, <2>1, <2>2, <2>3, GreetingOther
<1>6. CASE ControlStop
  <2>1. controlQ' = <<>> /\ unauth' = {} /\ DOMAIN controlQ' = {}
    BY <1>6 DEF ControlStop
  <2> QED
    BY <1>1, <2>1 DEF Greeting, Waiting, Queued
<1> QED
  BY <1>3, <1>4, <1>5, <1>6 DEF ControlTask

LEMMA GreetingBySession ==
    ASSUME IInv, [Next]_vars, NEW t \in SessionIds, Greeting(t),
           NEW s \in SessionIds, SessionTask(s)
    PROVE  Greeting(t)'
<1>1. unauth' = unauth
  BY DEF SessionTask, VersionExchanged, VersionExchangeFailed, ReadRouted, ReadPing,
      ReadControl, Forward, Sent, ConnectionLost, KeepaliveExpired, SendFailed, Abort,
      DropSession, Graceful, controlVars
<1>2. sess'[t] \in {"none", "handshake"} => sess[t] \in {"none", "handshake"}
  <2>1. sess \in [SessionIds -> {"none", "handshake", "active", "sending", "failed",
                                 "denied", "aborted", "graceful"}]
    BY DEF IInv, TypeOK
  <2> QED
    BY <2>1 DEF SessionTask, VersionExchanged, VersionExchangeFailed, ReadRouted, ReadPing,
        ReadControl, Read, Forward, Sent, ConnectionLost, KeepaliveExpired, SendFailed, Abort,
        DropSession, Graceful
<1>3. ASSUME NEW p \in Packets, ReadControl(s, p) PROVE Greeting(t)'
  <2>1. CASE s = t
    BY <1>3, <2>1, GreetingRead
  <2>2. CASE s # t
    <3> DEFINE m == [kind |-> "Packet", id |-> s, packet |-> p]
    <3>1. m \in ControlMessage /\ SendControl(m) /\ ~IsFrom(m, t)
      BY <1>3, <2>2, MessageTypes DEF ReadControl, IsFrom
    <3>2. m.kind = "Packet" /\ AddSession(t).kind = "AddSession"
      BY DEF AddSession
    <3>3. greeting'[t] = greeting[t]
      BY <1>3, <2>2 DEF ReadControl, IInv, TypeOK
    <3> HIDE DEF m
    <3> QED
      BY <1>1, <1>2, <3>1, <3>2, <3>3, GreetingSend
  <2> QED
    BY <2>1, <2>2
<1>4. CASE VersionExchanged(s)
  <2>1. CASE s = t
    BY <1>4, <2>1, GreetingDeclare
  <2>2. CASE s # t
    <3>1. SendControl(AddSession(s)) /\ AddSession(s) \in ControlMessage
          /\ greeting' = greeting /\ AddSession(s) # AddSession(t) /\ ~IsFrom(AddSession(s), t)
      BY <1>4, <2>2, MessageTypes, Distinct DEF VersionExchanged, IsFrom, AddSession
    <3> QED
      BY <1>1, <1>2, <3>1, GreetingSend
  <2> QED
    BY <2>1, <2>2
<1>5. ASSUME Abort(s) PROVE Greeting(t)'
  <2>1. SendControl(RemoveSession(s)) /\ RemoveSession(s) \in ControlMessage
        /\ greeting' = greeting /\ RemoveSession(s) # AddSession(t)
        /\ ~IsFrom(RemoveSession(s), t)
    BY <1>5, MessageTypes DEF Abort, DropSession, IsFrom, RemoveSession, AddSession
  <2> QED
    BY <1>1, <1>2, <2>1, GreetingSend
<1>6. ASSUME \/ VersionExchangeFailed(s) \/ Graceful(s) \/ Forward(s) \/ Sent(s)
             \/ \E p \in Packets : ReadRouted(s, p) \/ ReadPing(s, p)
      PROVE  Greeting(t)'
  <2>1. controlQ' = controlQ /\ greeting' = greeting
    BY <1>6 DEF VersionExchangeFailed, Graceful, Forward, Sent, ReadRouted, ReadPing, queues
  <2> QED
    BY <1>1, <1>2, <2>1, GreetingFrame
<1> QED
  BY <1>3, <1>4, <1>5, <1>6 DEF SessionTask, ConnectionLost, KeepaliveExpired, SendFailed

LEMMA GreetingsStep ==
    ASSUME IInv, Greetings, [Next]_vars
    PROVE  Greetings'
<1> SUFFICES ASSUME NEW t \in SessionIds PROVE Greeting(t)'
  BY DEF Greetings
<1>1. Greeting(t)
  BY DEF Greetings
<1>2. CASE AcceptStop \/ ListenerFailed
  <2>1. SendControl(Shutdown) /\ UNCHANGED <<sess, greeting, unauth>>
    BY <1>2 DEF AcceptStop, ListenerFailed, LeaveLoop, sessionVars, controlVars
  <2>2. Shutdown \in ControlMessage /\ Shutdown # AddSession(t) /\ ~IsFrom(Shutdown, t)
    BY MessageTypes, Distinct DEF Shutdown, IsFrom
  <2> QED
    BY <1>1, <2>1, <2>2, GreetingSend
<1>3. CASE AcceptConnection
  <2>1. UNCHANGED <<controlQ, greeting, unauth>>
    BY <1>3 DEF AcceptConnection, controlVars, queues
  <2>2. sess'[t] = sess[t] \/ sess[t] = "none"
    BY <1>3, IdsAssumption DEF AcceptConnection, IInv, FreshIds, TypeOK
  <2> QED
    BY <1>1, <2>1, <2>2, GreetingFrame
<1>4. CASE NotifyStop \/ AcceptDone \/ RoutingTask \/ UNCHANGED vars
  <2>1. UNCHANGED <<sess, greeting, controlQ, unauth>>
    BY <1>4 DEF NotifyStop, AcceptDone, RoutingTask, RoutingVoice, RoutingText, RoutingUpdate,
        RoutingShutdown, RoutingStop, vars, sessionVars, controlVars, queues
  <2> QED
    BY <1>1, <2>1, GreetingFrame
<1> QED
  BY <1>1, <1>2, <1>3, <1>4, GreetingByControl, GreetingBySession DEF Next, AcceptTask, Ended

\* Nobody gets into a table but from unauth, for Authenticate.
LEMMA TabledStep ==
    ASSUME IInv, Greetings, [Next]_vars, NEW s \in SessionIds, Tabled(s)', ~Tabled(s)
    PROVE  Past(s)'
<1>1. /\ routingQ \in Seq(RoutingMessage) /\ rtbl \in Tables /\ Consistent(rtbl)
      /\ controlQ \in Seq(ControlMessage)
  BY DEF IInv, TypeOK, TablesConsistent
<1>2. ~holds_session(rtbl, s) /\ ~holds_session(view, s) /\ ~UnderWay(s)
  BY DEF Tabled
<1>3. holds_session(rtbl', s) \/ holds_session(view', s) \/ UnderWay(s)'
  BY DEF Tabled
<1>4. ASSUME NEW m \in RoutingMessage, m.kind # "Update", SendRouting(m) PROVE ~UnderWay(s)'
  BY <1>1, <1>2, <1>4, AppendFacts DEF UnderWay, SendRouting
<1>5. ASSUME NEW t \in Tables, ~holds_session(t, s), SendRouting(Update(t)) PROVE ~UnderWay(s)'
  <2>1. Update(t) \in RoutingMessage /\ Update(t).table = t
    BY MessageTypes DEF Update
  <2> QED
    BY <1>1, <1>2, <1>5, <2>1, AppendFacts DEF UnderWay, SendRouting
<1>6. ASSUME NEW k, RoutingRecv(k)
      PROVE  ~UnderWay(s)' /\ (k = "Update" => ~holds_session(Head(routingQ).table, s))
  <2>1. routingQ # <<>> /\ routingQ' = Tail(routingQ) /\ Head(routingQ).kind = k
    BY <1>6 DEF RoutingRecv
  <2>2. /\ Len(routingQ) \in Nat \ {0} /\ DOMAIN routingQ = 1 .. Len(routingQ)
        /\ DOMAIN routingQ' = 1 .. Len(routingQ) - 1
        /\ \A i \in 1 .. Len(routingQ) - 1 : routingQ'[i] = routingQ[i + 1]
        /\ Head(routingQ) = routingQ[1]
    BY <1>1, <2>1, TailFacts
  <2>3. \A i \in DOMAIN routingQ' : i + 1 \in DOMAIN routingQ /\ routingQ'[i] = routingQ[i + 1]
    BY <2>2
  <2> QED
    BY <1>2, <2>1, <2>2, <2>3 DEF UnderWay
<1>7. CASE UNCHANGED <<rtbl, view>>
  <2>1. UnderWay(s)'
    BY <1>2, <1>3, <1>7
  <2>2. ASSUME routingQ' = routingQ PROVE FALSE
    BY <1>2, <2>1, <2>2 DEF UnderWay
  <2>3. ASSUME NEW t \in SessionIds, NEW p \in Packets, ReadRouted(t, p) PROVE FALSE
    <3> DEFINE k == IF p.kind = "Text" THEN "Text" ELSE "Voice"
               m == [kind |-> k, id |-> t, packet |-> p, n |-> reads[t] + 1]
    <3>1. k \in {"Voice", "Text"} /\ reads[t] + 1 \in Nat
      BY DEF IInv, TypeOK
    <3>2. m \in RoutingMessage /\ m.kind # "Update"
      <4> HIDE DEF k
      <4> QED
        BY <3>1, MessageTypes
    <3>3. SendRouting(m)
      BY <2>3 DEF ReadRouted
    <3> QED
      BY <1>4, <2>1, <3>2, <3>3
  <2>4. ASSUME NEW t \in SessionIds, SessionTask(t), ~\E p \in Packets : ReadRouted(t, p)
        PROVE  FALSE
    BY <2>2, <2>4 DEF SessionTask, VersionExchanged, VersionExchangeFailed, ReadPing,
        ReadControl, Forward, Sent, ConnectionLost, KeepaliveExpired, SendFailed, Abort,
        DropSession, Graceful, queues
  <2>5. CASE ControlTask
    <3>1. CASE ControlStop
      <4>1. Shutdown \in RoutingMessage /\ Shutdown.kind # "Update"
        BY MessageTypes DEF Shutdown
      <4> QED
        BY <1>4, <2>1, <3>1, <4>1 DEF ControlStop, ExpectRouting
    <3>2. ASSUME ExpectRouting(Update(rtbl')) PROVE FALSE
      BY <1>1, <1>2, <1>5, <1>7, <2>1, <3>2 DEF ExpectRouting
    <3> QED
      BY <2>2, <2>5, <3>1, <3>2 DEF ControlTask, ControlPacket, ControlAddSession,
          ControlRemoveSession, ControlShutdown
  <2>6. CASE RoutingTask
    BY <1>6, <2>1, <2>2, <2>6 DEF RoutingTask, RoutingVoice, RoutingText, RoutingUpdate,
        RoutingShutdown, RoutingStop, queues
  <2>7. CASE NotifyStop \/ AcceptTask \/ UNCHANGED vars
    BY <2>2, <2>7 DEF NotifyStop, AcceptTask, AcceptConnection, AcceptStop, ListenerFailed,
        LeaveLoop, AcceptDone, vars, queues
  <2> QED
    BY <2>3, <2>4, <2>5, <2>6, <2>7 DEF Next, Ended
<1>8. CASE ControlPacket
  <2> DEFINE h == Head(controlQ).id
  <2>1. ControlRecv("Packet") /\ view' = view /\ sess' = sess /\ greeting' = greeting
    BY <1>8 DEF ControlPacket, routingVars, sessionVars
  <2>2. h \in SessionIds /\ controlQ # <<>> /\ controlQ' = Tail(controlQ)
    BY <2>1, ControlRecvType, ControlMessages DEF ControlRecv, IInv
  <2>3. CASE rtbl' = rtbl
    BY <1>7, <2>1, <2>3
  <2>4. ASSUME h \in unauth, Head(controlQ).packet.kind = "Authenticate",
               unauth' = unauth \ {h}, rtbl' = enroll_session(rtbl, h),
               ExpectRouting(Update(rtbl'))
        PROVE  Past(s)'
    <3>1. rtbl' \in Tables /\ DOMAIN rtbl'.sessions = DOMAIN rtbl.sessions \cup {h}
      BY <1>1, <2>2, <2>4, EnrollTable
    <3>2. s = h
      BY <1>2, <1>3, <1>5, <2>1, <2>4, <3>1 DEF ExpectRouting, holds_session
    <3>3. Registration(s)
      BY DEF IInv
    <3>4. ~Queued(controlQ, AddSession(s)) /\ sess[s] \notin {"none", "handshake"}
      BY <2>4, <3>2, <3>3 DEF Registration, Clean
    <3>5. ~Queued(controlQ', AddSession(s))
      BY <1>1, <2>2, <3>4, QueuedTail
    <3>6. greeting[s] = "Authenticate"
      <4>1. controlQ[1] = Head(controlQ) /\ 1 \in DOMAIN controlQ /\ IsFrom(Head(controlQ), s)
            /\ \A j \in DOMAIN controlQ : ~(j < 1)
        BY <1>1, <2>1, <2>2, <3>2, TailFacts DEF ControlRecv, IsFrom
      <4>2. Greets(controlQ, s, greeting[s])
        BY <2>4, <3>2 DEF Greetings, Greeting, Waiting
      <4> QED
        BY <2>4, <4>1, <4>2 DEF Greets
    <3> QED
      BY <2>1, <2>4, <3>2, <3>4, <3>5, <3>6 DEF Past, Enrolled
  <2> QED
    BY <1>8, <2>3, <2>4 DEF ControlPacket
<1>9. CASE ControlRemoveSession
  <2> DEFINE h == Head(controlQ).id
  <2>1. ControlRecv("RemoveSession") /\ view' = view
    BY <1>9 DEF ControlRemoveSession, routingVars
  <2>2. h \in SessionIds
    BY <2>1, ControlRecvType, ControlMessages DEF ControlRecv, IInv
  <2>3. CASE rtbl' = rtbl
    BY <1>7, <2>1, <2>3
  <2>4. ASSUME holds_session(rtbl, h), rtbl' = expel_session(rtbl, h),
               ExpectRouting(Update(rtbl'))
        PROVE  FALSE
    <3>1. rtbl' \in Tables /\ DOMAIN rtbl'.sessions = DOMAIN rtbl.sessions \ {h}
      BY <1>1, <2>2, <2>4, ExpelTable
    <3> QED
      BY <1>2, <1>3, <1>5, <2>1, <2>4, <3>1 DEF ExpectRouting, holds_session
  <2> QED
    BY <1>9, <2>3, <2>4 DEF ControlRemoveSession
<1>10. CASE ControlStop
  <2>1. SendRouting(Shutdown) /\ rtbl' = EmptyTable /\ view' = view
    BY <1>10 DEF ControlStop, ExpectRouting, routingVars
  <2>2. Shutdown \in RoutingMessage /\ Shutdown.kind # "Update"
    BY MessageTypes DEF Shutdown
  <2> QED
    BY <1>2, <1>3, <1>4, <2>1, <2>2 DEF holds_session, EmptyTable
<1>11. CASE RoutingUpdate
  BY <1>2, <1>3, <1>6, <1>11 DEF RoutingUpdate, controlVars
<1>12. CASE RoutingStop
  <2>1. view' = EmptyTable /\ UNCHANGED <<rtbl, routingQ>>
    BY <1>12 DEF RoutingStop, controlVars, queues
  <2> QED
    BY <1>2, <1>3, <2>1 DEF UnderWay, holds_session, EmptyTable
<1>13. CASE RoutingVoice \/ RoutingText \/ RoutingShutdown
  BY <1>7, <1>13 DEF RoutingVoice, RoutingText, RoutingShutdown, controlVars, routingVars
<1>14. CASE ControlAddSession \/ ControlShutdown
  BY <1>7, <1>14 DEF ControlAddSession, ControlShutdown, routingVars
<1>15. ASSUME NEW t \in SessionIds, SessionTask(t) PROVE UNCHANGED <<rtbl, view>>
  BY <1>15 DEF SessionTask, VersionExchanged, VersionExchangeFailed, ReadRouted, ReadPing,
      ReadControl, Forward, Sent, ConnectionLost, KeepaliveExpired, SendFailed, Abort,
      DropSession, Graceful, controlVars, routingVars
<1>16. CASE NotifyStop \/ AcceptTask \/ UNCHANGED vars
  BY <1>7, <1>16 DEF NotifyStop, AcceptTask, AcceptConnection, AcceptStop, ListenerFailed,
      LeaveLoop, AcceptDone, vars, controlVars, routingVars
<1> QED
  BY <1>7, <1>8, <1>9, <1>10, <1>11, <1>12, <1>13, <1>14, <1>15, <1>16
  DEF Next, Ended, ControlTask, RoutingTask

\* What is on its way was on its way before, or is a pong, or comes from the
\* routing task.
LEMMA InboundElements ==
    ASSUME IInv, Idle, [Next]_vars, TypeOK', NEW d \in SessionIds,
           NEW i \in DOMAIN Inbound(d)'
    PROVE  \/ \E j \in DOMAIN Inbound(d) : Inbound(d)'[i] = Inbound(d)[j]
           \/ Inbound(d)'[i].kind = "Pong"
           \/ \E m \in RoutingMessage :
                 /\ Routed(m) /\ Inbound(d)'[i] = Forwarded(m)
                 /\ holds_session(view, d)
                 /\ m.kind = "Voice" => m.id # d /\ holds_session(view, m.id)
<1> DEFINE a == Inbound(d)
           b == Inbound(d)'
           w == sending[d]
           pong == <<[kind |-> "Pong", from |-> d, n |-> reads[d] + 1]>>
<1>1. a \in Seq(Clientbound) /\ w \in Seq(Clientbound) /\ TypeOK
  BY InboundType DEF IInv
<1>2. b \in Seq(Clientbound)
  <2>1. sending'[d] \in Seq(Clientbound) /\ sessionQ'[d] \in Seq(Clientbound)
    BY DEF TypeOK
  <2> QED
    BY <2>1 DEF Inbound
<1>3. pong \in Seq(Clientbound) /\ DOMAIN pong = {1} /\ pong[1].kind = "Pong"
  BY <1>1 DEF TypeOK, Clientbound
<1>4. \/ b = a \/ a = w \o b \/ b = <<>> \/ b = pong \o a
      \/ \E m \in RoutingMessage : Delivers(d, m)
  BY InboundStep
<1> HIDE DEF pong, w, a, b
<1>5. CASE b = a
  BY <1>5 DEF a, b
<1>6. CASE a = w \o b
  <2>1. Len(w) + i \in DOMAIN (w \o b) /\ (w \o b)[Len(w) + i] = b[i]
    BY <1>1, <1>2, ConcatFacts DEF b
  <2> QED
    BY <1>6, <2>1 DEF a, b
<1>7. CASE b = <<>>
  BY <1>7 DEF b
<1>8. CASE b = pong \o a
  <2>1. \/ i \in DOMAIN pong /\ (pong \o a)[i] = pong[i]
        \/ i - Len(pong) \in DOMAIN a /\ (pong \o a)[i] = a[i - Len(pong)]
    BY <1>1, <1>3, <1>8, ConcatFacts DEF b
  <2> QED
    BY <1>3, <1>8, <2>1 DEF a, b
<1>9. ASSUME NEW m \in RoutingMessage, Delivers(d, m)
      PROVE  \/ \E j \in DOMAIN Inbound(d) : Inbound(d)'[i] = Inbound(d)[j]
             \/ /\ Routed(m) /\ Inbound(d)'[i] = Forwarded(m)
                /\ holds_session(view, d)
                /\ m.kind = "Voice" => m.id # d /\ holds_session(view, m.id)
  <2> DEFINE p == Forwarded(m)
  <2>1. PICK k \in Nat : /\ b = a \o Repeat(p, k)
                         /\ k > 0 => holds_session(view, d)
                         /\ m.kind = "Voice" /\ k > 0 => m.id # d /\ holds_session(view, m.id)
    BY <1>9 DEF Delivers, a, b
  <2>2. Routed(m) /\ p \in Clientbound
    BY <1>9, RoutingMessages DEF Delivers, Routed, Forwarded, Clientbound
  <2> DEFINE c == Repeat(p, k)
  <2>3. c \in Seq(Clientbound) /\ DOMAIN c = 1 .. k /\ \A j \in 1 .. k : c[j] = p
    <3> HIDE DEF p
    <3> QED
      BY <2>2, RepeatFacts
  <2> HIDE DEF c, p
  <2>4. \/ i \in DOMAIN a /\ (a \o c)[i] = a[i]
        \/ i - Len(a) \in DOMAIN c /\ (a \o c)[i] = c[i - Len(a)]
    BY <1>1, <2>1, <2>3, ConcatFacts DEF b, c
  <2>5. CASE i \in DOMAIN a /\ (a \o c)[i] = a[i]
    BY <2>1, <2>5 DEF a, b, c
  <2>6. CASE i - Len(a) \in DOMAIN c /\ (a \o c)[i] = c[i - Len(a)]
    <3>1. k > 0 /\ b[i] = p
      BY <2>1, <2>3, <2>6 DEF c
    <3> QED
      BY <2>1, <2>2, <3>1 DEF b, p
  <2> QED
    BY <2>4, <2>5, <2>6
<1> QED
  BY <1>4, <1>5, <1>6, <1>7, <1>8, <1>9

LEMMA LetInStep ==
    ASSUME IInv, Idle, Greetings, LetIn, [Next]_vars, TypeOK'
    PROVE  LetIn'
<1>1. ASSUME NEW s \in SessionIds, Tabled(s)' PROVE Past(s)'
  BY <1>1, TabledStep, PastStable DEF LetIn
<1>2. ASSUME NEW d \in SessionIds, NEW i \in DOMAIN Inbound(d)'
      PROVE  Allowed(d, Inbound(d)[i])'
  <2>0. PICK p : p = Inbound(d)'[i]
    OBVIOUS
  <2>1. p.kind # "Pong" => p.from \in SessionIds
    <3>1. Inbound(d)' \in Seq(Clientbound)
      <4>1. sending'[d] \in Seq(Clientbound) /\ sessionQ'[d] \in Seq(Clientbound)
        BY DEF TypeOK
      <4> QED
        BY <4>1 DEF Inbound
    <3>2. p \in Clientbound
      BY <1>2, <2>0, <3>1
    <3> QED
      BY <3>2 DEF Clientbound
  <2>2. /\ p.kind # "Pong" => Past(d)
        /\ p.kind = "Voice" => p.from # d /\ Past(p.from)
    <3>1. ASSUME NEW j \in DOMAIN Inbound(d), p = Inbound(d)[j]
          PROVE  /\ p.kind # "Pong" => Past(d)
                 /\ p.kind = "Voice" => p.from # d /\ Past(p.from)
      BY <3>1 DEF LetIn, Allowed
    <3>2. ASSUME NEW m \in RoutingMessage, Routed(m), p = Forwarded(m), holds_session(view, d),
                 m.kind = "Voice" => m.id # d /\ holds_session(view, m.id)
          PROVE  /\ p.kind # "Pong" => Past(d)
                 /\ p.kind = "Voice" => p.from # d /\ Past(p.from)
      <4>1. p.from = m.id /\ p.kind = m.kind /\ m.id \in SessionIds
        BY <3>2, RoutingMessages DEF Forwarded, Routed
      <4> QED
        BY <3>2, <4>1 DEF LetIn, Tabled
    <3>3. \/ \E j \in DOMAIN Inbound(d) : p = Inbound(d)[j]
          \/ p.kind = "Pong"
          \/ \E m \in RoutingMessage :
                 /\ Routed(m) /\ p = Forwarded(m)
                 /\ holds_session(view, d)
                 /\ m.kind = "Voice" => m.id # d /\ holds_session(view, m.id)
      BY <1>2, <2>0, InboundElements
    <3> QED
      BY <3>1, <3>2, <3>3
  <2>3. /\ p.kind # "Pong" => Past(d)'
        /\ p.kind = "Voice" => p.from # d /\ Past(p.from)'
    <3>1. ASSUME NEW s \in SessionIds, Past(s) PROVE Past(s)'
      BY <3>1, PastStable
    <3> QED
      BY <2>1, <2>2, <3>1 DEF Past, Enrolled
  <2> QED
    BY <2>0, <2>3 DEF Allowed, Past, Enrolled
<1> QED
  BY <1>1, <1>2 DEF LetIn

\* Voice and text go only to sessions that the control task enrolled for an
\* Authenticate as their first packet, and voice comes from one that was and
\* never goes back to the speaker, however declarations, enrolments, removals
\* and packets interleave.
THEOREM StrangersGetNothing == Spec => []OnlyEnrolled
<1>1. Init => LetIn
  <2> SUFFICES ASSUME Init PROVE LetIn
    OBVIOUS
  <2>1. \A s : ~Tabled(s)
    BY DEF Init, Tabled, UnderWay, holds_session, EmptyTable
  <2>2. \A d \in SessionIds : Inbound(d) = <<>>
    BY DEF Init, Inbound
  <2> QED
    BY <2>1, <2>2 DEF LetIn
<1>2. IInv /\ Idle /\ Greetings /\ LetIn /\ [Next]_vars /\ IInv' => LetIn'
  BY LetInStep DEF IInv
<1>3. IInv /\ Idle /\ [Next]_vars => Idle'
  BY IdleStep
<1>4. LetIn => OnlyEnrolled
  BY DEF LetIn, Allowed, Past, OnlyEnrolled
<1>5. Init => Greetings
  BY DEF Init, Greetings, Greeting, Waiting, Queued
<1>6. IInv /\ Greetings /\ [Next]_vars => Greetings'
  BY GreetingsStep
<1> QED
  BY InitIInv, NextIInv, InitIdle, <1>1, <1>2, <1>3, <1>4, <1>5, <1>6, PTL DEF Spec

-----------------------------------------------------------------------------
(* Nothing overtakes *)

\* What a step does to the routing queue: a packet joins it with the number
\* under which it has just been read.
LEMMA RoutingQueueStep ==
    ASSUME IInv, [Next]_vars
    PROVE  \/ routingQ' = routingQ
           \/ routingQ # <<>> /\ routingQ' = Tail(routingQ)
           \/ \E m \in RoutingMessage :
                 /\ routingQ' = Append(routingQ, m)
                 /\ Routed(m) => m.n > reads[m.id] /\ m.n <= reads'[m.id]
<1>1. ASSUME NEW m \in RoutingMessage, SendRouting(m), ~Routed(m)
      PROVE  \/ routingQ' = routingQ
             \/ routingQ' = Append(routingQ, m)
  BY <1>1 DEF SendRouting
<1>2. ASSUME NEW s \in SessionIds, NEW p \in Packets, ReadRouted(s, p)
      PROVE  \/ routingQ' = routingQ
             \/ \E m \in RoutingMessage :
                   /\ routingQ' = Append(routingQ, m)
                   /\ m.n > reads[m.id] /\ m.n <= reads'[m.id]
  <2> DEFINE k == IF p.kind = "Text" THEN "Text" ELSE "Voice"
             m == [kind |-> k, id |-> s, packet |-> p, n |-> reads[s] + 1]
  <2>1. k \in {"Voice", "Text"} /\ reads[s] + 1 \in Nat /\ reads[s] \in Nat
    BY DEF IInv, TypeOK
  <2>2. m \in RoutingMessage /\ m.id = s /\ m.n = reads[s] + 1
    <3> HIDE DEF k
    <3> QED
      BY <2>1, MessageTypes
  <2>3. SendRouting(m)
    BY <1>2 DEF ReadRouted
  <2>4. reads'[s] = reads[s] + 1
    BY <1>2 DEF ReadRouted, Read, IInv, TypeOK
  <2> HIDE DEF m
  <2>5. m.n > reads[m.id] /\ m.n <= reads'[m.id]
    BY <2>1, <2>2, <2>4
  <2> QED
    BY <2>2, <2>3, <2>5 DEF SendRouting
<1>3. ASSUME NEW s \in SessionIds, SessionTask(s), ~\E p \in Packets : ReadRouted(s, p)
      PROVE  routingQ' = routingQ
  BY <1>3 DEF SessionTask, VersionExchanged, VersionExchangeFailed, ReadPing, ReadControl,
      Forward, Sent, ConnectionLost, KeepaliveExpired, SendFailed, Abort, DropSession, Graceful,
      queues
<1>4. CASE ControlTask
  <2>1. Shutdown \in RoutingMessage /\ ~Routed(Shutdown)
    BY MessageTypes DEF Shutdown, Routed
  <2>2. \A t \in Tables : Update(t) \in RoutingMessage /\ ~Routed(Update(t))
    BY MessageTypes DEF Update, Routed
  <2>3. rtbl' \in Tables
    BY NextType DEF IInv, TypeOK
  <2>4. \/ routingQ' = routingQ \/ SendRouting(Update(rtbl')) \/ SendRouting(Shutdown)
    BY <1>4 DEF ControlTask, ControlPacket, ControlAddSession, ControlRemoveSession,
        ControlShutdown, ControlStop, ExpectRouting
  <2> QED
    BY <1>1, <2>1, <2>2, <2>3, <2>4
<1>5. CASE RoutingTask
  BY <1>5 DEF RoutingTask, RoutingVoice, RoutingText, RoutingUpdate, RoutingShutdown,
      RoutingStop, RoutingRecv, queues
<1>6. CASE NotifyStop \/ AcceptTask \/ UNCHANGED vars
  BY <1>6 DEF NotifyStop, AcceptTask, AcceptConnection, AcceptStop, ListenerFailed, LeaveLoop,
      AcceptDone, vars, queues
<1> QED
  BY <1>2, <1>3, <1>4, <1>5, <1>6 DEF Next, Ended

\* The routing queue stays in order.
LEMMA ReadInOrderStep ==
    ASSUME IInv, [Next]_vars, ReadInOrder(routingQ, reads)
    PROVE  ReadInOrder(routingQ', reads')
<1>1. routingQ \in Seq(RoutingMessage)
      /\ \A s \in SessionIds : reads'[s] >= reads[s] /\ reads[s] \in Nat /\ reads'[s] \in Nat
  BY ReadsGrow DEF IInv, TypeOK
<1>2. ASSUME NEW i \in DOMAIN routingQ, Routed(routingQ[i])
      PROVE  routingQ[i].id \in SessionIds /\ routingQ[i].n \in Nat
  BY <1>1, <1>2, RoutingMessages DEF Routed
<1>3. ReadInOrder(routingQ, reads')
  <2>1. ASSUME NEW i \in DOMAIN routingQ, Routed(routingQ[i])
        PROVE  routingQ[i].n <= reads'[routingQ[i].id]
    BY <1>1, <1>2, <2>1 DEF ReadInOrder
  <2> QED
    BY <2>1 DEF ReadInOrder
<1>4. CASE routingQ' = routingQ
  BY <1>3, <1>4
<1>5. CASE routingQ # <<>> /\ routingQ' = Tail(routingQ)
  <2>1. \A i \in DOMAIN routingQ' :
           i \in Nat /\ i + 1 \in DOMAIN routingQ /\ routingQ'[i] = routingQ[i + 1]
    BY <1>1, <1>5, TailFacts
  <2>2. ASSUME NEW i \in DOMAIN routingQ', NEW j \in DOMAIN routingQ', i < j
        PROVE  i + 1 < j + 1
    BY <2>1, <2>2
  <2> QED
    BY <1>3, <2>1, <2>2 DEF ReadInOrder
<1>6. ASSUME NEW m \in RoutingMessage, routingQ' = Append(routingQ, m),
             Routed(m) => m.n > reads[m.id] /\ m.n <= reads'[m.id]
      PROVE  ReadInOrder(routingQ', reads')
  <2> DEFINE last == Len(routingQ) + 1
  <2>1. /\ \A i \in DOMAIN routingQ' : i \in DOMAIN routingQ \/ i = last
        /\ \A i \in DOMAIN routingQ : routingQ'[i] = routingQ[i] /\ i < last /\ i \in Nat
        /\ routingQ'[last] = m /\ last \in Nat
    BY <1>1, <1>6, AppendFacts
  <2>2. Routed(m) => m.id \in SessionIds /\ m.n \in Nat
    BY RoutingMessages DEF Routed
  <2> HIDE DEF last
  <2>3. ASSUME NEW i \in DOMAIN routingQ', Routed(routingQ'[i])
        PROVE  routingQ'[i].n <= reads'[routingQ'[i].id]
    <3>1. CASE i \in DOMAIN routingQ
      BY <1>3, <2>1, <2>3, <3>1 DEF ReadInOrder
    <3>2. CASE i = last
      BY <1>6, <2>1, <2>3, <3>2
    <3> QED
      BY <2>1, <3>1, <3>2
  <2>4. ASSUME NEW i \in DOMAIN routingQ', NEW j \in DOMAIN routingQ', i < j,
               Routed(routingQ'[i]), Routed(routingQ'[j]), routingQ'[i].id = routingQ'[j].id
        PROVE  routingQ'[i].n < routingQ'[j].n
    <3>1. i \in DOMAIN routingQ
      BY <2>1, <2>4
    <3>2. CASE j \in DOMAIN routingQ
      BY <1>3, <2>1, <2>4, <3>1, <3>2 DEF ReadInOrder
    <3>3. CASE j = last
      <4>1. routingQ[i].n <= reads[m.id] /\ routingQ[i].n \in Nat
        BY <1>2, <2>1, <2>4, <3>1, <3>3 DEF ReadInOrder
      <4>2. m.n > reads[m.id] /\ m.id \in SessionIds /\ m.n \in Nat
        BY <1>6, <2>1, <2>2, <2>4, <3>3
      <4>3. reads[m.id] \in Nat
        BY <1>1, <4>2
      <4> QED
        BY <2>1, <3>1, <3>3, <4>1, <4>2, <4>3
    <3> QED
      BY <2>1, <3>2, <3>3
  <2> QED
    BY <2>3, <2>4 DEF ReadInOrder
<1> QED
  BY <1>4, <1>5, <1>6, RoutingQueueStep

\* Packets stay ahead of the routing queue, whatever joins it.
LEMMA FrontStep ==
    ASSUME IInv, [Next]_vars, NEW q \in Seq(Clientbound), HasRead(q, reads),
           InFront(q, routingQ)
    PROVE  HasRead(q, reads') /\ InFront(q, routingQ')
<1>1. routingQ \in Seq(RoutingMessage)
      /\ \A s \in SessionIds : reads'[s] >= reads[s] /\ reads[s] \in Nat /\ reads'[s] \in Nat
  BY ReadsGrow DEF IInv, TypeOK
<1>2. \A i \in DOMAIN q : q[i].from \in SessionIds /\ q[i].n \in Nat
  <2>1. \A i \in DOMAIN q : q[i] \in Clientbound
    OBVIOUS
  <2> QED
    BY <2>1 DEF Clientbound
<1>3. HasRead(q, reads')
  <2> SUFFICES ASSUME NEW i \in DOMAIN q, q[i].kind # "Pong" PROVE q[i].n <= reads'[q[i].from]
    BY DEF HasRead
  <2>1. q[i].n <= reads[q[i].from]
    BY DEF HasRead
  <2> QED
    BY <1>1, <1>2, <2>1
<1>4. CASE routingQ' = routingQ
  BY <1>3, <1>4
<1>5. CASE routingQ # <<>> /\ routingQ' = Tail(routingQ)
  <2>1. \A i \in DOMAIN routingQ' :
           i + 1 \in DOMAIN routingQ /\ routingQ'[i] = routingQ[i + 1]
    BY <1>1, <1>5, TailFacts
  <2> QED
    BY <1>3, <2>1 DEF InFront
<1>6. ASSUME NEW m \in RoutingMessage, routingQ' = Append(routingQ, m),
             Routed(m) => m.n > reads[m.id] /\ m.n <= reads'[m.id]
      PROVE  InFront(q, routingQ')
  <2>1. \A j \in DOMAIN routingQ' : (j \in DOMAIN routingQ /\ routingQ'[j] = routingQ[j])
                                    \/ routingQ'[j] = m
    BY <1>1, <1>6, AppendFacts
  <2> SUFFICES ASSUME NEW i \in DOMAIN q, NEW j \in DOMAIN routingQ', q[i].kind # "Pong",
                      Routed(routingQ'[j]), routingQ'[j].id = q[i].from
               PROVE  q[i].n < routingQ'[j].n
    BY DEF InFront
  <2>2. CASE j \in DOMAIN routingQ /\ routingQ'[j] = routingQ[j]
    BY <2>2 DEF InFront
  <2>3. CASE routingQ'[j] = m
    <3>1. q[i].n <= reads[m.id] /\ m.n > reads[m.id] /\ m.n \in Nat /\ reads[m.id] \in Nat
      BY <1>1, <1>2, <1>6, <2>3, RoutingMessages DEF HasRead, Routed
    <3> QED
      BY <1>2, <2>3, <3>1
  <2> QED
    BY <2>1, <2>2, <2>3
<1> QED
  BY <1>3, <1>4, <1>5, <1>6, RoutingQueueStep

\* A part of an orderly sequence that loses its front is orderly.
LEMMA OrderlySuffix ==
    ASSUME NEW a \in Seq(Clientbound), NEW b \in Seq(Clientbound), NEW rq, NEW rd,
           Orderly(a \o b, rq, rd)
    PROVE  Orderly(b, rq, rd)
<1> DEFINE c == a \o b
           l == Len(a)
<1>1. /\ l \in Nat
      /\ \A i \in DOMAIN b : i \in Nat /\ l + i \in DOMAIN c /\ c[l + i] = b[i]
  BY ConcatFacts
<1>2. Sorted(c) /\ HasRead(c, rd) /\ InFront(c, rq)
  BY DEF Orderly
<1> HIDE DEF c, l
<1>3. Sorted(b)
  <2> SUFFICES ASSUME NEW i \in DOMAIN b, NEW j \in DOMAIN b, i < j PROVE Before(b[i], b[j])
    BY DEF Sorted
  <2>1. l + i < l + j
    BY <1>1
  <2> QED
    BY <1>1, <1>2, <2>1 DEF Sorted
<1>4. HasRead(b, rd) /\ InFront(b, rq)
  BY <1>1, <1>2 DEF HasRead, InFront
<1> QED
  BY <1>3, <1>4 DEF Orderly

\* A pong may go ahead of anything.
LEMMA OrderlyPong ==
    ASSUME NEW a \in Seq(Clientbound), Len(a) = 1, a[1].kind = "Pong",
           NEW b \in Seq(Clientbound), NEW rq, NEW rd, Orderly(b, rq, rd)
    PROVE  Orderly(a \o b, rq, rd)
<1> DEFINE c == a \o b
           l == Len(a)
<1>1. /\ DOMAIN a = 1 .. l
      /\ \A i \in DOMAIN a : c[i] = a[i]
      /\ \A i \in DOMAIN c : i \in Nat
      /\ \A i \in DOMAIN c : i \in DOMAIN a \/ (i > l /\ i - l \in DOMAIN b /\ c[i] = b[i - l])
  BY ConcatFacts
<1> l = 1
  OBVIOUS
<1> HIDE DEF c, l
<1>2. \A i \in DOMAIN c : \/ c[i].kind = "Pong" /\ i = 1
                          \/ i > 1 /\ i \in Nat /\ i - 1 \in DOMAIN b /\ c[i] = b[i - 1]
  BY <1>1
<1>3. Sorted(b) /\ HasRead(b, rd) /\ InFront(b, rq)
  BY DEF Orderly
<1>4. Sorted(c)
  <2> SUFFICES ASSUME NEW i \in DOMAIN c, NEW j \in DOMAIN c, i < j PROVE Before(c[i], c[j])
    BY DEF Sorted
  <2>1. CASE c[i].kind = "Pong"
    BY <2>1 DEF Before
  <2>2. CASE c[i].kind # "Pong"
    <3>1. /\ i > 1 /\ i \in Nat /\ i - 1 \in DOMAIN b /\ c[i] = b[i - 1]
          /\ j > 1 /\ j \in Nat /\ j - 1 \in DOMAIN b /\ c[j] = b[j - 1]
      BY <1>2, <2>2
    <3>2. i - 1 < j - 1
      BY <3>1
    <3> QED
      BY <1>3, <3>1, <3>2 DEF Sorted
  <2> QED
    BY <2>1, <2>2
<1>5. HasRead(c, rd) /\ InFront(c, rq)
  BY <1>2, <1>3 DEF HasRead, InFront
<1> QED
  BY <1>4, <1>5 DEF Orderly, c

\* The packet at the head of the routing queue goes behind what was delivered
\* before, and stays ahead of the rest of the queue.
LEMMA OrderlyDelivery ==
    ASSUME NEW a \in Seq(Clientbound), NEW rq \in Seq(RoutingMessage), rq # <<>>, NEW rd,
           Orderly(a, rq, rd), ReadInOrder(rq, rd), Routed(Head(rq)), NEW k \in Nat,
           Head(rq).kind = "Voice" => k <= 1
    PROVE  Orderly(a \o Repeat(Forwarded(Head(rq)), k), Tail(rq), rd)
<1> DEFINE m == Head(rq)
           p == Forwarded(m)
           b == Repeat(p, k)
           c == a \o b
           l == Len(a)
<1>1. /\ m \in RoutingMessage /\ 1 \in DOMAIN rq /\ rq[1] = m
      /\ \A j \in DOMAIN Tail(rq) : /\ j + 1 \in DOMAIN rq /\ Tail(rq)[j] = rq[j + 1]
                                    /\ 1 < j + 1
  BY TailFacts
<1>2. /\ p \in Clientbound /\ p.from = m.id /\ p.n = m.n /\ p.kind = m.kind
      /\ p.kind # "Pong" /\ m.n \in Nat
  BY <1>1, RoutingMessages DEF Routed, Forwarded, Clientbound
<1>3. b \in Seq(Clientbound) /\ DOMAIN b = 1 .. k /\ \A j \in 1 .. k : b[j] = p
  <2> HIDE DEF p
  <2> QED
    BY <1>2, RepeatFacts
<1> HIDE DEF b, p
<1>4. /\ l \in Nat
      /\ \A i \in DOMAIN c : \/ i \in DOMAIN a /\ c[i] = a[i] /\ i <= l /\ i \in Nat
                             \/ i > l /\ i \in Nat /\ i - l \in 1 .. k /\ c[i] = p
  BY <1>3, ConcatFacts
<1>5. Sorted(a) /\ HasRead(a, rd) /\ InFront(a, rq)
  BY DEF Orderly
<1> HIDE DEF c, l
<1>6. Sorted(c)
  <2> SUFFICES ASSUME NEW i \in DOMAIN c, NEW j \in DOMAIN c, i < j PROVE Before(c[i], c[j])
    BY DEF Sorted
  <2>1. CASE j \in DOMAIN a /\ c[j] = a[j] /\ j <= l /\ j \in Nat
    <3>1. i \in DOMAIN a /\ c[i] = a[i]
      BY <1>4, <2>1
    <3> QED
      BY <1>5, <2>1, <3>1 DEF Sorted
  <2>2. CASE j > l /\ j \in Nat /\ j - l \in 1 .. k /\ c[j] = p
    <3>1. CASE i \in DOMAIN a /\ c[i] = a[i]
      <4>1. a[i].kind # "Pong" /\ m.id = a[i].from => a[i].n < m.n
        BY <1>1, <1>5, <3>1 DEF InFront
      <4> QED
        BY <1>2, <2>2, <3>1, <4>1 DEF Before
    <3>2. CASE i > l /\ i \in Nat /\ i - l \in 1 .. k /\ c[i] = p
      <4>1. k > 1
        BY <1>4, <2>2, <3>2
      <4>2. p.kind = "Text"
        BY <1>2, <4>1 DEF Routed
      <4> QED
        BY <2>2, <3>2, <4>2 DEF Before
    <3> QED
      BY <1>4, <3>1, <3>2
  <2> QED
    BY <1>4, <2>1, <2>2
<1>7. HasRead(c, rd)
  <2>1. p.n <= rd[p.from]
    BY <1>1, <1>2 DEF ReadInOrder
  <2> QED
    BY <1>4, <1>5, <2>1 DEF HasRead
<1>8. InFront(c, Tail(rq))
  <2> SUFFICES ASSUME NEW i \in DOMAIN c, NEW j \in DOMAIN Tail(rq), c[i].kind # "Pong",
                      Routed(Tail(rq)[j]), Tail(rq)[j].id = c[i].from
               PROVE  c[i].n < Tail(rq)[j].n
    BY DEF InFront
  <2>1. CASE i \in DOMAIN a /\ c[i] = a[i]
    BY <1>1, <1>5, <2>1 DEF InFront
  <2>2. CASE c[i] = p
    BY <1>1, <1>2, <2>2 DEF ReadInOrder
  <2> QED
    BY <1>4, <2>1, <2>2
<1> QED
  BY <1>6, <1>7, <1>8 DEF Orderly, c, b, p

LEMMA InOrderStep ==
    ASSUME IInv, Idle, InOrder, [Next]_vars, TypeOK'
    PROVE  InOrder'
<1>1. ReadInOrder(routingQ, reads) /\ ReadInOrder(routingQ', reads')
  BY ReadInOrderStep DEF InOrder
<1>2. ASSUME NEW d \in SessionIds PROVE Orderly(Inbound(d)', routingQ', reads')
  <2> DEFINE a == Inbound(d)
             b == Inbound(d)'
             w == sending[d]
             p == [kind |-> "Pong", from |-> d, n |-> reads[d] + 1]
  <2>1. a \in Seq(Clientbound) /\ w \in Seq(Clientbound) /\ TypeOK
    BY InboundType DEF IInv
  <2>2. b \in Seq(Clientbound)
    <3>1. sending'[d] \in Seq(Clientbound) /\ sessionQ'[d] \in Seq(Clientbound)
      BY DEF TypeOK
    <3> QED
      BY <3>1 DEF Inbound
  <2>3. <<p>> \in Seq(Clientbound) /\ Len(<<p>>) = 1 /\ <<p>>[1].kind = "Pong"
    BY <2>1 DEF TypeOK, Clientbound
  <2>4. \/ b = a \/ a = w \o b \/ b = <<>> \/ b = <<p>> \o a
        \/ \E m \in RoutingMessage : Delivers(d, m)
    BY InboundStep
  <2>5. Orderly(a, routingQ, reads)
    BY DEF InOrder
  <2> HIDE DEF p, w
  <2>6. Orderly(a, routingQ', reads')
    <3> HIDE DEF a
    <3> QED
      BY <2>1, <2>5, FrontStep DEF Orderly
  <2>7. CASE b = a
    BY <2>6, <2>7
  <2>8. CASE a = w \o b
    <3> HIDE DEF a, b
    <3>1. Orderly(b, routingQ', reads')
      BY <2>1, <2>2, <2>6, <2>8, OrderlySuffix
    <3> QED
      BY <3>1 DEF b
  <2>9. CASE b = <<>>
    <3> HIDE DEF b
    <3>1. Orderly(b, routingQ', reads')
      BY <2>9 DEF Orderly, Sorted, HasRead, InFront
    <3> QED
      BY <3>1 DEF b
  <2>10. CASE b = <<p>> \o a
    <3> HIDE DEF a, b
    <3>1. Orderly(b, routingQ', reads')
      BY <2>1, <2>3, <2>6, <2>10, OrderlyPong
    <3> QED
      BY <3>1 DEF b
  <2>11. ASSUME NEW m \in RoutingMessage, Delivers(d, m)
         PROVE  Orderly(b, routingQ', reads')
    <3>1. /\ routingQ # <<>> /\ m = Head(routingQ) /\ Routed(m)
          /\ routingQ' = Tail(routingQ) /\ reads' = reads
          /\ routingQ \in Seq(RoutingMessage)
      BY <2>1, <2>11 DEF Delivers, TypeOK
    <3>2. PICK k \in Nat : b = a \o Repeat(Forwarded(m), k) /\ (m.kind = "Voice" => k <= 1)
      BY <2>11 DEF Delivers
    <3>3. Orderly(a \o Repeat(Forwarded(Head(routingQ)), k), Tail(routingQ), reads)
      <4> HIDE DEF a
      <4> QED
        BY <1>1, <2>1, <2>5, <3>1, <3>2, OrderlyDelivery
    <3> QED
      BY <3>1, <3>2, <3>3
  <2> QED
    BY <2>4, <2>7, <2>8, <2>9, <2>10, <2>11
<1> QED
  BY <1>1, <1>2 DEF InOrder, Inbound, ReadInOrder, Orderly, Sorted, HasRead, InFront

\* Between two sessions nothing overtakes: what one is sent by the other, by
\* voice and by text alike, is in the order in which the sender's client sent
\* it, and a voice packet is delivered at most once.
THEOREM NothingOvertakes == Spec => []DeliveryOrder
<1>1. Init => InOrder
  <2> SUFFICES ASSUME Init PROVE InOrder
    OBVIOUS
  <2>1. routingQ = <<>> /\ \A d \in SessionIds : Inbound(d) = <<>>
    BY DEF Init, Inbound
  <2> QED
    BY <2>1 DEF InOrder, ReadInOrder, Orderly, Sorted, HasRead, InFront
<1>2. IInv /\ Idle /\ InOrder /\ [Next]_vars /\ IInv' => InOrder'
  BY InOrderStep DEF IInv
<1>3. IInv /\ Idle /\ [Next]_vars => Idle'
  BY IdleStep
<1>4. InOrder => DeliveryOrder
  BY DEF InOrder, Orderly, Sorted, Before, InFront, Routed, DeliveryOrder
<1> QED
  BY InitIInv, NextIInv, InitIdle, <1>1, <1>2, <1>3, <1>4, PTL DEF Spec

=============================================================================
