------------------------------- MODULE Stammer -------------------------------
(***************************************************************************)
(* The stammer voice server: the accept, control and routing tasks, which  *)
(* run_stammer_task joins in one tokio task, and one spawned session task  *)
(* per connection. They share nothing; every arrow is an unbounded mpsc    *)
(* channel:                                                                *)
(*                                                                         *)
(*     accept --Shutdown--> control --Update, Shutdown--> routing          *)
(*     session --AddSession, Packet, RemoveSession--> control              *)
(*     session --Voice, Text--> routing --packets--> session --> client    *)
(*                                                                         *)
(* close() on a receiver makes every later send fail and still delivers    *)
(* what is queued. A session's own channel ends when nobody holds a sender *)
(* for it any more: the senders live in AddSession messages, in unauth, in *)
(* the control task's table and in every copy of that table.               *)
(*                                                                         *)
(* Clients are the environment: what they send, when a socket fails and    *)
(* when a keepalive expires is nondeterministic.                           *)
(***************************************************************************)
EXTENDS RoutingTable, Sequences, FiniteSets

CONSTANTS
    Packets,   \* what a client may send once the version exchange is over
    MaxReads   \* bound: packets read from each client

\* A packet is what the server looks at. Authenticate is the only control
\* packet handle_packet tells apart; target belongs to Voice; sessions and
\* rooms are the recipients of a Text. A Version after the exchange is an
\* Other like every other control packet.
ServerPackets ==
    [kind     : {"Authenticate", "Other", "Ping", "Voice", "VoicePing", "Text"},
     target   : 0 .. 31,
     sessions : SUBSET SessionIds,
     rooms    : SUBSET RoomIds]

ASSUME PacketsAssumption ==
    /\ Packets \subseteq ServerPackets
    /\ \A p \in Packets : IsFiniteSet(p.rooms)
ASSUME MaxReadsAssumption == MaxReads \in Nat

VARIABLES
    stop,       \* the stop Notify has a permit
    accept,     \* where run_accept_task is
    accepted,   \* sessions.len(): the id of the next session
    sess,       \* where each session task is
    sending,    \* the packet a session task is writing to its client, if any
    reads,      \* packets read from each client; numbers them
    greeting,   \* what each session sent the control task first (not in the code)
    sessionQ,   \* the session tasks' channels
    control,    \* where run_control_task is
    controlQ,   \* the control task's channel
    unauth,     \* sessions declared and not authenticated
    rtbl,       \* the control task's routing table
    routing,    \* where run_routing_task is
    routingQ,   \* the routing task's channel
    view,       \* the routing task's copy of the table
    panicked    \* the task whose panic ended the process, or "none"

acceptVars  == <<stop, accept, accepted>>
sessionVars == <<sess, sending, reads, greeting>>
controlVars == <<control, unauth, rtbl>>
routingVars == <<routing, view>>
queues      == <<sessionQ, controlQ, routingQ>>
vars == <<acceptVars, sessionVars, controlVars, routingVars, queues, panicked>>

-----------------------------------------------------------------------------
(* Messages *)

\* n is the packet's place among those its client sent: it is not in the
\* code, and lets properties speak of order.
Clientbound == [kind : {"Voice", "Text", "Pong"}, from : SessionIds, n : Nat]

ControlMessage ==
    [kind : {"Packet"}, id : SessionIds, packet : Packets]
        \cup [kind : {"AddSession", "RemoveSession"}, id : SessionIds]
        \cup [kind : {"Shutdown"}]

RoutingMessage ==
    [kind : {"Voice", "Text"}, id : SessionIds, packet : Packets, n : Nat]
        \cup [kind : {"Update"}, table : Tables]
        \cup [kind : {"Shutdown"}]

AddSession(s)    == [kind |-> "AddSession", id |-> s]
RemoveSession(s) == [kind |-> "RemoveSession", id |-> s]
Update(t)        == [kind |-> "Update", table |-> t]
Shutdown         == [kind |-> "Shutdown"]

\* send() on a channel whose receiver is closed returns the message
SendControl(m) ==
    controlQ' = IF control = "open" THEN Append(controlQ, m) ELSE controlQ
SendRouting(m) ==
    routingQ' = IF routing = "open" THEN Append(routingQ, m) ELSE routingQ

\* send(..).expect("routing cannot be closed yet"), by the control task
ExpectRouting(m) ==
    /\ SendRouting(m)
    /\ panicked' = IF routing = "open" THEN panicked ELSE "control"

\* somebody still holds a sender of session s
Held(s) ==
    \/ \E i \in DOMAIN controlQ : controlQ[i] = AddSession(s)
    \/ s \in unauth
    \/ holds_session(rtbl, s)
    \/ \E i \in DOMAIN routingQ : /\ routingQ[i].kind = "Update"
                                  /\ holds_session(routingQ[i].table, s)
    \/ holds_session(view, s)

\* s has a receiver, so that sends to it succeed
Alive(s) == sess[s] \in {"active", "sending"}

\* a panic in a joined task unwinds run_stammer_task, and main with it
Running == panicked = "none"

\* handles join_all waits for no longer
Finished(s) == sess[s] \in {"none", "failed", "denied", "aborted", "graceful"}

-----------------------------------------------------------------------------
Init ==
    /\ stop = FALSE /\ accept = "running" /\ accepted = 0
    /\ sess = [s \in SessionIds |-> "none"]
    /\ sending = [s \in SessionIds |-> <<>>]
    /\ reads = [s \in SessionIds |-> 0]
    /\ greeting = [s \in SessionIds |-> "none"]
    /\ sessionQ = [s \in SessionIds |-> <<>>]
    /\ control = "open" /\ controlQ = <<>> /\ unauth = {} /\ rtbl = EmptyTable
    /\ routing = "open" /\ routingQ = <<>> /\ view = EmptyTable
    /\ panicked = "none"

-----------------------------------------------------------------------------
(* The accept task *)

\* the caller notifies stop (main.rs: ctrl-c)
NotifyStop ==
    /\ Running
    /\ ~stop
    /\ stop' = TRUE
    /\ UNCHANGED <<accept, accepted, sessionVars, controlVars, routingVars,
                   queues, panicked>>

AcceptConnection ==
    /\ Running
    /\ accept = "running"
    /\ accepted \in SessionIds
    /\ sess' = [sess EXCEPT ![accepted] = "handshake"]
    /\ accepted' = accepted + 1
    /\ UNCHANGED <<stop, accept, sending, reads, greeting, controlVars, routingVars,
                   queues, panicked>>

\* a plausible slip: both tasks are told at once
LeaveLoopTellsBoth ==
    /\ accept' = "joining"
    /\ SendControl(Shutdown)
    /\ SendRouting(Shutdown)
    /\ UNCHANGED <<stop, accepted, sessionVars, controlVars, routingVars,
                   sessionQ, panicked>>

\* out of the accept loop: Shutdown is sent, then join_all waits
LeaveLoop ==
    /\ accept' = "joining"
    /\ SendControl(Shutdown)
    /\ panicked' = IF control = "open" THEN panicked ELSE "accept"
    /\ UNCHANGED <<stop, accepted, sessionVars, controlVars, routingVars,
                   sessionQ, routingQ>>

AcceptStop     == Running /\ accept = "running" /\ stop /\ LeaveLoop
ListenerFailed == Running /\ accept = "running" /\ LeaveLoop

AcceptDone ==
    /\ Running
    /\ accept = "joining"
    /\ \A s \in SessionIds : Finished(s)
    /\ accept' = "stopped"
    /\ UNCHANGED <<stop, accepted, sessionVars, controlVars, routingVars,
                   queues, panicked>>

-----------------------------------------------------------------------------
(* Session task s *)

\* The exchange awaits the client with no timeout; then the session declares
\* itself, unless the control channel is closed.
VersionExchanged(s) ==
    /\ Running
    /\ sess[s] = "handshake"
    /\ sess' = [sess EXCEPT ![s] = IF control = "open" THEN "active" ELSE "denied"]
    /\ SendControl(AddSession(s))
    /\ UNCHANGED <<acceptVars, sending, reads, greeting, controlVars, routingVars,
                   sessionQ, routingQ, panicked>>

VersionExchangeFailed(s) ==
    /\ Running
    /\ sess[s] = "handshake"
    /\ sess' = [sess EXCEPT ![s] = "failed"]
    /\ UNCHANGED <<acceptVars, sending, reads, greeting, controlVars, routingVars,
                   queues, panicked>>

\* client_stream.next() yields a packet
Read(s) ==
    /\ Running
    /\ sess[s] = "active"
    /\ reads[s] < MaxReads
    /\ reads' = [reads EXCEPT ![s] = @ + 1]

ReadRouted(s, p) ==
    /\ Read(s)
    /\ p.kind \in {"Voice", "VoicePing", "Text"}
    /\ SendRouting([kind |-> IF p.kind = "Text" THEN "Text" ELSE "Voice",
                    id |-> s, packet |-> p, n |-> reads[s] + 1])
    /\ UNCHANGED <<acceptVars, sess, sending, greeting, controlVars, routingVars,
                   sessionQ, controlQ, panicked>>

\* the pong is written by the session itself, past its channel
ReadPing(s, p) ==
    /\ Read(s)
    /\ p.kind = "Ping"
    /\ sess' = [sess EXCEPT ![s] = "sending"]
    /\ sending' = [sending EXCEPT ![s] =
                        <<[kind |-> "Pong", from |-> s, n |-> reads[s] + 1]>>]
    /\ UNCHANGED <<acceptVars, greeting, controlVars, routingVars, queues, panicked>>

ReadControl(s, p) ==
    /\ Read(s)
    /\ p.kind \in {"Authenticate", "Other"}
    /\ SendControl([kind |-> "Packet", id |-> s, packet |-> p])
    /\ greeting' = [greeting EXCEPT ![s] =
                        IF control = "open" /\ @ = "none" THEN p.kind ELSE @]
    /\ UNCHANGED <<acceptVars, sess, sending, controlVars, routingVars,
                   sessionQ, routingQ, panicked>>

\* session_recv.next() yields a packet, which is written to the client
Forward(s) ==
    /\ Running
    /\ sess[s] = "active"
    /\ sessionQ[s] # <<>>
    /\ sess' = [sess EXCEPT ![s] = "sending"]
    /\ sending' = [sending EXCEPT ![s] = <<Head(sessionQ[s])>>]
    /\ sessionQ' = [sessionQ EXCEPT ![s] = Tail(@)]
    /\ UNCHANGED <<acceptVars, reads, greeting, controlVars, routingVars,
                   controlQ, routingQ, panicked>>

\* client_stream.send(..).await is done
Sent(s) ==
    /\ Running
    /\ sess[s] = "sending"
    /\ sess' = [sess EXCEPT ![s] = "active"]
    /\ sending' = [sending EXCEPT ![s] = <<>>]
    /\ UNCHANGED <<acceptVars, reads, greeting, controlVars, routingVars,
                   queues, panicked>>

\* the task ends; its receiver is dropped with what it holds
DropSession(s) ==
    /\ sess' = [sess EXCEPT ![s] = "aborted"]
    /\ sending' = [sending EXCEPT ![s] = <<>>]
    /\ sessionQ' = [sessionQ EXCEPT ![s] = <<>>]
    /\ UNCHANGED <<acceptVars, reads, greeting, controlVars, routingVars,
                   routingQ, panicked>>

\* a plausible slip: break without deregistering
AbortSilently(s) == DropSession(s) /\ UNCHANGED controlQ

\* deregister, then break
Abort(s) == DropSession(s) /\ SendControl(RemoveSession(s))

\* The connection ends or fails; no ping came for session_timeout, which is
\* checked only between two writes; a write to the client fails.
ConnectionLost(s)   == Running /\ sess[s] = "active" /\ Abort(s)
KeepaliveExpired(s) == Running /\ sess[s] = "active" /\ Abort(s)
SendFailed(s)       == Running /\ sess[s] = "sending" /\ Abort(s)

\* session_recv.next() yields None
Graceful(s) ==
    /\ Running
    /\ sess[s] = "active"
    /\ sessionQ[s] = <<>>
    /\ ~Held(s)
    /\ sess' = [sess EXCEPT ![s] = "graceful"]
    /\ UNCHANGED <<acceptVars, sending, reads, greeting, controlVars, routingVars,
                   queues, panicked>>

-----------------------------------------------------------------------------
(* The control task *)

ControlRecv(kind) ==
    /\ Running
    /\ control # "stopped"
    /\ controlQ # <<>>
    /\ Head(controlQ).kind = kind
    /\ controlQ' = Tail(controlQ)

\* a plausible slip: whatever an unauthenticated session sends enrolls it
EnrollOnAnyPacket ==
    /\ ControlRecv("Packet")
    /\ LET s == Head(controlQ).id
       IN  /\ unauth' = unauth \ {s}
           /\ \/ /\ s \in unauth
                 /\ rtbl' = enroll_session(rtbl, s)
                 /\ ExpectRouting(Update(rtbl'))
              \/ /\ s \notin unauth
                 /\ UNCHANGED <<rtbl, routingQ, panicked>>
    /\ UNCHANGED <<acceptVars, sessionVars, control, routingVars, sessionQ>>

\* handle_packet: an unauthenticated session is removed from unauth whatever
\* it sent; its sender moves to the table or is dropped.
ControlPacket ==
    /\ ControlRecv("Packet")
    /\ LET s == Head(controlQ).id
           authenticates == /\ ~holds_session(rtbl, s)
                            /\ s \in unauth
                            /\ Head(controlQ).packet.kind = "Authenticate"
       IN  /\ unauth' = IF holds_session(rtbl, s) THEN unauth ELSE unauth \ {s}
           /\ \/ /\ authenticates
                 /\ rtbl' = enroll_session(rtbl, s)
                 /\ ExpectRouting(Update(rtbl'))
              \/ /\ ~authenticates
                 /\ UNCHANGED <<rtbl, routingQ, panicked>>
    /\ UNCHANGED <<acceptVars, sessionVars, control, routingVars, sessionQ>>

\* a plausible slip: the key is the number of sessions, not the last id
AddSessionOffByOne ==
    /\ ControlRecv("AddSession")
    /\ unauth' = unauth \cup {Head(controlQ).id + 1}
    /\ UNCHANGED <<acceptVars, sessionVars, control, rtbl, routingVars,
                   sessionQ, routingQ, panicked>>

ControlAddSession ==
    /\ ControlRecv("AddSession")
    /\ unauth' = unauth \cup {Head(controlQ).id}
    /\ UNCHANGED <<acceptVars, sessionVars, control, rtbl, routingVars,
                   sessionQ, routingQ, panicked>>

\* a plausible slip: the table changes and the routing task is not told
RemoveWithoutUpdate ==
    /\ ControlRecv("RemoveSession")
    /\ LET s == Head(controlQ).id
       IN  /\ unauth' = unauth \ {s}
           /\ rtbl' = IF s \notin unauth /\ holds_session(rtbl, s)
                      THEN expel_session(rtbl, s) ELSE rtbl
    /\ UNCHANGED <<acceptVars, sessionVars, control, routingVars,
                   sessionQ, routingQ, panicked>>

ControlRemoveSession ==
    /\ ControlRecv("RemoveSession")
    /\ LET s == Head(controlQ).id
           expels == s \notin unauth /\ holds_session(rtbl, s)
       IN  /\ unauth' = unauth \ {s}
           /\ \/ /\ expels
                 /\ IF bad_memberships(rtbl, s)
                    THEN panicked' = "control" /\ UNCHANGED <<rtbl, routingQ>>
                    ELSE /\ rtbl' = expel_session(rtbl, s)
                         /\ ExpectRouting(Update(rtbl'))
              \/ /\ ~expels
                 /\ UNCHANGED <<rtbl, routingQ, panicked>>
    /\ UNCHANGED <<acceptVars, sessionVars, control, routingVars, sessionQ>>

ControlShutdown ==
    /\ ControlRecv("Shutdown")
    /\ control' = "closing"
    /\ UNCHANGED <<acceptVars, sessionVars, unauth, rtbl, routingVars,
                   sessionQ, routingQ, panicked>>

\* a plausible slip: the routing task is left waiting
ControlStopsAlone ==
    /\ Running
    /\ control = "closing"
    /\ controlQ = <<>>
    /\ control' = "stopped"
    /\ unauth' = {}
    /\ rtbl' = EmptyTable
    /\ UNCHANGED <<acceptVars, sessionVars, routingVars, queues, panicked>>

\* closed and drained: Shutdown goes to the routing task and the control
\* task's state, with the senders in it, is dropped
ControlStop ==
    /\ Running
    /\ control = "closing"
    /\ controlQ = <<>>
    /\ ExpectRouting(Shutdown)
    /\ control' = "stopped"
    /\ unauth' = {}
    /\ rtbl' = EmptyTable
    /\ UNCHANGED <<acceptVars, sessionVars, routingVars, sessionQ, controlQ>>

-----------------------------------------------------------------------------
(* The routing task *)

RoutingRecv(kind) ==
    /\ Running
    /\ routing # "stopped"
    /\ routingQ # <<>>
    /\ Head(routingQ).kind = kind
    /\ routingQ' = Tail(routingQ)

Repeat(p, k) == [i \in 1 .. k |-> p]

\* a plausible slip: what comes last is served first
DeliverFirst(copies, p) ==
    sessionQ' = [d \in SessionIds |->
                    IF Alive(d) THEN Repeat(p, copies[d]) \o sessionQ[d]
                                ELSE sessionQ[d]]

\* one send per copy; a send to a session that is gone fails and is skipped
Deliver(copies, p) ==
    sessionQ' = [d \in SessionIds |->
                    IF Alive(d) THEN sessionQ[d] \o Repeat(p, copies[d])
                                ELSE sessionQ[d]]

\* Audio for another target than 0, and audio pings, are unimplemented!, and
\* room_senders unwraps the speaker's room. The packet of a speaker that is
\* not in the table is dropped.
RoutingVoice ==
    /\ RoutingRecv("Voice")
    /\ LET m == Head(routingQ)
           unimplemented == \/ m.packet.kind = "VoicePing"
                            \/ m.packet.target # 0
           no_room == holds_session(view, m.id) /\ bad_memberships(view, m.id)
       IN  \/ /\ unimplemented \/ no_room
              /\ panicked' = "routing"
              /\ UNCHANGED sessionQ
           \/ /\ ~unimplemented
              /\ ~holds_session(view, m.id)
              /\ UNCHANGED <<sessionQ, panicked>>
           \/ /\ ~unimplemented
              /\ holds_session(view, m.id) /\ ~no_room
              /\ Deliver([d \in SessionIds |->
                            IF d \in target_senders(view, m.id) THEN 1 ELSE 0],
                         [kind |-> "Voice", from |-> m.id, n |-> m.n])
              /\ UNCHANGED panicked
    /\ UNCHANGED <<acceptVars, sessionVars, controlVars, routingVars, controlQ>>

\* The named sessions, then the members of the named rooms, the sender not
\* excluded: somebody named by his id and by his room gets two copies. The
\* recipients are found one after another while the text is sent: the rooms
\* ahead of an unknown one, whichever they are, have it before the panic. The
\* ids of a list are a set here; in the code each occurrence is one more copy.
RoutingText ==
    /\ RoutingRecv("Text")
    /\ LET m == Head(routingQ)
           unknown == {r \in m.packet.rooms : unknown_room(view, r)}
           direct(d) == IF d \in m.packet.sessions /\ holds_session(view, d)
                        THEN 1 ELSE 0
           rooms(d, R) == {r \in R : d \in room_senders(view, r, {})}
       IN  \E R \in SUBSET (m.packet.rooms \ unknown) :
              /\ Deliver([d \in SessionIds |-> direct(d) + Cardinality(rooms(d, R))],
                         [kind |-> "Text", from |-> m.id, n |-> m.n])
              /\ \/ unknown # {} /\ panicked' = "routing"
                 \/ unknown = {} /\ R = m.packet.rooms /\ UNCHANGED panicked
    /\ UNCHANGED <<acceptVars, sessionVars, controlVars, routingVars, controlQ>>

\* a plausible slip: the table received is not stored
UpdateIgnored ==
    /\ RoutingRecv("Update")
    /\ UNCHANGED <<acceptVars, sessionVars, controlVars, routingVars,
                   sessionQ, controlQ, panicked>>

RoutingUpdate ==
    /\ RoutingRecv("Update")
    /\ view' = Head(routingQ).table
    /\ UNCHANGED <<acceptVars, sessionVars, controlVars, routing,
                   sessionQ, controlQ, panicked>>

RoutingShutdown ==
    /\ RoutingRecv("Shutdown")
    /\ routing' = "closing"
    /\ UNCHANGED <<acceptVars, sessionVars, controlVars, view,
                   sessionQ, controlQ, panicked>>

RoutingStop ==
    /\ Running
    /\ routing = "closing"
    /\ routingQ = <<>>
    /\ routing' = "stopped"
    /\ view' = EmptyTable
    /\ UNCHANGED <<acceptVars, sessionVars, controlVars, queues, panicked>>

-----------------------------------------------------------------------------
(* The system *)

\* run_stammer_task returns when the three joined tasks have
Stopped == accept = "stopped" /\ control = "stopped" /\ routing = "stopped"

AcceptTask ==
    \/ AcceptConnection
    \/ AcceptStop
    \/ ListenerFailed
    \/ AcceptDone

SessionTask(s) ==
    \/ VersionExchanged(s)
    \/ VersionExchangeFailed(s)
    \/ \E p \in Packets : \/ ReadRouted(s, p)
                          \/ ReadPing(s, p)
                          \/ ReadControl(s, p)
    \/ Forward(s)
    \/ Sent(s)
    \/ ConnectionLost(s)
    \/ KeepaliveExpired(s)
    \/ SendFailed(s)
    \/ Graceful(s)

ControlTask ==
    \/ ControlPacket
    \/ ControlAddSession
    \/ ControlRemoveSession
    \/ ControlShutdown
    \/ ControlStop

RoutingTask ==
    \/ RoutingVoice
    \/ RoutingText
    \/ RoutingUpdate
    \/ RoutingShutdown
    \/ RoutingStop

\* nothing is left to do: the process is gone
Ended == (Stopped \/ ~Running) /\ UNCHANGED vars

Next ==
    \/ NotifyStop
    \/ AcceptTask
    \/ \E s \in SessionIds : SessionTask(s)
    \/ ControlTask
    \/ RoutingTask
    \/ Ended

Spec == Init /\ [][Next]_vars

\* Tokio polls a task that has something to do, and select! chooses at random
\* among the branches that are ready, so no ready branch waits for ever.
ServerFairness ==
    /\ WF_vars(ControlTask)
    /\ WF_vars(RoutingTask)
    /\ WF_vars(AcceptStop \/ AcceptDone)
    /\ \A s \in SessionIds : WF_vars(Forward(s) \/ Graceful(s))

\* What the server cannot enforce: a client ends the version exchange and
\* takes what is written to it, or its connection fails.
ClientFairness ==
    \A s \in SessionIds :
        /\ WF_vars(VersionExchanged(s) \/ VersionExchangeFailed(s))
        /\ WF_vars(Sent(s) \/ SendFailed(s))

ServerSpec == Spec /\ ServerFairness
FairSpec   == Spec /\ ServerFairness /\ ClientFairness

-----------------------------------------------------------------------------
(* Properties *)

\* Every variable has the type its Rust counterpart has.
TypeOK ==
    /\ stop \in BOOLEAN
    /\ accept \in {"running", "joining", "stopped"}
    /\ accepted \in Nat
    /\ sess \in [SessionIds -> {"none", "handshake", "active", "sending", "failed",
                                "denied", "aborted", "graceful"}]
    /\ sending \in [SessionIds -> Seq(Clientbound)]
    /\ reads \in [SessionIds -> Nat]
    /\ greeting \in [SessionIds -> {"none", "Authenticate", "Other"}]
    /\ sessionQ \in [SessionIds -> Seq(Clientbound)]
    /\ control \in {"open", "closing", "stopped"}
    /\ controlQ \in Seq(ControlMessage)
    /\ unauth \subseteq SessionIds
    /\ rtbl \in Tables
    /\ routing \in {"open", "closing", "stopped"}
    /\ routingQ \in Seq(RoutingMessage)
    /\ view \in Tables
    /\ panicked \in {"none", "accept", "control", "routing"}

\* The four send(..).expect(..) and the expect("bad memberships") of the
\* accept and control tasks never fail: a receiver is closed only by the
\* Shutdown its upstream task sends last, whatever the sessions do meanwhile.
NoExpectFails == panicked \notin {"accept", "control"}

\* The routing task lags behind the control task and never diverges from it:
\* once it has taken the updates that are queued, its table is the control
\* task's (every change of rtbl is followed by an Update, in order).
TableSync ==
    control # "stopped" =>
        \/ /\ rtbl = view
           /\ \A i \in DOMAIN routingQ : routingQ[i].kind # "Update"
        \/ \E i \in DOMAIN routingQ :
              /\ routingQ[i] = Update(rtbl)
              /\ \A j \in DOMAIN routingQ : j > i => routingQ[j].kind # "Update"

\* what the routing task's channel carries of tables
Item(m) == IF m.kind = "Update" THEN <<m.table>> ELSE <<>>
Mail == [i \in 1 .. Len(routingQ) |-> Item(routingQ[i])]

Log == INSTANCE TableLog WITH
    Table <- Tables, NoTable <- EmptyTable,
    owner <- rtbl, retired <- (control = "stopped"), mail <- Mail, copy <- view

\* The routing task goes through the control task's tables one by one: none
\* is skipped, repeated or overtaken by another, the control task announces
\* each as it changes, and the routing task keeps its copy until its channel
\* is closed and drained.
TablesInOrder == Log!Spec

\* Every copy of the table, the ones under way included, has each session in
\* the room its entry names, so that the routing task finds the room of a
\* speaker when it unwraps it.
TablesConsistent ==
    /\ Consistent(rtbl)
    /\ Consistent(view)
    /\ \A i \in DOMAIN routingQ :
          routingQ[i].kind = "Update" => Consistent(routingQ[i].table)

Queued(q, m) == \E i \in DOMAIN q : q[i] = m

\* While the control task takes messages, a session task that has ended has
\* left no trace in it, or its RemoveSession is on the way behind whatever
\* would add it: nobody is enrolled after having been removed.
Deregistered ==
    control = "open" =>
        \A s \in SessionIds :
            Finished(s) /\ ~Queued(controlQ, RemoveSession(s)) =>
                /\ ~Queued(controlQ, AddSession(s))
                /\ s \notin unauth
                /\ ~holds_session(rtbl, s)

\* As long as the control task takes messages, it lets no session go that has
\* sent nothing: the sender of a session that has declared itself is never
\* dropped, whatever the others do, so the session does not take the end of
\* its channel for a shutdown. (handle_packet does drop it for a first packet
\* that is not Authenticate.)
DroppedOnlyForPacket ==
    control = "open" =>
        \A s \in SessionIds : sess[s] = "graceful" => reads[s] > 0

\* Session s has been enrolled, although it may have left since: the first
\* packet it sent the control task was Authenticate, and the control task has
\* taken it out of unauth for that.
Enrolled(s) ==
    /\ greeting[s] = "Authenticate"
    /\ ~Queued(controlQ, AddSession(s)) /\ s \notin unauth

\* What is on its way to session d, from the client's socket backwards.
Inbound(d) == sending[d] \o sessionQ[d]

\* Voice and text reach only sessions that were enrolled, for Authenticate as
\* their first packet; voice comes from one that was, and never goes back to
\* the speaker. Neither a session that has only declared itself nor one that
\* handle_packet turned away for another first packet is sent anything but
\* pongs, whatever it sends later.
OnlyEnrolled ==
    \A d \in SessionIds : \A i \in DOMAIN Inbound(d) :
        LET p == Inbound(d)[i]
        IN  /\ p.kind # "Pong" => Enrolled(d)
            /\ p.kind = "Voice" => p.from # d /\ Enrolled(p.from)

\* Between two sessions nothing overtakes: what d has been sent by f is in
\* the order f's client sent it and ahead of what f has in the routing queue.
\* A voice packet arrives once.
DeliveryOrder ==
    \A d \in SessionIds :
        /\ \A i, j \in DOMAIN Inbound(d) :
              LET p == Inbound(d)[i]
                  q == Inbound(d)[j]
              IN  i < j /\ p.from = q.from /\ "Pong" \notin {p.kind, q.kind} =>
                    p.n < q.n \/ (p.n = q.n /\ p.kind = "Text")
        /\ \A i \in DOMAIN Inbound(d), j \in DOMAIN routingQ :
              LET p == Inbound(d)[i]
                  m == routingQ[j]
              IN  p.kind # "Pong" /\ m.kind \in {"Voice", "Text"} /\ m.id = p.from
                    => p.n < m.n

\* After the caller notifies stop, run_stammer_task returns (or has panicked).
ShutdownCompletes == stop ~> (Stopped \/ ~Running)

\* A session whose connection is lost is eventually out of the routing task's
\* table for good: RemoveSession, Update and the drain at shutdown all get
\* through.
LostSessionsLeave ==
    \A s \in SessionIds :
        (sess[s] = "aborted") ~>
            [](~holds_session(view, s) \/ ~Running)

\* A session that the control task has enrolled gets routable, or ends, or
\* the server stops.
EnrolledGetRoutable ==
    \A s \in SessionIds :
        holds_session(rtbl, s) ~>
            (holds_session(view, s) \/ Finished(s) \/ ~Running
                \/ control = "stopped")

=============================================================================
