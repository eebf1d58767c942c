--------------------------- MODULE RoutingTableOps ---------------------------
(***************************************************************************)
(* The routing table as a component: one table on which the methods of     *)
(* RoutingTable are called in any order the API's callers may use.         *)
(* The tasks never call _move_session today; it is part of the type's      *)
(* interface and is exercised here with the methods that are in use.       *)
(***************************************************************************)
EXTENDS RoutingTable

VARIABLES
    table,    \* the RoutingTable
    panicked  \* an expect("bad memberships") has failed

vars == <<table, panicked>>

Init == table = EmptyTable /\ panicked = FALSE

\* handle_packet enrolls a session only if the table does not hold it
Enroll(s) ==
    /\ ~holds_session(table, s)
    /\ table' = enroll_session(table, s)
    /\ UNCHANGED panicked

Expel(s) ==
    /\ holds_session(table, s)
    /\ IF bad_memberships(table, s)
       THEN panicked' = TRUE /\ UNCHANGED table
       ELSE table' = expel_session(table, s) /\ UNCHANGED panicked

Move(s, dest) ==
    /\ holds_session(table, s)
    /\ IF bad_memberships(table, s)
       THEN panicked' = TRUE /\ UNCHANGED table
       ELSE table' = move_session(table, s, dest) /\ UNCHANGED panicked

\* Both methods return an error for a session that is not held.
Unknown(s) == ~holds_session(table, s) /\ UNCHANGED vars

Next ==
    /\ ~panicked
    /\ \E s \in SessionIds :
          \/ Enroll(s)
          \/ Expel(s)
          \/ \E dest \in RoomIds : Move(s, dest)
          \/ Unknown(s)

Spec == Init /\ [][Next]_vars

-----------------------------------------------------------------------------
\* The table is one the type allows and panicked is a flag.
TypeOK == table \in Tables /\ panicked \in BOOLEAN

\* Entries and member sets agree after any sequence of enrolments, moves and
\* expulsions, so that expel_session and _move_session find the room they
\* expect ("bad memberships" in routing_table.rs).
Memberships == Consistent(table) /\ ~panicked

\* target_senders yields exactly the other sessions whose entry names the
\* speaker's room, however the sessions came to be there.
TargetsAreRoomPeers ==
    \A s \in DOMAIN table.sessions :
        target_senders(table, s) =
            {d \in DOMAIN table.sessions \ {s} :
                table.sessions[d] = table.sessions[s]}

\* A room, once entered, never disappears from the table, so a room that one
\* caller has seen can be looked up later (room_senders unwraps the lookup).
RoomsPersist == [][DOMAIN table.rooms \subseteq DOMAIN table'.rooms]_vars

=============================================================================
