---------------------------- MODULE RoutingTable ----------------------------
(***************************************************************************)
(* The routing table of the stammer server (stammer/src/routing_table.rs): *)
(* which sessions are authenticated, and which room each of them is in.    *)
(* The control task owns one and sends copies of it to the routing task,   *)
(* so a table is a value here and its methods are operators on it.         *)
(*                                                                         *)
(* A Session record holds a room id, the client's version and the sending  *)
(* half of the session's channel. The version is never read again, and the *)
(* sender stored under an id is always that session's own, so a session's  *)
(* entry is its room, and "the senders" of an operation are session ids.   *)
(***************************************************************************)
EXTENDS Naturals, Functions

CONSTANTS
    SessionIds,  \* ids the accept task may hand out
    RoomIds      \* room ids a client may name

\* let room_id = 0u32 as RoomID; // default room
DefaultRoom == 0

ASSUME IdsAssumption ==
    /\ SessionIds \subseteq Nat
    /\ DefaultRoom \in RoomIds

-----------------------------------------------------------------------------
(* Tables *)

PartialMaps(S, T) == UNION {[D -> T] : D \in SUBSET S}

Tables == [sessions : PartialMaps(SessionIds, RoomIds),
           rooms    : PartialMaps(RoomIds, SUBSET SessionIds)]

\* RoutingTable::default()
EmptyTable == [sessions |-> [s \in {} |-> DefaultRoom],
               rooms    |-> [r \in {} |-> {}]]

\* HashMap::insert
Insert(f, k, v) == [x \in DOMAIN f \cup {k} |-> IF x = k THEN v ELSE f[x]]

\* rooms.entry(r).or_insert(Room::default()).members.insert(s)
AddMember(rooms, r, s) ==
    Insert(rooms, r, (IF r \in DOMAIN rooms THEN rooms[r] ELSE {}) \cup {s})

\* rooms.get_mut(r).members.remove(s), for a room that exists
RemoveMember(rooms, r, s) == [rooms EXCEPT ![r] = @ \ {s}]

-----------------------------------------------------------------------------
(* Methods *)

holds_session(t, s) == s \in DOMAIN t.sessions

\* the expect("bad memberships") of expel_session and _move_session panics
bad_memberships(t, s) == t.sessions[s] \notin DOMAIN t.rooms

\* a plausible slip: every session gets a room of its own
enroll_own_room(t, s) ==
    [sessions |-> Insert(t.sessions, s, s + 1),
     rooms    |-> AddMember(t.rooms, s + 1, s)]

enroll_session(t, s) ==
    [sessions |-> Insert(t.sessions, s, DefaultRoom),
     rooms    |-> AddMember(t.rooms, DefaultRoom, s)]

\* a plausible slip: a room that gets empty is dropped with its last member
expel_drops_room(t, s) ==
    [sessions |-> Restrict(t.sessions, DOMAIN t.sessions \ {s}),
     rooms    |-> IF t.rooms[t.sessions[s]] = {s}
                  THEN Restrict(t.rooms, DOMAIN t.rooms \ {t.sessions[s]})
                  ELSE RemoveMember(t.rooms, t.sessions[s], s)]

\* a plausible slip: the membership is left behind
expel_keeps_member(t, s) ==
    [t EXCEPT !.sessions = Restrict(@, DOMAIN @ \ {s})]

\* expel_session of a held session; for an unknown one it returns an error
expel_session(t, s) ==
    [sessions |-> Restrict(t.sessions, DOMAIN t.sessions \ {s}),
     rooms    |-> RemoveMember(t.rooms, t.sessions[s], s)]

\* a plausible slip: the session joins a room without leaving the other
move_joins_only(t, s, dest) ==
    [sessions |-> [t.sessions EXCEPT ![s] = dest],
     rooms    |-> AddMember(t.rooms, dest, s)]

\* _move_session of a held session; for an unknown one it returns an error
move_session(t, s, dest) ==
    [sessions |-> [t.sessions EXCEPT ![s] = dest],
     rooms    |-> AddMember(RemoveMember(t.rooms, t.sessions[s], s), dest, s)]

\* rooms.get(&room_id).unwrap() panics for a room nobody has entered yet
unknown_room(t, r) == r \notin DOMAIN t.rooms

\* the members of a room that exists, but for the excluded ones, whose
\* sender is found; exclude stands for the Option: a set of at most one id
room_senders(t, r, exclude) ==
    {s \in t.rooms[r] \ exclude : holds_session(t, s)}

\* a plausible slip: the speaker is not excluded
target_with_speaker(t, s) == room_senders(t, t.sessions[s], {})

\* target_senders for target 0: everybody else in the speaker's room
target_senders(t, s) == room_senders(t, t.sessions[s], {s})

-----------------------------------------------------------------------------
(***************************************************************************)
(* A session's entry and the rooms' member sets say the same thing: every  *)
(* held session is a member of the room its entry names, and of no other,  *)
(* and rooms have no other members. This is what the two                   *)
(* expect("bad memberships") rely on, and what makes target_senders reach  *)
(* every peer in the room and nobody else.                                 *)
(***************************************************************************)
Consistent(t) ==
    /\ \A s \in DOMAIN t.sessions : /\ t.sessions[s] \in DOMAIN t.rooms
                                    /\ s \in t.rooms[t.sessions[s]]
    /\ \A r \in DOMAIN t.rooms : \A s \in t.rooms[r] :
            s \in DOMAIN t.sessions /\ t.sessions[s] = r

=============================================================================
