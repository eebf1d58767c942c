-------------------------- MODULE RoutingTableLemmas --------------------------
(***************************************************************************)
(* What the methods of the routing table preserve, for any sets of session *)
(* and room ids: they yield tables, and they keep entries and memberships  *)
(* in agreement.                                                           *)
(***************************************************************************)
EXTENDS RoutingTable, TLAPS

\* A function is a partial map if its domain and values are in bounds.
LEMMA PartialMapIntro ==
    ASSUME NEW S, NEW T, NEW D \in SUBSET S, NEW f \in [D -> T]
    PROVE  f \in PartialMaps(S, T)
BY DEF PartialMaps

\* The domain and the values of a partial map are in bounds.
LEMMA PartialMapElim ==
    ASSUME NEW S, NEW T, NEW f \in PartialMaps(S, T)
    PROVE  /\ DOMAIN f \in SUBSET S
           /\ f \in [DOMAIN f -> T]
           /\ \A x \in DOMAIN f : f[x] \in T
BY DEF PartialMaps

\* HashMap::insert yields a map with one more key or another value.
LEMMA InsertType ==
    ASSUME NEW S, NEW T, NEW f \in PartialMaps(S, T), NEW k \in S, NEW v \in T
    PROVE  Insert(f, k, v) \in PartialMaps(S, T)
<1>1. DOMAIN f \in SUBSET S /\ \A x \in DOMAIN f : f[x] \in T
  BY PartialMapElim
<1>2. Insert(f, k, v) \in [DOMAIN f \cup {k} -> T]
  BY <1>1 DEF Insert
<1>3. DOMAIN f \cup {k} \in SUBSET S
  BY <1>1
<1> QED
  BY <1>2, <1>3, PartialMapIntro

\* Leaving keys out of a map yields a map.
LEMMA RestrictType ==
    ASSUME NEW S, NEW T, NEW f \in PartialMaps(S, T), NEW D \in SUBSET DOMAIN f
    PROVE  Restrict(f, D) \in PartialMaps(S, T)
<1>1. DOMAIN f \in SUBSET S /\ \A x \in DOMAIN f : f[x] \in T
  BY PartialMapElim
<1>2. Restrict(f, D) \in [D -> T]
  BY <1>1 DEF Restrict
<1> QED
  BY <1>1, <1>2, PartialMapIntro

\* The table both tasks start with is a table.
LEMMA EmptyTableType == EmptyTable \in Tables
<1>1. [s \in {} |-> DefaultRoom] \in PartialMaps(SessionIds, RoomIds)
  <2>1. [s \in {} |-> DefaultRoom] \in [{} -> RoomIds]
    OBVIOUS
  <2> QED
    BY <2>1 DEF PartialMaps
<1>2. [r \in {} |-> {}] \in PartialMaps(RoomIds, SUBSET SessionIds)
  <2>1. [r \in {} |-> {}] \in [{} -> SUBSET SessionIds]
    OBVIOUS
  <2> QED
    BY <2>1 DEF PartialMaps
<1> QED
  BY <1>1, <1>2 DEF EmptyTable, Tables

LEMMA EmptyTableConsistent == Consistent(EmptyTable)
BY DEF EmptyTable, Consistent

\* A member added to or removed from a room leaves a map of rooms.
LEMMA MembersType ==
    ASSUME NEW rooms \in PartialMaps(RoomIds, SUBSET SessionIds),
           NEW r \in RoomIds, NEW s \in SessionIds
    PROVE  /\ AddMember(rooms, r, s) \in PartialMaps(RoomIds, SUBSET SessionIds)
           /\ r \in DOMAIN rooms =>
                RemoveMember(rooms, r, s) \in PartialMaps(RoomIds, SUBSET SessionIds)
<1>1. DOMAIN rooms \in SUBSET RoomIds /\ \A x \in DOMAIN rooms : rooms[x] \in SUBSET SessionIds
  BY PartialMapElim
<1>2. (IF r \in DOMAIN rooms THEN rooms[r] ELSE {}) \cup {s} \in SUBSET SessionIds
  BY <1>1
<1>3. AddMember(rooms, r, s) \in PartialMaps(RoomIds, SUBSET SessionIds)
  BY <1>2, InsertType DEF AddMember
<1>4. ASSUME r \in DOMAIN rooms
      PROVE  RemoveMember(rooms, r, s) \in PartialMaps(RoomIds, SUBSET SessionIds)
  <2>1. rooms \in [DOMAIN rooms -> SUBSET SessionIds]
    BY PartialMapElim
  <2>2. RemoveMember(rooms, r, s) \in [DOMAIN rooms -> SUBSET SessionIds]
    BY <2>1, <1>1, <1>4 DEF RemoveMember
  <2> QED
    BY <2>2, <1>1, PartialMapIntro
<1> QED
  BY <1>3, <1>4

\* The parts of a table.
LEMMA TableParts ==
    ASSUME NEW t \in Tables
    PROVE  /\ t = [sessions |-> t.sessions, rooms |-> t.rooms]
           /\ t.sessions \in PartialMaps(SessionIds, RoomIds)
           /\ t.rooms \in PartialMaps(RoomIds, SUBSET SessionIds)
           /\ DOMAIN t.sessions \in SUBSET SessionIds
           /\ t.sessions \in [DOMAIN t.sessions -> RoomIds]
           /\ DOMAIN t.rooms \in SUBSET RoomIds
           /\ t.rooms \in [DOMAIN t.rooms -> SUBSET SessionIds]
<1>1. /\ t = [sessions |-> t.sessions, rooms |-> t.rooms]
      /\ t.sessions \in PartialMaps(SessionIds, RoomIds)
      /\ t.rooms \in PartialMaps(RoomIds, SUBSET SessionIds)
  BY DEF Tables
<1>2. DOMAIN t.sessions \in SUBSET SessionIds /\ t.sessions \in [DOMAIN t.sessions -> RoomIds]
  BY <1>1, PartialMapElim
<1>3. DOMAIN t.rooms \in SUBSET RoomIds /\ t.rooms \in [DOMAIN t.rooms -> SUBSET SessionIds]
  BY <1>1, PartialMapElim
<1> QED
  BY <1>1, <1>2, <1>3

\* enroll_session puts the session, and nobody else, into the default room.
LEMMA EnrollTable ==
    ASSUME NEW t \in Tables, NEW s \in SessionIds
    PROVE  /\ enroll_session(t, s) \in Tables
           /\ DOMAIN enroll_session(t, s).sessions = DOMAIN t.sessions \cup {s}
           /\ DOMAIN enroll_session(t, s).rooms = DOMAIN t.rooms \cup {DefaultRoom}
           /\ Consistent(t) /\ ~holds_session(t, s)
                => Consistent(enroll_session(t, s))
<1> DEFINE e == enroll_session(t, s)
<1>1. e \in Tables
  BY TableParts, InsertType, MembersType, IdsAssumption DEF enroll_session, Tables
<1>2. /\ DOMAIN e.sessions = DOMAIN t.sessions \cup {s}
      /\ DOMAIN e.rooms = DOMAIN t.rooms \cup {DefaultRoom}
  BY DEF enroll_session, Insert, AddMember
<1>3. /\ e.sessions[s] = DefaultRoom
      /\ \A x \in DOMAIN t.sessions : x # s => e.sessions[x] = t.sessions[x]
      /\ e.rooms[DefaultRoom] = (IF DefaultRoom \in DOMAIN t.rooms THEN t.rooms[DefaultRoom] ELSE {}) \cup {s}
      /\ \A r \in DOMAIN t.rooms : r # DefaultRoom => e.rooms[r] = t.rooms[r]
  BY DEF enroll_session, Insert, AddMember
<1>4. ASSUME Consistent(t), ~holds_session(t, s)
      PROVE  Consistent(e)
  <2> HIDE DEF e
  <2> QED
    BY <1>2, <1>3, <1>4 DEF Consistent, holds_session
<1> QED
  BY <1>1, <1>2, <1>4

\* expel_session of a held session whose room exists yields a table.
LEMMA ExpelType ==
    ASSUME NEW t \in Tables, NEW s \in SessionIds, holds_session(t, s),
           ~bad_memberships(t, s)
    PROVE  expel_session(t, s) \in Tables
<1> DEFINE room == t.sessions[s]
<1>1. room \in DOMAIN t.rooms
  BY DEF bad_memberships
<1>2. room \in RoomIds
  BY TableParts DEF holds_session
<1>3. Restrict(t.sessions, DOMAIN t.sessions \ {s}) \in PartialMaps(SessionIds, RoomIds)
  BY TableParts, RestrictType
<1>4. RemoveMember(t.rooms, room, s) \in PartialMaps(RoomIds, SUBSET SessionIds)
  BY <1>1, <1>2, TableParts, MembersType
<1> QED
  BY <1>3, <1>4 DEF expel_session, Tables

\* expel_session of a held session removes it from its room and from the table.
LEMMA ExpelTable ==
    ASSUME NEW t \in Tables, NEW s \in SessionIds, holds_session(t, s), Consistent(t)
    PROVE  /\ ~bad_memberships(t, s)
           /\ expel_session(t, s) \in Tables
           /\ DOMAIN expel_session(t, s).sessions = DOMAIN t.sessions \ {s}
           /\ DOMAIN expel_session(t, s).rooms = DOMAIN t.rooms
           /\ Consistent(expel_session(t, s))
<1> DEFINE e == expel_session(t, s)
           room == t.sessions[s]
<1>1. ~bad_memberships(t, s) /\ room \in DOMAIN t.rooms
  BY DEF bad_memberships, Consistent, holds_session
<1>2. e \in Tables
  BY <1>1, ExpelType
<1>3. /\ DOMAIN e.sessions = DOMAIN t.sessions \ {s}
      /\ DOMAIN e.rooms = DOMAIN t.rooms
      /\ \A x \in DOMAIN e.sessions : e.sessions[x] = t.sessions[x]
      /\ e.rooms[room] = t.rooms[room] \ {s}
      /\ \A r \in DOMAIN t.rooms : r # room => e.rooms[r] = t.rooms[r]
  BY <1>1 DEF expel_session, Restrict, RemoveMember
<1>4. Consistent(e)
  <2> HIDE DEF e
  <2> QED
    BY <1>1, <1>3 DEF Consistent, holds_session
<1> QED
  BY <1>1, <1>2, <1>3, <1>4

\* _move_session of a held session takes it from its room to the other one,
\* which may be the same.
LEMMA MoveTable ==
    ASSUME NEW t \in Tables, NEW s \in SessionIds, NEW dest \in RoomIds,
           holds_session(t, s), Consistent(t)
    PROVE  /\ ~bad_memberships(t, s)
           /\ move_session(t, s, dest) \in Tables
           /\ DOMAIN move_session(t, s, dest).sessions = DOMAIN t.sessions
           /\ DOMAIN move_session(t, s, dest).rooms = DOMAIN t.rooms \cup {dest}
           /\ Consistent(move_session(t, s, dest))
<1> DEFINE e == move_session(t, s, dest)
           room == t.sessions[s]
           left == RemoveMember(t.rooms, room, s)
<1>1. ~bad_memberships(t, s) /\ room \in DOMAIN t.rooms
  BY DEF bad_memberships, Consistent, holds_session
<1>2. room \in RoomIds
  BY TableParts DEF holds_session
<1>3. left \in PartialMaps(RoomIds, SUBSET SessionIds)
  BY <1>1, <1>2, TableParts, MembersType
<1>4. AddMember(left, dest, s) \in PartialMaps(RoomIds, SUBSET SessionIds)
  <2> HIDE DEF left
  <2> QED
    BY <1>3, MembersType
<1>5. [t.sessions EXCEPT ![s] = dest] \in PartialMaps(SessionIds, RoomIds)
  <2>1. [t.sessions EXCEPT ![s] = dest] \in [DOMAIN t.sessions -> RoomIds]
    BY TableParts
  <2> QED
    BY <2>1, TableParts, PartialMapIntro
<1>6. e \in Tables
  BY <1>4, <1>5 DEF move_session, Tables
<1>7. /\ DOMAIN left = DOMAIN t.rooms
      /\ left[room] = t.rooms[room] \ {s}
      /\ \A r \in DOMAIN t.rooms : r # room => left[r] = t.rooms[r]
  BY <1>1 DEF RemoveMember
<1>8. /\ DOMAIN e.sessions = DOMAIN t.sessions
      /\ DOMAIN e.rooms = DOMAIN left \cup {dest}
      /\ e.sessions[s] = dest
      /\ \A x \in DOMAIN t.sessions : x # s => e.sessions[x] = t.sessions[x]
      /\ e.rooms[dest] = (IF dest \in DOMAIN left THEN left[dest] ELSE {}) \cup {s}
      /\ \A r \in DOMAIN left : r # dest => e.rooms[r] = left[r]
  <2> HIDE DEF left
  <2>1. e = [sessions |-> [t.sessions EXCEPT ![s] = dest], rooms |-> AddMember(left, dest, s)]
    BY DEF move_session, left
  <2> QED
    BY <2>1 DEF AddMember, Insert, holds_session
<1>9. Consistent(e)
  <2> HIDE DEF e, left
  <2> QED
    BY <1>1, <1>7, <1>8 DEF Consistent, holds_session
<1> QED
  BY <1>1, <1>6, <1>7, <1>8, <1>9
=============================================================================
