-------------------------- MODULE RoutingTableProofs --------------------------
(***************************************************************************)
(* The routing table keeps entries and memberships in agreement under any  *)
(* sequence of calls, for any session and room ids. Memberships is         *)
(* inductive together with the type invariant.                             *)
(***************************************************************************)
EXTENDS RoutingTableOps, RoutingTableLemmas

IInv == TypeOK /\ Memberships

LEMMA InitIInv == Init => IInv
BY EmptyTableType, EmptyTableConsistent DEF Init, IInv, TypeOK, Memberships

LEMMA NextIInv == IInv /\ [Next]_vars => IInv'
<1> SUFFICES ASSUME IInv, [Next]_vars PROVE IInv'
  OBVIOUS
<1> USE DEF IInv, TypeOK, Memberships
<1>1. CASE UNCHANGED vars
  BY <1>1 DEF vars
<1>2. ASSUME NEW s \in SessionIds, Enroll(s) PROVE IInv'
  BY <1>2, EnrollTable DEF Enroll
<1>3. ASSUME NEW s \in SessionIds, Expel(s) PROVE IInv'
  BY <1>3, ExpelTable DEF Expel
<1>4. ASSUME NEW s \in SessionIds, NEW dest \in RoomIds, Move(s, dest) PROVE IInv'
  BY <1>4, MoveTable DEF Move
<1>5. ASSUME NEW s \in SessionIds, Unknown(s) PROVE IInv'
  BY <1>5 DEF Unknown, vars
<1> QED
  BY <1>1, <1>2, <1>3, <1>4, <1>5 DEF Next

\* The table always has the type the RoutingTable struct gives it.
THEOREM TypeCorrect == Spec => []TypeOK
<1>1. IInv => TypeOK
  BY DEF IInv
<1> QED
  BY InitIInv, NextIInv, <1>1, PTL DEF Spec

\* expel_session and _move_session never fail their expect("bad memberships"),
\* since entries and member sets agree after any calls.
THEOREM MembershipsAgree == Spec => []Memberships
<1>1. IInv => Memberships
  BY DEF IInv
<1> QED
  BY InitIInv, NextIInv, <1>1, PTL DEF Spec

\* Voice reaches exactly the speaker's peers: target_senders reads the member
\* set of a room, and agreement makes that the sessions in that room.
THEOREM TargetsCorrect == Spec => []TargetsAreRoomPeers
<1>1. IInv => TargetsAreRoomPeers
  <2> SUFFICES ASSUME IInv, NEW s \in DOMAIN table.sessions
               PROVE  target_senders(table, s) =
                        {d \in DOMAIN table.sessions \ {s} :
                            table.sessions[d] = table.sessions[s]}
    BY DEF TargetsAreRoomPeers
  <2> QED
    BY DEF IInv, Memberships, Consistent, target_senders, room_senders, holds_session
<1> QED
  BY InitIInv, NextIInv, <1>1, PTL DEF Spec

\* No call ever removes a room from the table.
THEOREM RoomsStay == Spec => RoomsPersist
<1>1. IInv /\ [Next]_vars => [DOMAIN table.rooms \subseteq DOMAIN table'.rooms]_vars
  <2> SUFFICES ASSUME IInv, Next
               PROVE  DOMAIN table.rooms \subseteq DOMAIN table'.rooms
    OBVIOUS
  <2> USE DEF IInv, TypeOK, Memberships
  <2>1. ASSUME NEW s \in SessionIds, Enroll(s)
        PROVE  DOMAIN table.rooms \subseteq DOMAIN table'.rooms
    BY <2>1, EnrollTable DEF Enroll
  <2>2. ASSUME NEW s \in SessionIds, Expel(s)
        PROVE  DOMAIN table.rooms \subseteq DOMAIN table'.rooms
    BY <2>2, ExpelTable DEF Expel
  <2>3. ASSUME NEW s \in SessionIds, NEW dest \in RoomIds, Move(s, dest)
        PROVE  DOMAIN table.rooms \subseteq DOMAIN table'.rooms
    BY <2>3, MoveTable DEF Move
  <2>4. ASSUME NEW s \in SessionIds, Unknown(s)
        PROVE  DOMAIN table.rooms \subseteq DOMAIN table'.rooms
    BY <2>4 DEF Unknown, vars
  <2> QED
    BY <2>1, <2>2, <2>3, <2>4 DEF Next
<1> QED
  BY InitIInv, NextIInv, <1>1, PTL DEF Spec, RoomsPersist
=============================================================================
