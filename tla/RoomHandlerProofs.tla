--------------------------- MODULE RoomHandlerProofs ---------------------------
(***************************************************************************)
(* Proofs about the room bookkeeping of RoomHandler, for any finite set of *)
(* connections and any sets of users and queues.                           *)
(***************************************************************************)
EXTENDS RoomHandler, FiniteSetTheorems, TLAPS

-----------------------------------------------------------------------------
(* The table operators stay within the types.                              *)

\* retain() keeps the rooms and their type.
LEMMA LeaveRoomType ==
  ASSUME TypeOK, NEW c \in Conns
  PROVE  /\ DOMAIN LeaveRoom(c) = DOMAIN rooms
         /\ LeaveRoom(c) \in [DOMAIN rooms -> [Conns -> Nat]]
<1>1. CASE active_room[c] = None
  BY <1>1 DEF LeaveRoom, TypeOK
<1>2. CASE active_room[c] # None
  BY <1>2 DEF LeaveRoom, TypeOK
<1> QED BY <1>1, <1>2

\* or_insert_with(Vec::new) adds the missing rooms and changes no other.
LEMMA EntryType ==
  ASSUME NEW rs, rs \in [DOMAIN rs -> [Conns -> Nat]],
         NEW R
  PROVE  /\ DOMAIN Entry(rs, R) = DOMAIN rs \cup R
         /\ Entry(rs, R) \in [DOMAIN rs \cup R -> [Conns -> Nat]]
BY DEF Entry, EmptyVec

\* push() after entry() keeps the type.
LEMMA JoinRoomType ==
  ASSUME TypeOK, NEW c \in Conns, NEW r \in RoomNames
  PROVE  /\ DOMAIN JoinRoom(c, r) = DOMAIN rooms \cup {r}
         /\ JoinRoom(c, r) \in [DOMAIN rooms \cup {r} -> [Conns -> Nat]]
<1> DEFINE E == Entry(LeaveRoom(c), {r})
<1>1. DOMAIN LeaveRoom(c) = DOMAIN rooms /\ LeaveRoom(c) \in [DOMAIN rooms -> [Conns -> Nat]]
  BY LeaveRoomType
<1>2. E \in [DOMAIN rooms \cup {r} -> [Conns -> Nat]]
  BY <1>1, EntryType
<1> HIDE DEF E
<1>3. JoinRoom(c, r) = [E EXCEPT ![r][c] = @ + 1]
  BY DEF JoinRoom, E
<1>4. E[r][c] + 1 \in Nat
  BY <1>2
<1> QED BY <1>2, <1>3, <1>4

\* Copies is 0 or the entry of the table.
LEMMA CopiesType ==
  ASSUME TypeOK, NEW r \in RoomNames, NEW c \in Conns
  PROVE  Copies(r, c) \in Nat
BY DEF Copies, TypeOK

-----------------------------------------------------------------------------
(* Type correctness.                                                       *)

LEMMA EnterRoomType ==
  ASSUME TypeOK, NEW c \in Conns, NEW r \in RoomNames, EnterRoom(c, r)
  PROVE  /\ DOMAIN rooms' \subseteq RoomNames
         /\ rooms' \in [DOMAIN rooms' -> [Conns -> Nat]]
         /\ active_room' \in [Conns -> RoomNames \cup {None}]
         /\ bcast' \in [RoomNames -> Nat]
         /\ base' \in [Conns -> Nat]
         /\ got' \in [Conns -> Nat]
<1>1. rooms' = JoinRoom(c, r)
  BY DEF EnterRoom
<1>2. DOMAIN rooms \subseteq RoomNames
  BY DEF TypeOK
<1>3. DOMAIN rooms' \subseteq RoomNames /\ rooms' \in [DOMAIN rooms' -> [Conns -> Nat]]
  BY <1>1, <1>2, JoinRoomType
<1>4. bcast[r] \in Nat
  BY DEF TypeOK
<1> QED BY <1>3, <1>4 DEF EnterRoom, TypeOK

LEMMA ForgetType ==
  ASSUME TypeOK, NEW c \in Conns
  PROVE  Forget(c) \in [Users -> Conns \cup {None}]
BY DEF Forget, TypeOK

LEMMA BroadcastType ==
  ASSUME TypeOK, NEW q \in Queues, NEW k \in Nat, NEW m \in Nat, Broadcast(q, k, m)
  PROVE  /\ DOMAIN rooms' \subseteq RoomNames
         /\ rooms' \in [DOMAIN rooms' -> [Conns -> Nat]]
         /\ bcast' \in [RoomNames -> Nat]
         /\ base' \in [Conns -> Nat]
         /\ got' \in [Conns -> Nat]
<1> DEFINE R == (IF k > 0 THEN {q} ELSE {}) \cup (IF m > 0 THEN {Lobby} ELSE {})
<1>1. R \subseteq RoomNames /\ q \in RoomNames /\ Lobby \in RoomNames
  BY DEF RoomNames
<1>2. rooms' = Entry(rooms, R)
  BY DEF Broadcast
<1>3. rooms \in [DOMAIN rooms -> [Conns -> Nat]] /\ DOMAIN rooms \subseteq RoomNames
  BY DEF TypeOK
<1> HIDE DEF R
<1>4. DOMAIN rooms' = DOMAIN rooms \cup R /\ rooms' \in [DOMAIN rooms \cup R -> [Conns -> Nat]]
  BY <1>2, <1>3, EntryType
<1>5. DOMAIN rooms' \subseteq RoomNames /\ rooms' \in [DOMAIN rooms' -> [Conns -> Nat]]
  BY <1>1, <1>3, <1>4
<1>6. ASSUME NEW c \in Conns
      PROVE  got[c] + k * Copies(q, c) + m * Copies(Lobby, c) \in Nat
  <2>1. Copies(q, c) \in Nat /\ Copies(Lobby, c) \in Nat
    BY <1>1, CopiesType
  <2>2. got[c] \in Nat
    BY DEF TypeOK
  <2>3. k * Copies(q, c) \in Nat /\ m * Copies(Lobby, c) \in Nat
    BY <2>1
  <2> QED BY <2>2, <2>3
<1>7. got' \in [Conns -> Nat]
  BY <1>6 DEF Broadcast
<1>8. bcast' \in [RoomNames -> Nat]
  BY <1>1 DEF Broadcast, TypeOK
<1> QED BY <1>5, <1>7, <1>8 DEF Broadcast, TypeOK

LEMMA SendUserMessagesType ==
  ASSUME TypeOK, NEW F \in SUBSET Users, SendUserMessages(F)
  PROVE  mail' \in [Conns -> SUBSET Users]
BY DEF SendUserMessages, TypeOK

LEMMA PanicType == TypeOK /\ Panic => TypeOK'
BY DEF Panic, TypeOK, EmptyVec

LEMMA TypeInit == Init => TypeOK
BY ConstantsAssumption DEF Init, TypeOK, EmptyVec, RoomNames

LEMMA TypeNext ==
  ASSUME TypeOK, LiveConnections, [Next]_vars
  PROVE  TypeOK'
<1> USE DEF serverVars, handlerVars, roomHist
<1>1. ASSUME NEW c \in Conns, OnOpen(c) PROVE TypeOK'
  BY <1>1 DEF OnOpen, TypeOK
<1>2. ASSUME NEW c \in Conns, OnClose(c) PROVE TypeOK'
  <2>1. c \in {d \in Conns : conn[d] = "open"}
    BY <1>2 DEF OnClose
  <2>2. IsFiniteSet({d \in Conns : conn[d] = "open"})
    BY ConstantsAssumption, FS_Subset
  <2>3. count # 0
    BY <2>1, <2>2, FS_EmptySet DEF LiveConnections
  <2>4. count - 1 \in Nat
    BY <2>3 DEF TypeOK
  <2>5. DOMAIN rooms' \subseteq RoomNames /\ rooms' \in [DOMAIN rooms' -> [Conns -> Nat]]
    BY <1>2, LeaveRoomType DEF OnClose, TypeOK
  <2>6. ugkthid_map' \in [Users -> Conns \cup {None}]
    BY <1>2, ForgetType DEF OnClose
  <2> QED BY <1>2, <2>4, <2>5, <2>6 DEF OnClose, TypeOK
<1>3. ASSUME NEW c \in Conns, OnError(c) PROVE TypeOK'
  <2>1. ugkthid_map' \in [Users -> Conns \cup {None}]
    BY <1>3, ForgetType DEF OnError
  <2> QED BY <1>3, <2>1 DEF OnError, TypeOK
<1>4. ASSUME NEW c \in Conns, SubscribeLobby(c) PROVE TypeOK'
  <2>1. Lobby \in RoomNames /\ EnterRoom(c, Lobby)
    BY <1>4 DEF RoomNames, SubscribeLobby
  <2> QED BY <1>4, <2>1, EnterRoomType DEF SubscribeLobby, TypeOK
<1>5. ASSUME NEW c \in Conns, Unsubscribe(c) PROVE TypeOK'
  <2>1. DOMAIN rooms' \subseteq RoomNames /\ rooms' \in [DOMAIN rooms' -> [Conns -> Nat]]
    BY <1>5, LeaveRoomType DEF Unsubscribe, TypeOK
  <2> QED BY <1>5, <2>1 DEF Unsubscribe, TypeOK
<1>6. ASSUME NEW c \in Conns, NEW q \in Queues, NEW u \in Users \cup {None},
             SubscribeQueue(c, q, u)
      PROVE  TypeOK'
  <2>1. /\ ugkthid_map' \in [Users -> Conns \cup {None}]
        /\ user_ugkthid' \in [Conns -> Users \cup {None}]
        /\ presented' \in [Conns -> SUBSET Users]
    BY <1>6 DEF SubscribeQueue, Identify, TypeOK
  <2>2. CASE q \in queues
    <3>1. q \in RoomNames /\ EnterRoom(c, q)
      BY <1>6, <2>2 DEF RoomNames, SubscribeQueue
    <3> QED BY <1>6, <2>1, <3>1, EnterRoomType DEF SubscribeQueue, TypeOK
  <2>3. CASE q \notin queues
    BY <1>6, <2>1, <2>3 DEF SubscribeQueue, TypeOK
  <2> QED BY <2>2, <2>3
<1>7. ASSUME NEW c \in Conns, NEW q \in Queues, AnnounceToRoomAndLobby(c, q)
      PROVE  TypeOK'
  <2>1. Broadcast(q, 1, 1)
    BY <1>7 DEF AnnounceToRoomAndLobby
  <2> QED BY <1>7, <2>1, BroadcastType DEF AnnounceToRoomAndLobby, TypeOK
<1>8. ASSUME NEW c \in Conns, NEW q \in Queues, NEW k \in 0 .. MaxPurge,
             AnnounceToRoom(c, q, k)
      PROVE  TypeOK'
  <2>1. Broadcast(q, k, 0) /\ k \in Nat
    BY <1>8 DEF AnnounceToRoom
  <2> QED BY <1>8, <2>1, BroadcastType DEF AnnounceToRoom, TypeOK
<1>9. ASSUME NEW c \in Conns, NEW q \in Queues, NEW u \in Users, BadLocation(c, q, u)
      PROVE  TypeOK'
  <2>1. Broadcast(q, 1, 0) /\ SendUserMessages({u})
    BY <1>9 DEF BadLocation
  <2>2. mail' \in [Conns -> SUBSET Users]
    BY <2>1, SendUserMessagesType
  <2> QED BY <1>9, <2>1, <2>2, BroadcastType DEF BadLocation, TypeOK
<1>10. ASSUME NEW c \in Conns, NEW F \in SUBSET Users, DirectMessages(c, F)
       PROVE  TypeOK'
  <2>1. mail' \in [Conns -> SUBSET Users]
    BY <1>10, SendUserMessagesType DEF DirectMessages
  <2> QED BY <1>10, <2>1 DEF DirectMessages, TypeOK
<1>11. ASSUME NEW c \in Conns, NEW q \in Queues, AddQueue(c, q) PROVE TypeOK'
  <2>1. CASE q \in queues
    BY <1>11, <2>1, PanicType DEF AddQueue
  <2>2. CASE q \notin queues
    BY <1>11, <2>2 DEF AddQueue, TypeOK
  <2> QED BY <2>1, <2>2
<1>12. ASSUME NEW c \in Conns, NEW q \in Queues, RemoveQueue(c, q) PROVE TypeOK'
  BY <1>12 DEF RemoveQueue, TypeOK
<1>13. ASSUME NEW c \in Conns, NEW q \in Queues, NEW new \in Queues, RenameQueue(c, q, new)
       PROVE  TypeOK'
  BY <1>13 DEF RenameQueue, TypeOK
<1>14. CASE UNCHANGED vars
  BY <1>14 DEF vars, TypeOK
<1> QED
  BY <1>1, <1>2, <1>3, <1>4, <1>5, <1>6, <1>7, <1>8, <1>9, <1>10, <1>11, <1>12, <1>13, <1>14,
     PanicType
  DEF Next, Crash

-----------------------------------------------------------------------------
(* The live connections.                                                   *)

Live == {c \in Conns : conn[c] = "open"}

LEMMA LiveInit == Init => LiveConnections
<1> SUFFICES ASSUME Init PROVE LiveConnections
  OBVIOUS
<1>1. {c \in Conns : conn[c] = "open"} = {}
  BY DEF Init
<1> QED BY <1>1, FS_EmptySet DEF Init, LiveConnections

\* A step that leaves the connections and the count alone, and gives room and
\* user state to an open connection only, keeps LiveConnections.
LEMMA LiveFrame ==
  ASSUME TypeOK, LiveConnections, NEW c \in Conns, conn[c] = "open",
         UNCHANGED <<conn, count>>,
         \A d \in Conns \ {c} : /\ active_room'[d] = active_room[d]
                                /\ user_ugkthid'[d] = user_ugkthid[d]
  PROVE  LiveConnections'
BY DEF LiveConnections

LEMMA LiveNext ==
  ASSUME TypeOK, LiveConnections, [Next]_vars
  PROVE  LiveConnections'
<1> USE DEF serverVars, handlerVars, roomHist
<1>0. IsFiniteSet(Live) /\ count = Cardinality(Live)
  BY ConstantsAssumption, FS_Subset DEF Live, LiveConnections
<1>1. ASSUME NEW c \in Conns, OnOpen(c) PROVE LiveConnections'
  <2>1. Live' = Live \cup {c} /\ c \notin Live
    BY <1>1 DEF OnOpen, Live, TypeOK
  <2>2. count' = Cardinality(Live')
    BY <1>0, <1>1, <2>1, FS_AddElement DEF OnOpen
  <2>3. \A d \in Conns : conn'[d] # "open" => active_room'[d] = None /\ user_ugkthid'[d] = None
    BY <1>1 DEF OnOpen, LiveConnections, TypeOK
  <2> QED BY <2>2, <2>3 DEF LiveConnections, Live
<1>2. ASSUME NEW c \in Conns, OnClose(c) PROVE LiveConnections'
  <2>1. Live' = Live \ {c} /\ c \in Live
    BY <1>2 DEF OnClose, Live, TypeOK
  <2>2. count' = Cardinality(Live')
    BY <1>0, <1>2, <2>1, FS_RemoveElement DEF OnClose
  <2>3. \A d \in Conns : conn'[d] # "open" => active_room'[d] = None /\ user_ugkthid'[d] = None
    BY <1>2 DEF OnClose, LiveConnections, TypeOK
  <2> QED BY <2>2, <2>3 DEF LiveConnections, Live
<1>3. ASSUME NEW c \in Conns, OnError(c) PROVE LiveConnections'
  BY <1>3, LiveFrame DEF OnError, TypeOK
<1>4. ASSUME NEW c \in Conns, SubscribeLobby(c) PROVE LiveConnections'
  BY <1>4, LiveFrame DEF SubscribeLobby, EnterRoom, TypeOK
<1>5. ASSUME NEW c \in Conns, Unsubscribe(c) PROVE LiveConnections'
  BY <1>5, LiveFrame DEF Unsubscribe, TypeOK
<1>6. ASSUME NEW c \in Conns, NEW q \in Queues, NEW u \in Users \cup {None},
             SubscribeQueue(c, q, u)
      PROVE  LiveConnections'
  <2>1. \A d \in Conns \ {c} : active_room'[d] = active_room[d]
    BY <1>6 DEF SubscribeQueue, EnterRoom, TypeOK
  <2>2. \A d \in Conns \ {c} : user_ugkthid'[d] = user_ugkthid[d]
    BY <1>6 DEF SubscribeQueue, Identify, TypeOK
  <2> QED BY <1>6, <2>1, <2>2, LiveFrame DEF SubscribeQueue
<1>7. ASSUME Panic PROVE LiveConnections'
  <2>1. Live' = {}
    BY <1>7 DEF Panic, Live, TypeOK
  <2>2. count' = Cardinality(Live')
    BY <1>7, <2>1, FS_EmptySet DEF Panic
  <2> QED BY <1>7, <2>2 DEF LiveConnections, Live, Panic
<1>8. ASSUME UNCHANGED <<conn, count, handlerVars>> PROVE LiveConnections'
  BY <1>8 DEF LiveConnections
<1>9. CASE UNCHANGED vars
  BY <1>8, <1>9 DEF vars
<1>10. CASE Next
  BY <1>1, <1>2, <1>3, <1>4, <1>5, <1>6, <1>7, <1>8, <1>10
  DEF Next, AnnounceToRoomAndLobby, AnnounceToRoom, BadLocation, DirectMessages,
      Crash, AddQueue, RemoveQueue, RenameQueue
<1> QED BY <1>9, <1>10

\* The types are right in every state of the web socket server.
THEOREM TypeCorrect == Spec => []TypeOK
<1>1. Init => TypeOK /\ LiveConnections
  BY TypeInit, LiveInit
<1>2. TypeOK /\ LiveConnections /\ [Next]_vars => (TypeOK /\ LiveConnections)'
  BY TypeNext, LiveNext
<1> QED BY <1>1, <1>2, PTL DEF Spec

\* Closed connections hold no room or user, and count is the number of live ones.
THEOREM LiveConnectionsCorrect == Spec => []LiveConnections
<1>1. Init => TypeOK /\ LiveConnections
  BY TypeInit, LiveInit
<1>2. TypeOK /\ LiveConnections /\ [Next]_vars => (TypeOK /\ LiveConnections)'
  BY TypeNext, LiveNext
<1> QED BY <1>1, <1>2, PTL DEF Spec

-----------------------------------------------------------------------------
(* The two records of a subscription.                                      *)

LEMMA MembershipInit == Init => RoomMembership
BY DEF Init, RoomMembership

\* leave_room: the connection is in no room afterwards, the others stay.
LEMMA LeaveRoomMembers ==
  ASSUME TypeOK, RoomMembership, NEW c \in Conns
  PROVE  \A d \in Conns : \A r \in DOMAIN rooms :
           LeaveRoom(c)[r][d] = IF d # c /\ r = active_room[d] THEN 1 ELSE 0
<1> SUFFICES ASSUME NEW d \in Conns, NEW r \in DOMAIN rooms
             PROVE  LeaveRoom(c)[r][d] = IF d # c /\ r = active_room[d] THEN 1 ELSE 0
  OBVIOUS
<1>0. r # None
  BY ConstantsAssumption DEF TypeOK, RoomNames
<1>1. CASE active_room[c] = None
  BY <1>0, <1>1 DEF LeaveRoom, RoomMembership
<1>2. CASE active_room[c] # None
  BY <1>2 DEF LeaveRoom, RoomMembership, TypeOK
<1> QED BY <1>1, <1>2

\* join_room_internal: the connection is once in the room it joins.
LEMMA EnterRoomMembers ==
  ASSUME TypeOK, RoomMembership, NEW c \in Conns, NEW r \in RoomNames, EnterRoom(c, r)
  PROVE  RoomMembership'
<1> DEFINE L == LeaveRoom(c)
           E == Entry(L, {r})
<1>1. DOMAIN L = DOMAIN rooms /\ L \in [DOMAIN rooms -> [Conns -> Nat]]
  BY LeaveRoomType
<1>2. \A d \in Conns : \A s \in DOMAIN rooms :
        L[s][d] = IF d # c /\ s = active_room[d] THEN 1 ELSE 0
  BY LeaveRoomMembers
<1>3. \A d \in Conns : active_room[d] # None => active_room[d] \in DOMAIN rooms
  BY DEF RoomMembership
<1> HIDE DEF L
<1>4. E \in [DOMAIN rooms \cup {r} -> [Conns -> Nat]]
  BY <1>1, EntryType
<1>5. \A d \in Conns : \A s \in DOMAIN rooms \cup {r} :
        E[s][d] = IF d # c /\ s = active_room[d] THEN 1 ELSE 0
  <2> SUFFICES ASSUME NEW d \in Conns, NEW s \in DOMAIN rooms \cup {r}
               PROVE  E[s][d] = IF d # c /\ s = active_room[d] THEN 1 ELSE 0
    OBVIOUS
  <2>1. CASE s \in DOMAIN rooms
    BY <1>1, <1>2, <2>1 DEF Entry
  <2>2. CASE s \notin DOMAIN rooms
    <3>1. s # active_room[d]
      BY <1>3, <2>2, ConstantsAssumption DEF RoomNames
    <3> QED BY <1>1, <2>2, <3>1 DEF Entry, EmptyVec
  <2> QED BY <2>1, <2>2
<1> HIDE DEF E
<1>6. rooms' = [E EXCEPT ![r][c] = @ + 1]
  BY DEF EnterRoom, JoinRoom, E, L
<1>7. DOMAIN rooms' = DOMAIN rooms \cup {r}
  BY <1>4, <1>6
<1>8. active_room' = [active_room EXCEPT ![c] = r]
  BY DEF EnterRoom
<1>9. ASSUME NEW d \in Conns
      PROVE  active_room'[d] # None => active_room'[d] \in DOMAIN rooms'
  BY <1>3, <1>7, <1>8 DEF TypeOK
<1>10. ASSUME NEW d \in Conns, NEW s \in DOMAIN rooms'
       PROVE  rooms'[s][d] = IF s = active_room'[d] THEN 1 ELSE 0
  <2>1. s \in DOMAIN rooms \cup {r} /\ E[s] \in [Conns -> Nat]
    BY <1>4, <1>7
  <2>2. CASE d = c /\ s = r
    BY <1>4, <1>5, <1>6, <1>8, <2>1, <2>2 DEF TypeOK
  <2>3. CASE d = c /\ s # r
    BY <1>4, <1>5, <1>6, <1>8, <2>1, <2>3 DEF TypeOK
  <2>4. CASE d # c
    BY <1>4, <1>5, <1>6, <1>8, <2>1, <2>4 DEF TypeOK
  <2> QED BY <2>2, <2>3, <2>4
<1> QED BY <1>9, <1>10 DEF RoomMembership

\* A step that only creates empty rooms changes no membership.
LEMMA EntryMembers ==
  ASSUME TypeOK, RoomMembership, NEW R \in SUBSET RoomNames,
         rooms' = Entry(rooms, R), UNCHANGED active_room
  PROVE  RoomMembership'
<1>1. DOMAIN rooms' = DOMAIN rooms \cup R
  BY DEF Entry
<1>2. \A d \in Conns : active_room[d] # None => active_room[d] \in DOMAIN rooms
  BY DEF RoomMembership
<1>3. ASSUME NEW d \in Conns, NEW s \in DOMAIN rooms'
      PROVE  rooms'[s][d] = IF s = active_room'[d] THEN 1 ELSE 0
  <2>1. CASE s \in DOMAIN rooms
    BY <1>1, <2>1 DEF Entry, RoomMembership
  <2>2. CASE s \notin DOMAIN rooms
    <3>1. s # active_room[d]
      BY <1>1, <1>2, <2>2, ConstantsAssumption DEF RoomNames
    <3> QED BY <1>1, <2>2, <3>1 DEF Entry, EmptyVec
  <2> QED BY <2>1, <2>2
<1> QED BY <1>1, <1>2, <1>3 DEF RoomMembership

LEMMA BroadcastMembers ==
  ASSUME TypeOK, RoomMembership, NEW q \in Queues, NEW k \in Nat, NEW m \in Nat,
         Broadcast(q, k, m), UNCHANGED active_room
  PROVE  RoomMembership'
<1> DEFINE R == (IF k > 0 THEN {q} ELSE {}) \cup (IF m > 0 THEN {Lobby} ELSE {})
<1>1. R \in SUBSET RoomNames /\ rooms' = Entry(rooms, R)
  BY DEF RoomNames, Broadcast
<1> HIDE DEF R
<1> QED BY <1>1, EntryMembers

\* A step whose rooms are those after leave_room(c), c being in no room then.
LEMMA LeaveMembers ==
  ASSUME TypeOK, RoomMembership, NEW c \in Conns, rooms' = LeaveRoom(c),
         active_room' = [active_room EXCEPT ![c] = None]
  PROVE  RoomMembership'
<1>1. DOMAIN rooms' = DOMAIN rooms /\ DOMAIN rooms \subseteq RoomNames
  BY LeaveRoomType DEF TypeOK
<1>2. \A d \in Conns : \A s \in DOMAIN rooms :
        rooms'[s][d] = IF d # c /\ s = active_room[d] THEN 1 ELSE 0
  BY LeaveRoomMembers
<1>3. \A s \in DOMAIN rooms : s # None
  BY <1>1, ConstantsAssumption DEF RoomNames
<1>4. ASSUME NEW d \in Conns
      PROVE  /\ active_room'[d] # None => active_room'[d] \in DOMAIN rooms'
             /\ \A s \in DOMAIN rooms' : rooms'[s][d] = IF s = active_room'[d] THEN 1 ELSE 0
  <2>1. CASE d = c
    BY <1>1, <1>2, <1>3, <2>1 DEF TypeOK
  <2>2. CASE d # c
    <3>1. active_room'[d] = active_room[d]
      BY <2>2 DEF TypeOK
    <3> QED BY <1>1, <1>2, <2>2, <3>1 DEF RoomMembership
  <2> QED BY <2>1, <2>2
<1> QED BY <1>4 DEF RoomMembership

LEMMA MembershipNext ==
  ASSUME TypeOK, RoomMembership, [Next]_vars
  PROVE  RoomMembership'
<1> USE DEF serverVars, handlerVars, roomHist
<1>1. ASSUME NEW c \in Conns, OnClose(c) PROVE RoomMembership'
  BY <1>1, LeaveMembers DEF OnClose
<1>2. ASSUME NEW c \in Conns, Unsubscribe(c) PROVE RoomMembership'
  BY <1>2, LeaveMembers DEF Unsubscribe
<1>3. ASSUME NEW c \in Conns, SubscribeLobby(c) PROVE RoomMembership'
  BY <1>3, EnterRoomMembers DEF SubscribeLobby, RoomNames
<1>4. ASSUME NEW c \in Conns, NEW q \in Queues, NEW u \in Users \cup {None},
             SubscribeQueue(c, q, u)
      PROVE  RoomMembership'
  <2>1. CASE q \in queues
    BY <1>4, <2>1, EnterRoomMembers DEF SubscribeQueue, RoomNames
  <2>2. CASE q \notin queues
    BY <1>4, <2>2 DEF SubscribeQueue, RoomMembership
  <2> QED BY <2>1, <2>2
<1>5. ASSUME NEW c \in Conns, NEW q \in Queues, AnnounceToRoomAndLobby(c, q)
      PROVE  RoomMembership'
  BY <1>5, BroadcastMembers DEF AnnounceToRoomAndLobby
<1>6. ASSUME NEW c \in Conns, NEW q \in Queues, NEW k \in 0 .. MaxPurge,
             AnnounceToRoom(c, q, k)
      PROVE  RoomMembership'
  <2>1. k \in Nat
    OBVIOUS
  <2> QED BY <1>6, <2>1, BroadcastMembers DEF AnnounceToRoom
<1>7. ASSUME NEW c \in Conns, NEW q \in Queues, NEW u \in Users, BadLocation(c, q, u)
      PROVE  RoomMembership'
  BY <1>7, BroadcastMembers DEF BadLocation
<1>8. ASSUME Panic PROVE RoomMembership'
  BY <1>8 DEF Panic, RoomMembership
<1>9. ASSUME UNCHANGED <<rooms, active_room>> PROVE RoomMembership'
  BY <1>9 DEF RoomMembership
<1>10. CASE UNCHANGED vars
  BY <1>9, <1>10 DEF vars
<1>11. CASE Next
  BY <1>1, <1>2, <1>3, <1>4, <1>5, <1>6, <1>7, <1>8, <1>9, <1>11
  DEF Next, OnOpen, OnError, Crash, DirectMessages, AddQueue, RemoveQueue, RenameQueue
<1> QED BY <1>10, <1>11

\* A connection is once in its active room and in no other, so that the unwrap()
\* of leave_room never fails.
THEOREM RoomMembershipCorrect == Spec => []RoomMembership
<1>1. Init => RoomMembership
  BY MembershipInit
<1>2. TypeOK /\ RoomMembership /\ [Next]_vars => RoomMembership'
  BY MembershipNext
<1> QED BY <1>1, <1>2, TypeCorrect, PTL DEF Spec

-----------------------------------------------------------------------------
(* Delivery: what a send loop adds to a connection's messages.             *)

\* Under RoomMembership a broadcast reaches each member of a room once and
\* nobody else: the effect that Subscriptions!Publish prescribes.
LEMMA BroadcastReach ==
  ASSUME TypeOK, RoomMembership, NEW q \in Queues, NEW k \in Nat, NEW m \in Nat,
         Broadcast(q, k, m)
  PROVE  got' = [c \in Conns |-> got[c] + (CASE active_room[c] = q     -> k
                                             [] active_room[c] = Lobby -> m
                                             [] OTHER                  -> 0)]
<1>1. q # Lobby /\ q # None /\ Lobby # None
  BY ConstantsAssumption
<1>2. ASSUME NEW c \in Conns, NEW r \in RoomNames, r # None
      PROVE  Copies(r, c) = IF r = active_room[c] THEN 1 ELSE 0
  BY <1>2 DEF Copies, RoomMembership
<1>3. q \in RoomNames /\ Lobby \in RoomNames
  BY DEF RoomNames
<1>4. ASSUME NEW c \in Conns
      PROVE  got[c] + k * Copies(q, c) + m * Copies(Lobby, c)
               = got[c] + (CASE active_room[c] = q     -> k
                             [] active_room[c] = Lobby -> m
                             [] OTHER                  -> 0)
  <2>0. got[c] \in Nat
    BY DEF TypeOK
  <2>1. CASE active_room[c] = q
    <3>1. Copies(q, c) = 1 /\ Copies(Lobby, c) = 0
      BY <1>1, <1>2, <1>3, <2>1
    <3> QED BY <1>1, <2>0, <2>1, <3>1
  <2>2. CASE active_room[c] = Lobby
    <3>1. Copies(q, c) = 0 /\ Copies(Lobby, c) = 1
      BY <1>1, <1>2, <1>3, <2>2
    <3> QED BY <1>1, <2>0, <2>2, <3>1
  <2>3. CASE active_room[c] # q /\ active_room[c] # Lobby
    <3>1. Copies(q, c) = 0 /\ Copies(Lobby, c) = 0
      BY <1>1, <1>2, <1>3, <2>3
    <3> QED BY <2>0, <2>3, <3>1
  <2> QED BY <2>1, <2>2, <2>3
<1> QED BY <1>4 DEF Broadcast

LEMMA DeliveryInit == Init => ExactlyOnce
BY DEF Init, ExactlyOnce

LEMMA EnterRoomDelivery ==
  ASSUME TypeOK, ExactlyOnce, NEW c \in Conns, NEW r \in RoomNames, EnterRoom(c, r)
  PROVE  ExactlyOnce'
<1>1. r # None /\ bcast[r] \in Nat
  BY ConstantsAssumption DEF RoomNames, TypeOK
<1>2. ASSUME NEW d \in Conns, d # c
      PROVE  UNCHANGED <<active_room[d], got[d], base[d], bcast>>
  BY <1>2 DEF EnterRoom, TypeOK
<1>3. active_room'[c] = r /\ got'[c] = 0 /\ base'[c] = bcast[r] /\ bcast' = bcast
  BY DEF EnterRoom, TypeOK
<1> QED BY <1>1, <1>2, <1>3 DEF ExactlyOnce

LEMMA BroadcastDelivery ==
  ASSUME TypeOK, RoomMembership, ExactlyOnce, NEW q \in Queues, NEW k \in Nat, NEW m \in Nat,
         Broadcast(q, k, m), UNCHANGED active_room
  PROVE  ExactlyOnce'
<1>1. q # Lobby /\ q # None /\ Lobby # None /\ q \in RoomNames /\ Lobby \in RoomNames
  BY ConstantsAssumption DEF RoomNames
<1>2. /\ bcast' \in [RoomNames -> Nat]
      /\ bcast'[q] = bcast[q] + k
      /\ bcast'[Lobby] = bcast[Lobby] + m
      /\ \A r \in RoomNames \ {q, Lobby} : bcast'[r] = bcast[r]
  BY <1>1 DEF Broadcast, TypeOK
<1> SUFFICES ASSUME NEW c \in Conns
             PROVE  IF active_room[c] = None THEN got'[c] = 0
                    ELSE got'[c] + base[c] = bcast'[active_room[c]]
  BY DEF ExactlyOnce, Broadcast
<1>3. /\ got[c] \in Nat /\ base[c] \in Nat
      /\ bcast[q] \in Nat /\ bcast[Lobby] \in Nat
      /\ active_room[c] \in RoomNames \cup {None}
  BY <1>1 DEF TypeOK
<1>4. IF active_room[c] = None THEN got[c] = 0
      ELSE got[c] + base[c] = bcast[active_room[c]]
  BY DEF ExactlyOnce
<1>5. got'[c] = got[c] + (CASE active_room[c] = q     -> k
                            [] active_room[c] = Lobby -> m
                            [] OTHER                  -> 0)
  BY BroadcastReach
<1>6. CASE active_room[c] = q
  BY <1>1, <1>2, <1>3, <1>4, <1>5, <1>6
<1>7. CASE active_room[c] = Lobby
  BY <1>1, <1>2, <1>3, <1>4, <1>5, <1>7
<1>8. CASE active_room[c] \notin {q, Lobby}
  <2>1. got'[c] = got[c]
    BY <1>3, <1>5, <1>8
  <2> QED BY <1>2, <1>3, <1>4, <1>8, <2>1
<1> QED BY <1>6, <1>7, <1>8

LEMMA LeaveDelivery ==
  ASSUME TypeOK, ExactlyOnce, NEW c \in Conns,
         active_room' = [active_room EXCEPT ![c] = None],
         got' = [got EXCEPT ![c] = 0], UNCHANGED <<base, bcast>>
  PROVE  ExactlyOnce'
BY DEF ExactlyOnce, TypeOK

LEMMA DeliveryNext ==
  ASSUME TypeOK, RoomMembership, ExactlyOnce, [Next]_vars
  PROVE  ExactlyOnce'
<1> USE DEF serverVars, handlerVars, roomHist
<1>1. ASSUME NEW c \in Conns, OnClose(c) PROVE ExactlyOnce'
  BY <1>1, LeaveDelivery DEF OnClose
<1>2. ASSUME NEW c \in Conns, Unsubscribe(c) PROVE ExactlyOnce'
  BY <1>2, LeaveDelivery DEF Unsubscribe
<1>3. ASSUME NEW c \in Conns, SubscribeLobby(c) PROVE ExactlyOnce'
  BY <1>3, EnterRoomDelivery DEF SubscribeLobby, RoomNames
<1>4. ASSUME NEW c \in Conns, NEW q \in Queues, NEW u \in Users \cup {None},
             SubscribeQueue(c, q, u)
      PROVE  ExactlyOnce'
  <2>1. CASE q \in queues
    BY <1>4, <2>1, EnterRoomDelivery DEF SubscribeQueue, RoomNames
  <2>2. CASE q \notin queues
    BY <1>4, <2>2 DEF SubscribeQueue, ExactlyOnce
  <2> QED BY <2>1, <2>2
<1>5. ASSUME NEW c \in Conns, NEW q \in Queues, AnnounceToRoomAndLobby(c, q)
      PROVE  ExactlyOnce'
  BY <1>5, BroadcastDelivery DEF AnnounceToRoomAndLobby
<1>6. ASSUME NEW c \in Conns, NEW q \in Queues, NEW k \in 0 .. MaxPurge,
             AnnounceToRoom(c, q, k)
      PROVE  ExactlyOnce'
  <2>1. k \in Nat
    OBVIOUS
  <2> QED BY <1>6, <2>1, BroadcastDelivery DEF AnnounceToRoom
<1>7. ASSUME NEW c \in Conns, NEW q \in Queues, NEW u \in Users, BadLocation(c, q, u)
      PROVE  ExactlyOnce'
  BY <1>7, BroadcastDelivery DEF BadLocation
<1>8. ASSUME Panic PROVE ExactlyOnce'
  BY <1>8 DEF Panic, ExactlyOnce
<1>9. ASSUME UNCHANGED <<active_room, roomHist>> PROVE ExactlyOnce'
  BY <1>9 DEF ExactlyOnce
<1>10. CASE UNCHANGED vars
  BY <1>9, <1>10 DEF vars
<1>11. CASE Next
  BY <1>1, <1>2, <1>3, <1>4, <1>5, <1>6, <1>7, <1>8, <1>9, <1>11
  DEF Next, OnOpen, OnError, Crash, DirectMessages, AddQueue, RemoveQueue, RenameQueue
<1> QED BY <1>10, <1>11

\* While it is in a room a connection is sent each broadcast exactly once.
THEOREM ExactlyOnceCorrect == Spec => []ExactlyOnce
<1>1. Init => ExactlyOnce
  BY DeliveryInit
<1>2. TypeOK /\ RoomMembership /\ ExactlyOnce /\ [Next]_vars => ExactlyOnce'
  BY DeliveryNext
<1> QED BY <1>1, <1>2, TypeCorrect, RoomMembershipCorrect, PTL DEF Spec

-----------------------------------------------------------------------------
(* Refinement.                                                             *)

LEMMA PromiseInit == Init => Promise!Init
BY DEF Init, Promise!Init

\* Every step of a handler is a step of the publish-subscribe service.
LEMMA PromiseNext ==
  ASSUME TypeOK, RoomMembership, [Next]_vars
  PROVE  [Promise!Next]_(Promise!subVars)
<1> USE DEF serverVars, handlerVars, roomHist
<1>0. RoomNames = Promise!RoomNames
  BY DEF RoomNames, Promise!RoomNames
<1>1. ASSUME UNCHANGED <<active_room, got>> PROVE UNCHANGED Promise!subVars
  BY <1>1 DEF Promise!subVars
<1>2. ASSUME NEW c \in Conns, OnClose(c) PROVE Promise!Next
  <2>1. Promise!Unsubscribe(c)
    BY <1>2 DEF OnClose, Promise!Unsubscribe
  <2> QED BY <2>1 DEF Promise!Next
<1>3. ASSUME NEW c \in Conns, Unsubscribe(c) PROVE Promise!Next
  <2>1. Promise!Unsubscribe(c)
    BY <1>3 DEF Unsubscribe, Promise!Unsubscribe
  <2> QED BY <2>1 DEF Promise!Next
<1>4. ASSUME NEW c \in Conns, NEW r \in RoomNames, EnterRoom(c, r) PROVE Promise!Next
  <2>1. Promise!Subscribe(c, r)
    BY <1>4 DEF EnterRoom, Promise!Subscribe
  <2> QED BY <1>0, <2>1 DEF Promise!Next
<1>5. ASSUME NEW q \in Queues, NEW k \in 0 .. MaxPurge, NEW m \in 0 .. MaxPurge,
             Broadcast(q, k, m), UNCHANGED active_room
      PROVE  Promise!Next
  <2>1. k \in Nat /\ m \in Nat
    OBVIOUS
  <2>2. Promise!Publish(q, k, m)
    BY <1>5, <2>1, BroadcastReach DEF Promise!Publish
  <2> QED BY <2>2 DEF Promise!Next
<1>6. ASSUME Panic PROVE Promise!Next
  <2>1. Promise!Restart
    BY <1>6 DEF Panic, Promise!Restart
  <2> QED BY <2>1 DEF Promise!Next
<1>7. 0 \in 0 .. MaxPurge /\ 1 \in 0 .. MaxPurge
  BY ConstantsAssumption
<1>8. ASSUME NEW c \in Conns, NEW q \in Queues, NEW u \in Users \cup {None},
             SubscribeQueue(c, q, u)
      PROVE  Promise!Next \/ UNCHANGED Promise!subVars
  <2>1. CASE q \in queues
    BY <1>4, <1>8, <2>1 DEF SubscribeQueue, RoomNames
  <2>2. CASE q \notin queues
    BY <1>1, <1>8, <2>2 DEF SubscribeQueue
  <2> QED BY <2>1, <2>2
<1>9. ASSUME NEW c \in Conns, NEW q \in Queues, AddQueue(c, q)
      PROVE  Promise!Next \/ UNCHANGED Promise!subVars
  BY <1>1, <1>6, <1>9 DEF AddQueue
<1>10. ASSUME NEW c \in Conns, SubscribeLobby(c) PROVE Promise!Next
  BY <1>4, <1>10 DEF SubscribeLobby, RoomNames
<1>11. ASSUME NEW c \in Conns, NEW q \in Queues, AnnounceToRoomAndLobby(c, q) PROVE Promise!Next
  BY <1>5, <1>7, <1>11 DEF AnnounceToRoomAndLobby
<1>12. ASSUME NEW c \in Conns, NEW q \in Queues, NEW k \in 0 .. MaxPurge,
              AnnounceToRoom(c, q, k)
       PROVE  Promise!Next
  BY <1>5, <1>7, <1>12 DEF AnnounceToRoom
<1>13. ASSUME NEW c \in Conns, NEW q \in Queues, NEW u \in Users, BadLocation(c, q, u)
       PROVE  Promise!Next
  BY <1>5, <1>7, <1>13 DEF BadLocation
<1>14. CASE UNCHANGED vars
  BY <1>1, <1>14 DEF vars
<1>15. CASE Next
  BY <1>1, <1>2, <1>3, <1>6, <1>8, <1>9, <1>10, <1>11, <1>12, <1>13, <1>15
  DEF Next, OnOpen, OnError, Crash, DirectMessages, RemoveQueue, RenameQueue
<1> QED BY <1>14, <1>15

\* The handlers, their two tables and their restarts implement the
\* publish-subscribe service of module Subscriptions.
THEOREM ImplementsSubscriptions == Spec => SubscriptionService
<1>1. Init => Promise!Init
  BY PromiseInit
<1>2. TypeOK /\ RoomMembership /\ [Next]_vars
        => [Promise!Next]_(Promise!subVars)
  BY PromiseNext
<1> QED
  BY <1>1, <1>2, TypeCorrect, RoomMembershipCorrect, PTL
  DEF Spec, SubscriptionService, Promise!Spec

-----------------------------------------------------------------------------
(* The directory ugkthid_map.                                              *)

\* The user of a handler is one whose token its connection presented.
UserPresented ==
  \A c \in Conns : user_ugkthid[c] # None => user_ugkthid[c] \in presented[c]

\* What has to be assumed of a state for a step to keep the three properties.
DirectoryInv ==
  /\ UserPresented
  /\ DirectMessageAudience
  /\ SingleUserNotStale
  /\ SingleConnectionReachable

LEMMA DirectoryInit == Init => DirectoryInv
<1> SUFFICES ASSUME Init PROVE DirectoryInv
  OBVIOUS
<1>1. \A c \in Conns : c # None
  BY ConstantsAssumption
<1>2. \A u \in Users : u # None
  BY ConstantsAssumption
<1> QED
  BY <1>1, <1>2 DEF Init, DirectoryInv, UserPresented, DirectMessageAudience,
     SingleUserNotStale, SingleConnectionReachable

\* The handler of c gives up its user and takes it out of the map; c may close.
LEMMA ForgetDirectory ==
  ASSUME TypeOK, DirectoryInv, NEW c \in Conns,
         ugkthid_map' = Forget(c),
         user_ugkthid' = [user_ugkthid EXCEPT ![c] = None],
         \A d \in Conns \ {c} : conn'[d] = conn[d],
         UNCHANGED <<presented, mail>>
  PROVE  DirectoryInv'
<1>1. /\ \A d \in Conns : d # None
      /\ \A u \in Users : u # None
  BY ConstantsAssumption
<1>2. \A u \in Users : ugkthid_map'[u] = IF u = user_ugkthid[c] THEN None ELSE ugkthid_map[u]
  BY DEF Forget
<1>3. user_ugkthid'[c] = None /\ \A d \in Conns \ {c} : user_ugkthid'[d] = user_ugkthid[d]
  BY DEF TypeOK
<1>4. UserPresented'
  BY <1>3 DEF DirectoryInv, UserPresented
<1>5. DirectMessageAudience'
  BY <1>1, <1>2 DEF DirectoryInv, DirectMessageAudience
<1>6. SingleUserNotStale'
  <2> SUFFICES ASSUME NEW d \in Conns, NEW u \in Users,
                      ugkthid_map'[u] = d, presented[d] = {u}
               PROVE  user_ugkthid'[d] = u /\ conn'[d] = "open"
    BY DEF SingleUserNotStale
  <2>1. u # user_ugkthid[c] /\ ugkthid_map[u] = d
    BY <1>1, <1>2
  <2>2. user_ugkthid[d] = u /\ conn[d] = "open"
    BY <2>1 DEF DirectoryInv, SingleUserNotStale
  <2> QED BY <1>3, <2>1, <2>2
<1>7. SingleConnectionReachable'
  <2> SUFFICES ASSUME NEW d \in Conns, NEW u \in Users, user_ugkthid'[d] = u,
                      \A e \in Conns \ {d} : u \notin presented[e]
               PROVE  ugkthid_map'[u] = d
    BY DEF SingleConnectionReachable
  <2>1. d # c /\ user_ugkthid[d] = u
    BY <1>1, <1>3
  <2>2. u # user_ugkthid[c]
    BY <1>1, <2>1 DEF DirectoryInv, UserPresented
  <2>3. ugkthid_map[u] = d
    BY <2>1 DEF DirectoryInv, SingleConnectionReachable
  <2> QED BY <1>2, <2>2, <2>3
<1> QED BY <1>4, <1>5, <1>6, <1>7 DEF DirectoryInv

\* A token of user u arrives over the open connection c.
LEMMA IdentifyDirectory ==
  ASSUME TypeOK, DirectoryInv, NEW c \in Conns, NEW u \in Users \cup {None},
         conn[c] = "open", Identify(c, u), UNCHANGED <<conn, mail>>
  PROVE  DirectoryInv'
<1>1. CASE u = None
  BY <1>1 DEF Identify, DirectoryInv, UserPresented, DirectMessageAudience,
     SingleUserNotStale, SingleConnectionReachable
<1>2. CASE u # None
  <2>1. /\ \A d \in Conns : d # None
        /\ u \in Users
    BY <1>2, ConstantsAssumption
  <2>2. /\ ugkthid_map'[u] = c
        /\ \A v \in Users \ {u} : ugkthid_map'[v] = ugkthid_map[v]
        /\ user_ugkthid'[c] = u
        /\ \A d \in Conns \ {c} : user_ugkthid'[d] = user_ugkthid[d]
        /\ presented'[c] = presented[c] \cup {u}
        /\ \A d \in Conns \ {c} : presented'[d] = presented[d]
    BY <1>2, <2>1 DEF Identify, TypeOK
  <2>3. UserPresented'
    BY <2>2 DEF DirectoryInv, UserPresented
  <2>4. DirectMessageAudience'
    BY <2>1, <2>2 DEF DirectoryInv, DirectMessageAudience
  <2>5. SingleUserNotStale'
    <3> SUFFICES ASSUME NEW d \in Conns, NEW v \in Users,
                        ugkthid_map'[v] = d, presented'[d] = {v}
                 PROVE  user_ugkthid'[d] = v /\ conn[d] = "open"
      BY DEF SingleUserNotStale
    <3>1. CASE d = c
      BY <2>2, <3>1
    <3>2. CASE d # c
      <4>1. v # u /\ ugkthid_map[v] = d /\ presented[d] = {v}
        BY <2>2, <3>2
      <4> QED BY <2>2, <3>2, <4>1 DEF DirectoryInv, SingleUserNotStale
    <3> QED BY <3>1, <3>2
  <2>6. SingleConnectionReachable'
    <3> SUFFICES ASSUME NEW d \in Conns, NEW v \in Users, user_ugkthid'[d] = v,
                        \A e \in Conns \ {d} : v \notin presented'[e]
                 PROVE  ugkthid_map'[v] = d
      BY DEF SingleConnectionReachable
    <3>1. CASE d = c
      BY <2>2, <3>1
    <3>2. CASE d # c
      <4>1. user_ugkthid[d] = v /\ v # u
        BY <2>2, <3>2
      <4>2. \A e \in Conns \ {d} : v \notin presented[e]
        BY <2>2
      <4> QED BY <2>2, <4>1, <4>2 DEF DirectoryInv, SingleConnectionReachable
    <3> QED BY <3>1, <3>2
  <2> QED BY <2>3, <2>4, <2>5, <2>6 DEF DirectoryInv
<1> QED BY <1>1, <1>2

\* send_user_message consults the map only.
LEMMA MailDirectory ==
  ASSUME TypeOK, DirectoryInv, NEW F \in SUBSET Users, SendUserMessages(F),
         UNCHANGED <<conn, ugkthid_map, user_ugkthid, presented>>
  PROVE  DirectoryInv'
<1>1. \A c \in Conns : mail'[c] = mail[c] \cup {u \in F : ugkthid_map[u] = c}
  BY DEF SendUserMessages
<1>2. DirectMessageAudience'
  BY <1>1 DEF DirectoryInv, DirectMessageAudience
<1> QED
  BY <1>2 DEF DirectoryInv, UserPresented, SingleUserNotStale, SingleConnectionReachable

LEMMA DirectoryNext ==
  ASSUME TypeOK, DirectoryInv, [Next]_vars
  PROVE  DirectoryInv'
<1> USE DEF serverVars, handlerVars, roomHist
<1>1. ASSUME NEW c \in Conns, OnOpen(c) PROVE DirectoryInv'
  <2>1. \A d \in Conns : conn[d] = "open" => conn'[d] = "open"
    BY <1>1 DEF OnOpen, TypeOK
  <2> QED
    BY <1>1, <2>1 DEF OnOpen, DirectoryInv, UserPresented, DirectMessageAudience,
       SingleUserNotStale, SingleConnectionReachable
<1>2. ASSUME NEW c \in Conns, OnClose(c) PROVE DirectoryInv'
  BY <1>2, ForgetDirectory DEF OnClose, TypeOK
<1>3. ASSUME NEW c \in Conns, OnError(c) PROVE DirectoryInv'
  BY <1>3, ForgetDirectory DEF OnError
<1>4. ASSUME NEW c \in Conns, NEW q \in Queues, NEW u \in Users \cup {None},
             SubscribeQueue(c, q, u)
      PROVE  DirectoryInv'
  BY <1>4, IdentifyDirectory DEF SubscribeQueue
<1>5. ASSUME NEW c \in Conns, NEW q \in Queues, NEW u \in Users, BadLocation(c, q, u)
      PROVE  DirectoryInv'
  BY <1>5, MailDirectory DEF BadLocation
<1>6. ASSUME NEW c \in Conns, NEW F \in SUBSET Users, DirectMessages(c, F)
      PROVE  DirectoryInv'
  BY <1>6, MailDirectory DEF DirectMessages
<1>7. ASSUME Panic PROVE DirectoryInv'
  <2>1. /\ \A d \in Conns : d # None
        /\ \A u \in Users : u # None
    BY ConstantsAssumption
  <2> QED
    BY <1>7, <2>1 DEF Panic, DirectoryInv, UserPresented, DirectMessageAudience,
       SingleUserNotStale, SingleConnectionReachable
<1>8. ASSUME UNCHANGED <<conn, ugkthid_map, user_ugkthid, presented, mail>>
      PROVE  DirectoryInv'
  BY <1>8 DEF DirectoryInv, UserPresented, DirectMessageAudience,
     SingleUserNotStale, SingleConnectionReachable
<1>9. CASE UNCHANGED vars
  BY <1>8, <1>9 DEF vars
<1>10. CASE Next
  BY <1>1, <1>2, <1>3, <1>4, <1>5, <1>6, <1>7, <1>8, <1>10
  DEF Next, SubscribeLobby, Unsubscribe, AnnounceToRoomAndLobby, AnnounceToRoom,
      Crash, AddQueue, RemoveQueue, RenameQueue
<1> QED BY <1>9, <1>10

LEMMA DirectoryInvariant == Spec => []DirectoryInv
<1>1. TypeOK /\ DirectoryInv /\ [Next]_vars => DirectoryInv'
  BY DirectoryNext
<1> QED BY <1>1, DirectoryInit, TypeCorrect, PTL DEF Spec

\* A direct message of a user goes to no connection that never showed the user's token.
THEOREM DirectMessageAudienceCorrect == Spec => []DirectMessageAudience
<1>1. DirectoryInv => DirectMessageAudience
  BY DEF DirectoryInv
<1> QED BY <1>1, DirectoryInvariant, PTL

\* A connection of one user only is never left in the map when it closes or fails.
THEOREM SingleUserNotStaleCorrect == Spec => []SingleUserNotStale
<1>1. DirectoryInv => SingleUserNotStale
  BY DEF DirectoryInv
<1> QED BY <1>1, DirectoryInvariant, PTL

\* A user who identified over one connection only is reachable while it carries the user.
THEOREM SingleConnectionReachableCorrect == Spec => []SingleConnectionReachable
<1>1. DirectoryInv => SingleConnectionReachable
  BY DEF DirectoryInv
<1> QED BY <1>1, DirectoryInvariant, PTL
=============================================================================
