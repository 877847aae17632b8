------------------------------ MODULE RoomHandler ------------------------------
(***************************************************************************)
(* The web socket server: src/src/wsroutes/ws_rs.rs, with the broadcasts   *)
(* of src/src/wsroutes/routes.rs and the restart loop of src/src/lib.rs.   *)
(*                                                                         *)
(* ws-rs runs one event loop on one thread, so every callback of a handler *)
(* is one atomic step.  There is one RoomHandler per connection; `count`,  *)
(* `rooms` and `ugkthid_map` are shared by all of them through Rc<..>.     *)
(* A panic in any callback unwinds the whole event loop, and lib.rs starts *)
(* a new one with empty tables.                                            *)
(*                                                                         *)
(* Abstractions.  The Vec<Sender> of a room is the number of times each    *)
(* connection occurs in it: the order of the Vec only orders sends to      *)
(* different sockets.  A connection identity is used once, as ws-rs's      *)
(* connection_id is.  Whether a request's token passes its authorisation   *)
(* level is left open here (any connection may send any request).          *)
(***************************************************************************)
EXTENDS Naturals, FiniteSets

CONSTANTS
  Conns,          \* connections
  Users,          \* ugkthids
  Queues,         \* queue names
  Lobby,          \* the key "lobby"; the other keys are "room_" + queue name
  None,           \* Rust's None
  MaxBroadcasts,  \* bound: messages broadcast in one room
  MaxPurge,       \* bound: entries removed by one purge
  MayCrash        \* bound: whether handshakes and the database crash the thread

ASSUME ConstantsAssumption ==
  /\ IsFiniteSet(Conns)
  /\ Lobby \notin Queues
  /\ None \notin Queues \cup {Lobby} \cup Users \cup Conns
  /\ MaxBroadcasts \in Nat
  /\ MaxPurge \in Nat \ {0}
  /\ MayCrash \in BOOLEAN

RoomNames == Queues \cup {Lobby}

VARIABLES
  conn,          \* ws-rs: a connection is "fresh", then "open", then "closed"
  count,         \* number of live connections
  rooms,         \* HashMap<String, Vec<Sender>>: how often a Vec holds a connection
  ugkthid_map,   \* HashMap<String, Sender>: where messages for a user go
  user_ugkthid,  \* per handler: the user it entered into ugkthid_map
  active_room,   \* per handler: the room it is in
  queues,        \* names of the rows of the table queues
  \* Observations, which no action reads:
  presented,     \* users whose token the connection has presented
  bcast,         \* messages broadcast in a room since the server started
  base,          \* bcast of the active room when the connection joined it
  got,           \* room messages sent to the connection since it joined
  mail           \* users whose direct messages were sent to the connection

handlerVars == <<user_ugkthid, active_room>>
serverVars == <<conn, count, queues>>
roomHist == <<bcast, base, got>>
vars == <<conn, count, rooms, ugkthid_map, user_ugkthid, active_room, queues,
          presented, bcast, base, got, mail>>

TypeOK ==
  /\ conn \in [Conns -> {"fresh", "open", "closed"}]
  /\ count \in Nat
  /\ DOMAIN rooms \subseteq RoomNames
  /\ rooms \in [DOMAIN rooms -> [Conns -> Nat]]
  /\ ugkthid_map \in [Users -> Conns \cup {None}]
  /\ user_ugkthid \in [Conns -> Users \cup {None}]
  /\ active_room \in [Conns -> RoomNames \cup {None}]
  /\ queues \subseteq Queues
  /\ presented \in [Conns -> SUBSET Users]
  /\ bcast \in [RoomNames -> Nat]
  /\ base \in [Conns -> Nat]
  /\ got \in [Conns -> Nat]
  /\ mail \in [Conns -> SUBSET Users]

EmptyVec == [c \in Conns |-> 0]

Init ==
  /\ conn = [c \in Conns |-> "fresh"]
  /\ count = 0
  /\ rooms = [r \in {} |-> EmptyVec]
  /\ ugkthid_map = [u \in Users |-> None]
  /\ user_ugkthid = [c \in Conns |-> None]
  /\ active_room = [c \in Conns |-> None]
  /\ queues \in SUBSET Queues
  /\ presented = [c \in Conns |-> {}]
  /\ bcast = [r \in RoomNames |-> 0]
  /\ base = [c \in Conns |-> 0]
  /\ got = [c \in Conns |-> 0]
  /\ mail = [c \in Conns |-> {}]

-----------------------------------------------------------------------------
(* The tables.                                                             *)

\* rooms.entry(r).or_insert_with(Vec::new), for every r of R
Entry(rs, R) ==
  [r \in DOMAIN rs \cup R |-> IF r \in DOMAIN rs THEN rs[r] ELSE EmptyVec]

\* Mutant: leave_room without retain()
LeaveRoomKeeps(c) == rooms

\* rooms after leave_room of connection c: retain(|x| x != &self.out)
LeaveRoom(c) ==
  IF active_room[c] = None THEN rooms
  ELSE [rooms EXCEPT ![active_room[c]][c] = 0]

\* Mutant: join_room_internal without leave_room
JoinRoomAlso(c, r) == [Entry(rooms, {r}) EXCEPT ![r][c] = @ + 1]

\* rooms after join_room_internal of connection c
JoinRoom(c, r) == [Entry(LeaveRoom(c), {r}) EXCEPT ![r][c] = @ + 1]

\* Mutant: on_close and on_error do not remove the user from ugkthid_map
ForgetNobody(c) == ugkthid_map

\* ugkthid_map after handler c gave up its user
Forget(c) == [u \in Users |-> IF u = user_ugkthid[c] THEN None ELSE ugkthid_map[u]]

\* Mutant: a broadcast goes to everybody who is in some room
CopiesToAll(r, c) == IF active_room[c] # None THEN 1 ELSE 0

\* How often a send loop over room r sends to connection c
Copies(r, c) == IF r \in DOMAIN rooms THEN rooms[r][c] ELSE 0

-----------------------------------------------------------------------------
(* Callbacks of ws-rs.                                                     *)

\* Mutant: on_open does not count
OnOpenUncounted(c) ==
  /\ conn[c] = "fresh"
  /\ conn' = [conn EXCEPT ![c] = "open"]
  /\ UNCHANGED <<count, rooms, ugkthid_map, handlerVars, queues, presented, roomHist, mail>>

OnOpen(c) ==
  /\ conn[c] = "fresh"
  /\ conn' = [conn EXCEPT ![c] = "open"]
  /\ count' = count + 1
  /\ UNCHANGED <<rooms, ugkthid_map, handlerVars, queues, presented, roomHist, mail>>

\* Mutant: on_close without leave_room
OnCloseInRoom(c) ==
  /\ conn[c] = "open"
  /\ conn' = [conn EXCEPT ![c] = "closed"]
  /\ ugkthid_map' = Forget(c)
  /\ user_ugkthid' = [user_ugkthid EXCEPT ![c] = None]
  /\ count' = count - 1
  /\ UNCHANGED <<rooms, active_room, queues, presented, roomHist, mail>>

OnClose(c) ==
  /\ conn[c] = "open"
  /\ conn' = [conn EXCEPT ![c] = "closed"]
  /\ rooms' = LeaveRoom(c)
  /\ active_room' = [active_room EXCEPT ![c] = None]
  /\ got' = [got EXCEPT ![c] = 0]
  /\ ugkthid_map' = Forget(c)
  /\ user_ugkthid' = [user_ugkthid EXCEPT ![c] = None]
  /\ count' = count - 1
  /\ UNCHANGED <<queues, presented, bcast, base, mail>>

\* An error takes the user out of ugkthid_map but leaves the handler in its room.
OnError(c) ==
  /\ conn[c] = "open"
  /\ ugkthid_map' = Forget(c)
  /\ user_ugkthid' = [user_ugkthid EXCEPT ![c] = None]
  /\ UNCHANGED <<serverVars, rooms, active_room, presented, roomHist, mail>>

\* A panic: catch_unwind returns, websocket() starts over with empty tables.
Panic ==
  /\ conn' = [c \in Conns |-> IF conn[c] = "open" THEN "closed" ELSE conn[c]]
  /\ count' = 0
  /\ rooms' = [r \in {} |-> EmptyVec]
  /\ ugkthid_map' = [u \in Users |-> None]
  /\ user_ugkthid' = [c \in Conns |-> None]
  /\ active_room' = [c \in Conns |-> None]
  /\ bcast' = [r \in RoomNames |-> 0]
  /\ base' = [c \in Conns |-> 0]
  /\ got' = [c \in Conns |-> 0]
  /\ UNCHANGED <<queues, presented, mail>>

\* A handshake without Origin, or a request when the pool has no connection to the
\* database, panics.
Crash(c) ==
  /\ MayCrash
  /\ conn[c] # "closed"
  /\ Panic

-----------------------------------------------------------------------------
(* Subscriptions.                                                          *)

EnterRoom(c, r) ==
  /\ rooms' = JoinRoom(c, r)
  /\ active_room' = [active_room EXCEPT ![c] = r]
  /\ base' = [base EXCEPT ![c] = bcast[r]]
  /\ got' = [got EXCEPT ![c] = 0]
  /\ UNCHANGED bcast

SubscribeLobby(c) ==
  /\ conn[c] = "open"
  /\ EnterRoom(c, Lobby)
  /\ UNCHANGED <<serverVars, ugkthid_map, user_ugkthid, presented, mail>>

\* unsubscribeLobby and unsubscribeQueue, which ignores the queue it names
Unsubscribe(c) ==
  /\ conn[c] = "open"
  /\ rooms' = LeaveRoom(c)
  /\ active_room' = [active_room EXCEPT ![c] = None]
  /\ got' = [got EXCEPT ![c] = 0]
  /\ UNCHANGED <<serverVars, ugkthid_map, user_ugkthid, presented, bcast, base, mail>>

\* Mutant: a handler that has a user already does not insert the next one
IdentifyFirst(c, u) ==
  IF u = None
  THEN UNCHANGED <<ugkthid_map, user_ugkthid, presented>>
  ELSE /\ ugkthid_map' = IF user_ugkthid[c] = None
                         THEN [ugkthid_map EXCEPT ![u] = c] ELSE ugkthid_map
       /\ user_ugkthid' = [user_ugkthid EXCEPT ![c] = u]
       /\ presented' = [presented EXCEPT ![c] = @ \cup {u}]

\* A valid token moves the user's messages to this connection, whether or not
\* the queue exists; the entry of the user it had before is left in the map.
Identify(c, u) ==
  IF u = None
  THEN UNCHANGED <<ugkthid_map, user_ugkthid, presented>>
  ELSE /\ ugkthid_map' = [ugkthid_map EXCEPT ![u] = c]
       /\ user_ugkthid' = [user_ugkthid EXCEPT ![c] = u]
       /\ presented' = [presented EXCEPT ![c] = @ \cup {u}]

\* subscribeQueue; u is the user of the token, None without a valid one
SubscribeQueue(c, q, u) ==
  /\ conn[c] = "open"
  /\ Identify(c, u)
  /\ IF q \in queues
     THEN EnterRoom(c, q)
     ELSE UNCHANGED <<rooms, active_room, roomHist>>
  /\ UNCHANGED <<serverVars, mail>>

-----------------------------------------------------------------------------
(* Requests that broadcast.  All of them fail before any broadcast when    *)
(* the queue they name does not exist.                                     *)

\* broadcast_room, k times, and broadcast_lobby, m times
Broadcast(q, k, m) ==
  /\ bcast[q] + k <= MaxBroadcasts
  /\ bcast[Lobby] + m <= MaxBroadcasts
  /\ rooms' = Entry(rooms, (IF k > 0 THEN {q} ELSE {}) \cup (IF m > 0 THEN {Lobby} ELSE {}))
  /\ got' = [c \in Conns |-> got[c] + k * Copies(q, c) + m * Copies(Lobby, c)]
  /\ bcast' = [bcast EXCEPT ![q] = @ + k, ![Lobby] = @ + m]
  /\ UNCHANGED base

\* Mutant: send_user_message sends to whoever is in the map
SendToAnyone(F) ==
  mail' = [c \in Conns |-> mail[c] \cup {u \in F : \E v \in Users : ugkthid_map[v] = c}]

\* send_user_message to every user of F
SendUserMessages(F) ==
  mail' = [c \in Conns |-> mail[c] \cup {u \in F : ugkthid_map[u] = c}]

\* joinQueue, leaveQueue, kick, setQueueLockStatus, setQueueHideStatus
AnnounceToRoomAndLobby(c, q) ==
  /\ conn[c] = "open"
  /\ q \in queues
  /\ Broadcast(q, 1, 1)
  /\ UNCHANGED <<serverVars, ugkthid_map, handlerVars, presented, mail>>

\* setHelpStatus, setUserHelpStatus, updateQueueEntry, setQueueInfo, setMOTD and
\* broadcast send one message; purgeQueue one for each entry, to the room only.
AnnounceToRoom(c, q, k) ==
  /\ conn[c] = "open"
  /\ q \in queues
  /\ Broadcast(q, k, 0)
  /\ UNCHANGED <<serverVars, ugkthid_map, handlerVars, presented, mail>>

\* badLocation: the changed entry to the room, a message to the user
BadLocation(c, q, u) ==
  /\ conn[c] = "open"
  /\ q \in queues
  /\ Broadcast(q, 1, 0)
  /\ SendUserMessages({u})
  /\ UNCHANGED <<serverVars, ugkthid_map, handlerVars, presented>>

\* sendMessage to one user, broadcastFaculty to the admins of a queue
DirectMessages(c, F) ==
  /\ conn[c] = "open"
  /\ queues # {}
  /\ SendUserMessages(F)
  /\ UNCHANGED <<serverVars, rooms, ugkthid_map, handlerVars, presented, roomHist>>

-----------------------------------------------------------------------------
(* Requests that change which queues there are.                            *)

\* db::queues::create panics when the name is taken: From<Error> looks for the
\* constraint of the table users and panics on any other.
AddQueue(c, q) ==
  /\ conn[c] = "open"
  /\ IF q \in queues
     THEN Panic
     ELSE /\ queues' = queues \cup {q}
          /\ UNCHANGED <<conn, count, rooms, ugkthid_map, handlerVars, presented, roomHist, mail>>

\* The room of a removed queue keeps its members.
RemoveQueue(c, q) ==
  /\ conn[c] = "open"
  /\ q \in queues
  /\ queues' = queues \ {q}
  /\ UNCHANGED <<conn, count, rooms, ugkthid_map, handlerVars, presented, roomHist, mail>>

\* The room of the old name keeps its members too.
RenameQueue(c, q, new) ==
  /\ conn[c] = "open"
  /\ new \notin queues
  /\ queues' = IF q \in queues THEN (queues \ {q}) \cup {new} ELSE queues
  /\ UNCHANGED <<conn, count, rooms, ugkthid_map, handlerVars, presented, roomHist, mail>>

-----------------------------------------------------------------------------

Next ==
  \E c \in Conns :
    \/ OnOpen(c)
    \/ OnClose(c)
    \/ OnError(c)
    \/ Crash(c)
    \/ SubscribeLobby(c)
    \/ Unsubscribe(c)
    \/ \E q \in Queues, u \in Users \cup {None} : SubscribeQueue(c, q, u)
    \/ \E q \in Queues : AnnounceToRoomAndLobby(c, q)
    \/ \E q \in Queues, u \in Users : BadLocation(c, q, u)
    \/ \E q \in Queues, k \in 0 .. MaxPurge : AnnounceToRoom(c, q, k)
    \/ \E F \in SUBSET Users : DirectMessages(c, F)
    \/ \E q \in Queues : AddQueue(c, q)
    \/ \E q \in Queues : RemoveQueue(c, q)
    \/ \E q, new \in Queues : RenameQueue(c, q, new)

Spec == Init /\ [][Next]_vars

-----------------------------------------------------------------------------
(* Properties.                                                             *)

\* The two records of a subscription agree: a connection is once in the Vec of
\* its active room and in no other.  In particular `rooms.get_mut(room).unwrap()`
\* in leave_room always finds the room, and a handler that subscribes twice, is
\* refused a room, or closes leaves no Sender behind.
RoomMembership ==
  \A c \in Conns :
    /\ active_room[c] # None => active_room[c] \in DOMAIN rooms
    /\ \A r \in DOMAIN rooms : rooms[r][c] = IF r = active_room[c] THEN 1 ELSE 0

\* Only live connections hold room or user state, and `count` counts the live ones
\* (so that the u32 of on_close never goes below zero).
LiveConnections ==
  /\ \A c \in Conns : conn[c] # "open" => active_room[c] = None /\ user_ugkthid[c] = None
  /\ count = Cardinality({c \in Conns : conn[c] = "open"})

\* From the moment it joined a room until it leaves, a connection is sent every
\* message broadcast there exactly once, and nothing when it is in no room.
ExactlyOnce ==
  \A c \in Conns :
    IF active_room[c] = None THEN got[c] = 0
    ELSE got[c] + base[c] = bcast[active_room[c]]

\* Direct messages of a user only ever go to a connection that presented a token
\* of that user at some time.
DirectMessageAudience ==
  \A c \in Conns :
    /\ mail[c] \subseteq presented[c]
    /\ \A u \in Users : ugkthid_map[u] = c => u \in presented[c]

\* A connection over which one user only has come is in the map just while it is
\* that user's: its close or error removes the entry.
SingleUserNotStale ==
  \A c \in Conns : \A u \in Users :
    /\ ugkthid_map[u] = c
    /\ presented[c] = {u}
    => user_ugkthid[c] = u /\ conn[c] = "open"

\* A user who never identified over a second connection can be reached over the
\* one that carries the user, whatever the other connections do.
SingleConnectionReachable ==
  \A c \in Conns : \A u \in Users :
    /\ user_ugkthid[c] = u
    /\ \A d \in Conns \ {c} : u \notin presented[d]
    => ugkthid_map[u] = c

\* A queue that exists already is not created again: the second request is answered
\* with an error (map_err(ServerError)) and the other users stay connected.
DuplicateQueueRefused ==
  [][\A c \in Conns : \A q \in queues :
       AddQueue(c, q) =>
         \A d \in Conns \ {c} : conn[d] = "open" => conn'[d] = "open"]_vars

\* "The user will then receive a message prompting them to edit their location",
\* if some connection carries the user.
BadLocationReachesUser ==
  [][\A c \in Conns : \A q \in Queues : \A u \in Users :
       BadLocation(c, q, u) /\ (\E d \in Conns : user_ugkthid[d] = u)
       => \E d \in Conns : conn[d] = "open" /\ u \in mail'[d]]_vars

Promise == INSTANCE Subscriptions WITH sub <- active_room, recv <- got,
                                  MaxMessages <- MaxPurge

\* The handlers implement the publish-subscribe service of module Subscriptions.
SubscriptionService == Promise!Spec
=============================================================================
