-------------------------- MODULE ClientSocketProofs --------------------------
(***************************************************************************)
(* What ClientSocket promises of a tab, for any queues and any bounds.     *)
(*                                                                         *)
(* The tab and the server agree on the room once the messages on their way *)
(* have arrived: the server's room, moved by these messages one after the  *)
(* other (Leads), is the room the page's effect wants.  A step that sends  *)
(* appends to the messages what takes the server from the old wish to the  *)
(* new one, and a new connection starts with the wish it finds.            *)
(***************************************************************************)
EXTENDS ClientSocket, FunctionTheorems, FiniteSetTheorems, TLAPS

AllRooms == Rooms \cup {None}

-----------------------------------------------------------------------------
(* Sequences of messages.                                                  *)

\* The messages ms take the server from room r to room s.
Leads(r, ms, s) ==
  \E f \in [0 .. Len(ms) -> AllRooms] :
    /\ f[0] = r /\ f[Len(ms)] = s
    /\ \A i \in 1 .. Len(ms) : f[i] = RoomAfter(f[i - 1], ms[i])

LEMMA EnterLeaveType ==
  ASSUME NEW r \in AllRooms
  PROVE  /\ Enter(r) \in Seq(Messages) /\ Leave(r) \in Seq(Messages)
         /\ Click \in Messages
<1>1. r # None => Subscribe(r) \in Messages /\ Unsubscribe(r) \in Messages
  BY DEF Messages, AllRooms
<1>2. Click \in Messages
  BY DEF Messages
<1>. QED  BY <1>1, <1>2 DEF Enter, Leave

LEMMA RoomAfterType ==
  ASSUME NEW r \in AllRooms, NEW m \in Messages
  PROVE  RoomAfter(r, m) \in AllRooms
BY ClientSocketAssumption DEF RoomAfter, AllRooms, Rooms

LEMMA LeadsNowhere ==
  ASSUME NEW r \in AllRooms
  PROVE  Leads(r, <<>>, r)
<1>. DEFINE f == [i \in 0 .. Len(<<>>) |-> r]
<1>1. f \in [0 .. Len(<<>>) -> AllRooms] /\ f[0] = r /\ f[Len(<<>>)] = r
  OBVIOUS
<1>2. \A i \in 1 .. Len(<<>>) : f[i] = RoomAfter(f[i - 1], <<>>[i])
  OBVIOUS
<1>. QED  BY <1>1, <1>2 DEF Leads

LEMMA LeadsOne ==
  ASSUME NEW r \in AllRooms, NEW m \in Messages
  PROVE  Leads(r, <<m>>, RoomAfter(r, m))
<1>. DEFINE f == [i \in 0 .. Len(<<m>>) |-> IF i = 0 THEN r ELSE RoomAfter(r, m)]
<1>1. f \in [0 .. Len(<<m>>) -> AllRooms]
  BY RoomAfterType
<1>2. /\ f[0] = r /\ f[Len(<<m>>)] = RoomAfter(r, m)
      /\ \A i \in 1 .. Len(<<m>>) : f[i] = RoomAfter(f[i - 1], <<m>>[i])
  OBVIOUS
<1>. QED  BY <1>1, <1>2 DEF Leads

LEMMA LeadsOn ==
  ASSUME NEW a \in AllRooms, NEW b \in AllRooms, NEW c \in AllRooms,
         NEW s \in Seq(Messages), NEW t \in Seq(Messages),
         Leads(a, s, b), Leads(b, t, c)
  PROVE  Leads(a, s \o t, c)
<1>1. PICK f \in [0 .. Len(s) -> AllRooms] :
        /\ f[0] = a /\ f[Len(s)] = b
        /\ \A i \in 1 .. Len(s) : f[i] = RoomAfter(f[i - 1], s[i])
  BY DEF Leads
<1>2. PICK g \in [0 .. Len(t) -> AllRooms] :
        /\ g[0] = b /\ g[Len(t)] = c
        /\ \A i \in 1 .. Len(t) : g[i] = RoomAfter(g[i - 1], t[i])
  BY DEF Leads
<1>. DEFINE h == [i \in 0 .. Len(s \o t) |-> IF i <= Len(s) THEN f[i] ELSE g[i - Len(s)]]
<1>3. Len(s) \in Nat /\ Len(t) \in Nat /\ Len(s \o t) = Len(s) + Len(t)
  OBVIOUS
<1>4. h \in [0 .. Len(s \o t) -> AllRooms]
  <2>. SUFFICES ASSUME NEW i \in 0 .. Len(s \o t) PROVE h[i] \in AllRooms
    OBVIOUS
  <2>1. CASE i <= Len(s)
    BY <1>3, <2>1
  <2>2. CASE ~(i <= Len(s))
    <3>1. i - Len(s) \in 0 .. Len(t)
      BY <1>3, <2>2
    <3>. QED  BY <2>2, <3>1
  <2>. QED  BY <2>1, <2>2
<1>5. h[0] = a /\ h[Len(s \o t)] = c
  <2>1. h[0] = f[0]
    BY <1>3
  <2>2. CASE Len(t) = 0
    <3>1. h[Len(s \o t)] = f[Len(s)]
      BY <1>3, <2>2
    <3>. QED  BY <1>1, <1>2, <2>1, <2>2, <3>1
  <2>3. CASE Len(t) # 0
    <3>1. h[Len(s \o t)] = g[Len(t)]
      BY <1>3, <2>3
    <3>. QED  BY <1>1, <1>2, <2>1, <3>1
  <2>. QED  BY <2>2, <2>3
<1>6. ASSUME NEW i \in 1 .. Len(s \o t)
      PROVE  h[i] = RoomAfter(h[i - 1], (s \o t)[i])
  <2>1. CASE i <= Len(s)
    <3>1. h[i] = f[i] /\ h[i - 1] = f[i - 1] /\ (s \o t)[i] = s[i] /\ i \in 1 .. Len(s)
      BY <1>3, <2>1
    <3>. QED  BY <1>1, <3>1
  <2>2. CASE i > Len(s)
    <3>. DEFINE j == i - Len(s)
    <3>1. j \in 1 .. Len(t) /\ (s \o t)[i] = t[j] /\ h[i] = g[j]
      BY <1>3, <2>2
    <3>2. h[i - 1] = g[j - 1]
      <4>1. CASE j = 1
        <5>1. h[i - 1] = f[Len(s)]
          BY <1>3, <4>1
        <5>. QED  BY <1>1, <1>2, <4>1, <5>1
      <4>2. CASE j # 1
        BY <1>3, <3>1, <4>2
      <4>. QED  BY <4>1, <4>2
    <3>. QED  BY <1>2, <3>1, <3>2
  <2>. QED  BY <1>3, <2>1, <2>2
<1>7. \A i \in 1 .. Len(s \o t) : h[i] = RoomAfter(h[i - 1], (s \o t)[i])
  BY <1>6
<1>. HIDE DEF h
<1>. QED  BY <1>4, <1>5, <1>7 DEF Leads

LEMMA LeadsEnter ==
  ASSUME NEW r \in AllRooms
  PROVE  /\ Leads(None, Enter(r), Served(r))
         /\ Leads(Served(r), Leave(r), None)
<1>0. None \in AllRooms /\ Served(r) \in AllRooms
  BY ClientSocketAssumption DEF Served, AllRooms, Rooms
<1>1. CASE r = None
  <2>1. Enter(r) = <<>> /\ Leave(r) = <<>> /\ Served(r) = None
    BY <1>1 DEF Enter, Leave, Served
  <2>. QED  BY <1>0, <2>1, LeadsNowhere
<1>2. CASE r # None
  <2>1. /\ Enter(r) = <<Subscribe(r)>> /\ Leave(r) = <<Unsubscribe(r)>>
        /\ Subscribe(r) \in Messages /\ Unsubscribe(r) \in Messages
    BY <1>2 DEF Enter, Leave, Messages, AllRooms
  <2>2. RoomAfter(None, Subscribe(r)) = Served(r) /\ RoomAfter(Served(r), Unsubscribe(r)) = None
    BY DEF RoomAfter, Subscribe, Unsubscribe, Served
  <2>3. Leads(None, <<Subscribe(r)>>, Served(r))
    BY <1>0, <2>1, <2>2, LeadsOne
  <2>4. Leads(Served(r), <<Unsubscribe(r)>>, None)
    BY <1>0, <2>1, <2>2, LeadsOne
  <2>. QED  BY <2>1, <2>3, <2>4
<1>. QED  BY <1>1, <1>2

LEMMA LeadsClicks ==
  ASSUME NEW r \in AllRooms, NEW k \in Nat
  PROVE  Leads(r, [i \in 1 .. k |-> Click], r)
<1>. DEFINE ms == [i \in 1 .. k |-> Click]
            f == [i \in 0 .. Len(ms) |-> r]
<1>1. Len(ms) = k
  OBVIOUS
<1>2. RoomAfter(r, Click) = r
  BY DEF RoomAfter, Click
<1>3. f \in [0 .. Len(ms) -> AllRooms]
  OBVIOUS
<1>4. /\ f[0] = r /\ f[Len(ms)] = r
      /\ \A i \in 1 .. Len(ms) : f[i] = RoomAfter(f[i - 1], ms[i])
  BY <1>1, <1>2
<1>. QED  BY <1>3, <1>4 DEF Leads

LEMMA LeadsRest ==
  ASSUME NEW r \in AllRooms, NEW s \in AllRooms, NEW ms \in Seq(Messages), ms # <<>>,
         Leads(r, ms, s)
  PROVE  Leads(RoomAfter(r, Head(ms)), Tail(ms), s)
<1>1. PICK f \in [0 .. Len(ms) -> AllRooms] :
        /\ f[0] = r /\ f[Len(ms)] = s
        /\ \A i \in 1 .. Len(ms) : f[i] = RoomAfter(f[i - 1], ms[i])
  BY DEF Leads
<1>2. /\ Len(ms) \in Nat /\ Len(ms) > 0 /\ Len(Tail(ms)) = Len(ms) - 1 /\ Head(ms) = ms[1]
      /\ \A i \in 1 .. Len(Tail(ms)) : Tail(ms)[i] = ms[i + 1]
  OBVIOUS
<1>. DEFINE g == [i \in 0 .. Len(Tail(ms)) |-> f[i + 1]]
<1>3. g \in [0 .. Len(Tail(ms)) -> AllRooms]
  BY <1>2
<1>4. /\ g[0] = RoomAfter(r, Head(ms)) /\ g[Len(Tail(ms))] = s
      /\ \A i \in 1 .. Len(Tail(ms)) : g[i] = RoomAfter(g[i - 1], Tail(ms)[i])
  <2>1. g[0] = f[1] /\ f[1] = RoomAfter(f[0], ms[1])
    BY <1>1, <1>2
  <2>2. g[Len(Tail(ms))] = f[Len(ms)]
    BY <1>2
  <2>3. ASSUME NEW i \in 1 .. Len(Tail(ms)) PROVE g[i] = RoomAfter(g[i - 1], Tail(ms)[i])
    <3>1. i + 1 \in 1 .. Len(ms) /\ g[i] = f[i + 1] /\ g[i - 1] = f[i] /\ (i + 1) - 1 = i
      BY <1>2
    <3>2. f[i + 1] = RoomAfter(f[(i + 1) - 1], ms[i + 1])
      BY <1>1, <3>1
    <3>. QED  BY <1>2, <3>1, <3>2
  <2>. QED  BY <1>1, <1>2, <2>1, <2>2, <2>3
<1>. HIDE DEF g
<1>. QED  BY <1>3, <1>4 DEF Leads

-----------------------------------------------------------------------------
(* Types.                                                                  *)

LEMMA KeepType ==
  ASSUME NEW p \in Seq(Messages), NEW ms \in Seq(Messages)
  PROVE  Keep(p, ms) \in Seq(Messages)
BY DEF Keep

LEMMA SendType ==
  ASSUME TypeOK, NEW ms \in Seq(Messages), NEW ns \in Seq(Messages), SendMessages(ms, ns)
  PROVE  up' \in Seq(Messages) /\ pendingRequests' \in Seq(Messages)
<1>1. up \in Seq(Messages) /\ pendingRequests \in Seq(Messages)
  BY DEF TypeOK
<1>2. Keep(Keep(pendingRequests, ms), ns) \in Seq(Messages)
  BY <1>1, KeepType
<1>3. up \o (ms \o ns) \in Seq(Messages)
  BY <1>1
<1>. QED  BY <1>1, <1>2, <1>3 DEF SendMessages

\* The part of TypeOK that is left to Zenon
Booleans ==
  /\ connectionEstablished \in BOOLEAN /\ disconnected \in BOOLEAN
  /\ listening \in BOOLEAN

LEMMA InitType == Init => TypeOK
<1>. SUFFICES ASSUME Init PROVE TypeOK
  OBVIOUS
<1>1. Booleans
  BY Zenon DEF Init, Booleans
<1>2. <<>> \in Seq(Messages)
  OBVIOUS
<1>. QED  BY <1>1, <1>2, ClientSocketAssumption DEF Init, TypeOK, Booleans

LEMMA TypeNext == TypeOK /\ [Next]_vars => TypeOK'
<1>. SUFFICES ASSUME TypeOK, [Next]_vars PROVE TypeOK'
  OBVIOUS
<1>. USE ClientSocketAssumption DEF TypeOK, store, joins, server
<1>0. effect \in AllRooms /\ Wanted \in AllRooms /\ None \in AllRooms
  BY DEF AllRooms, Wanted
<1>1. CASE Request
  <2>1. <<Click>> \in Seq(Messages) /\ <<>> \in Seq(Messages)
    BY <1>0, EnterLeaveType
  <2>2. up' \in Seq(Messages) /\ pendingRequests' \in Seq(Messages)
    BY <1>1, <2>1, SendType DEF Request
  <2>. QED  BY <1>1, <2>2 DEF Request
<1>2. ASSUME NEW p \in Rooms \cup {None}, Navigate(p) PROVE TypeOK'
  <2>1. Leave(effect) \in Seq(Messages) /\ <<>> \in Seq(Messages)
    BY <1>0, EnterLeaveType
  <2>2. up' \in Seq(Messages) /\ pendingRequests' \in Seq(Messages)
    BY <1>2, <2>1, SendType DEF Navigate
  <2>. QED  BY <1>2, <2>2 DEF Navigate, Unsubscribed
<1>3. CASE RunEffects
  <2>1. Leave(effect) \in Seq(Messages) /\ Enter(Wanted) \in Seq(Messages)
    BY <1>0, EnterLeaveType
  <2>2. up' \in Seq(Messages) /\ pendingRequests' \in Seq(Messages)
    BY <1>3, <2>1, SendType DEF RunEffects
  <2>. QED  BY <1>0, <1>3, <2>2 DEF RunEffects, Unsubscribed, AllRooms
<1>4. CASE RenderApp
  BY <1>4 DEF RenderApp, LoadQueues
<1>5. CASE ReloadAfterDelay
  BY <1>5 DEF ReloadAfterDelay, LoadQueues
<1>6. CASE Response
  <2>1. missed' \in {"nothing", "unloaded", "failed"} /\ fresh' \in 0 .. gets'
    <3>1. fresh \in 0 .. gets /\ gets \in 1 .. MaxGets /\ gets' = gets - 1
      BY <1>6 DEF Response
    <3>2. CASE fresh > 0 /\ fresh' = fresh - 1
      BY <1>6, <3>1, <3>2 DEF Response, Answered
    <3>3. CASE fresh < gets /\ UNCHANGED <<fresh, missed>>
      BY <3>1, <3>3
    <3>. QED  BY <1>6, <3>2, <3>3 DEF Response, Answered
  <2>. QED  BY <1>6, <2>1 DEF Response
<1>7. CASE Connect
  BY <1>7 DEF Connect
<1>8. CASE OnOpen
  <2>1. PICK k \in 0 .. Count(pendingRequests) :
          up' = Enter(lastJoinRequest) \o [i \in 1 .. k |-> Click]
    BY <1>8 DEF OnOpen
  <2>2. Enter(lastJoinRequest) \in Seq(Messages) /\ Click \in Messages
    BY EnterLeaveType DEF AllRooms
  <2>3. [i \in 1 .. k |-> Click] \in Seq(Messages)
    BY <2>2
  <2>4. up' \in Seq(Messages)
    BY <2>1, <2>2, <2>3
  <2>5. Booleans'
    BY <1>8, Zenon DEF OnOpen, Booleans, joins
  <2>. QED  BY <1>8, <2>4, <2>5 DEF OnOpen, Booleans
<1>9. CASE OnClose
  <2>1. Booleans'
    BY <1>9, Zenon DEF OnClose, Booleans
  <2>. QED  BY <1>9, <2>1 DEF OnClose, Booleans
<1>10. CASE Break
  BY <1>10 DEF Break
<1>11. CASE Receive
  <2>1. up' \in Seq(Messages) /\ Head(up) \in Messages
    BY <1>11 DEF Receive
  <2>2. RoomAfter(room, Head(up)) \in Existing \cup {Lobby, None}
    BY DEF RoomAfter
  <2>. QED  BY <1>11, <2>1, <2>2 DEF Receive
<1>12. CASE UNCHANGED vars
  BY <1>12 DEF vars
<1>. QED  BY <1>1, <1>2, <1>3, <1>4, <1>5, <1>6, <1>7, <1>8, <1>9, <1>10, <1>11, <1>12 DEF Next

\* Whatever the order of pages, loads, messages and failures, the state of the tab and
\* what the server holds of it are of their types; the server never has the tab in the
\* room of a queue that does not exist.
THEOREM TypeCorrect == Spec => []TypeOK
BY InitType, TypeNext, PTL DEF Spec

\* No page's cleanup takes the callbacks from the page that is shown now.
THEOREM HearsItsRoomCorrect == Spec => []HearsItsRoom
<1>1. Init => HearsItsRoom
  BY DEF Init, HearsItsRoom
<1>2. HearsItsRoom /\ [Next]_vars => HearsItsRoom'
  BY DEF HearsItsRoom, Next, vars, joins, Request, Navigate, RunEffects, Unsubscribed, RenderApp,
         ReloadAfterDelay, LoadQueues, Response, Connect, OnOpen, OnClose, Break, Receive
<1>. QED  BY <1>1, <1>2, PTL DEF Spec

-----------------------------------------------------------------------------
(* Subscription.                                                           *)

\* The middleware takes the socket for open while it is, and until it notices that it
\* is not; a connection that is not open holds nothing and the server no room.
LinkInv ==
  /\ connectionEstablished <=> link \in {"open", "broken"}
  /\ link # "open" => up = <<>> /\ room = None

\* What a new connection would ask for is what the page wants.
JoinInv == lastJoinRequest = effect

SubInv == LinkInv /\ JoinInv /\ (link = "open" => Leads(room, up, Served(effect)))

LEMMA ServedType ==
  ASSUME NEW r \in AllRooms
  PROVE  Served(r) \in AllRooms
BY DEF Served, AllRooms

\* Leaving the room of before and entering the one of now
LEMMA LeadsFromTo ==
  ASSUME NEW r \in AllRooms, NEW s \in AllRooms
  PROVE  Leads(Served(r), Leave(r) \o Enter(s), Served(s))
BY EnterLeaveType, LeadsEnter, LeadsOn, ServedType, ClientSocketAssumption DEF AllRooms

LEMMA SubNext == TypeOK /\ SubInv /\ [Next]_vars => SubInv'
<1>. SUFFICES ASSUME TypeOK, SubInv, [Next]_vars PROVE SubInv'
  OBVIOUS
<1>. USE DEF store, joins, server
<1>0. /\ effect \in AllRooms /\ Wanted \in AllRooms /\ None \in AllRooms /\ room \in AllRooms
      /\ up \in Seq(Messages)
  BY ClientSocketAssumption DEF TypeOK, AllRooms, Wanted, Rooms
<1>1. ASSUME UNCHANGED <<lastJoinRequest, effect, connectionEstablished, link, up, room>>
      PROVE  SubInv'
  BY <1>1 DEF SubInv, LinkInv, JoinInv, Leads, Served
<1>2. ASSUME NEW ms \in Seq(Messages), NEW ns \in Seq(Messages), SendMessages(ms, ns),
             Leads(Served(effect), ms \o ns, Served(effect')), effect' \in AllRooms,
             lastJoinRequest' = effect', UNCHANGED <<connectionEstablished, link, room>>
      PROVE  SubInv'
  <2>1. link # "open" => up' = up
    BY <1>2 DEF SendMessages
  <2>2. CASE link = "open"
    <3>1. up' = up \o (ms \o ns)
      BY <1>2, <2>2 DEF SendMessages, SubInv, LinkInv
    <3>2. Leads(room, up, Served(effect)) /\ ms \o ns \in Seq(Messages)
      BY <2>2 DEF SubInv
    <3>3. Leads(room, up', Served(effect'))
      BY <1>0, <1>2, <3>1, <3>2, LeadsOn, ServedType
    <3>. QED  BY <1>2, <2>2, <3>3 DEF SubInv, LinkInv, JoinInv, Leads, Served
  <2>. QED  BY <1>2, <2>1, <2>2 DEF SubInv, LinkInv, JoinInv
<1>3. CASE Request
  <2>1. <<Click>> \in Seq(Messages) /\ <<>> \in Seq(Messages)
    BY <1>0, EnterLeaveType
  <2>2. Leads(Served(effect), <<Click>> \o <<>>, Served(effect))
    <3>1. Leads(Served(effect), <<Click>>, RoomAfter(Served(effect), Click))
      BY <1>0, EnterLeaveType, ServedType, LeadsOne
    <3>2. RoomAfter(Served(effect), Click) = Served(effect)
      BY DEF RoomAfter, Click
    <3>3. <<Click>> \o <<>> = <<Click>>
      BY <2>1
    <3>. QED  BY <3>1, <3>2, <3>3
  <2>. QED  BY <1>0, <1>2, <1>3, <2>1, <2>2 DEF Request, SubInv, JoinInv
<1>4. ASSUME NEW p \in Rooms \cup {None}, Navigate(p) PROVE SubInv'
  <2>1. CASE effect # None /\ ~(page \in Queues /\ p \in Queues)
    <3>1. Leave(effect) \in Seq(Messages) /\ <<>> \in Seq(Messages)
      BY <1>0, EnterLeaveType
    <3>2. effect' = None /\ lastJoinRequest' = None
      BY <1>4, <2>1 DEF Navigate, Unsubscribed, SubInv, JoinInv
    <3>3. Leads(Served(effect), Leave(effect) \o <<>>, Served(None))
      <4>1. Enter(None) = <<>>
        BY DEF Enter
      <4>. QED  BY <1>0, <4>1, LeadsFromTo
    <3>. QED  BY <1>0, <1>2, <1>4, <2>1, <3>1, <3>2, <3>3 DEF Navigate
  <2>2. CASE ~(effect # None /\ ~(page \in Queues /\ p \in Queues))
    BY <1>1, <1>4, <2>2 DEF Navigate
  <2>. QED  BY <2>1, <2>2
<1>5. CASE RunEffects
  <2>1. Leave(effect) \in Seq(Messages) /\ Enter(Wanted) \in Seq(Messages)
    BY <1>0, EnterLeaveType
  <2>2. effect' = Wanted /\ lastJoinRequest' = Wanted
    BY <1>5 DEF RunEffects, Unsubscribed, SubInv, JoinInv
  <2>. QED  BY <1>0, <1>2, <1>5, <2>1, <2>2, LeadsFromTo DEF RunEffects
<1>6. CASE RenderApp \/ ReloadAfterDelay \/ Response
  BY <1>1, <1>6 DEF RenderApp, ReloadAfterDelay, LoadQueues, Response
<1>7. CASE Connect
  BY <1>7 DEF Connect, SubInv, LinkInv, JoinInv
<1>8. CASE OnOpen
  <2>1. PICK k \in 0 .. Count(pendingRequests) :
          up' = Enter(lastJoinRequest) \o [i \in 1 .. k |-> Click]
    BY <1>8 DEF OnOpen
  <2>2. room = None /\ UNCHANGED <<effect, lastJoinRequest, room>> /\ lastJoinRequest = effect
    BY <1>8 DEF OnOpen, SubInv, LinkInv, JoinInv
  <2>3. Enter(effect) \in Seq(Messages) /\ [i \in 1 .. k |-> Click] \in Seq(Messages)
    BY <1>0, EnterLeaveType
  <2>4. Leads(Served(effect), [i \in 1 .. k |-> Click], Served(effect))
    BY <1>0, ServedType, LeadsClicks
  <2>5. Leads(None, up', Served(effect))
    BY <1>0, <2>1, <2>2, <2>3, <2>4, LeadsEnter, LeadsOn, ServedType
  <2>6. Leads(room, up, Served(effect))'
    BY <2>2, <2>5 DEF Leads, Served
  <2>. QED  BY <1>8, <2>2, <2>6 DEF OnOpen, SubInv, LinkInv, JoinInv
<1>9. CASE OnClose
  BY <1>9 DEF OnClose, SubInv, LinkInv, JoinInv
<1>10. CASE Break
  BY <1>10 DEF Break, SubInv, LinkInv, JoinInv
<1>11. CASE Receive
  <2>1. link = "open" /\ Leads(room, up, Served(effect))
    BY <1>11 DEF Receive, SubInv, LinkInv
  <2>2. /\ up' = Tail(up) /\ room' = RoomAfter(room, Head(up)) /\ up # <<>>
        /\ UNCHANGED <<effect, lastJoinRequest, connectionEstablished, link>>
    BY <1>11 DEF Receive
  <2>3. Leads(room', up', Served(effect))
    BY <1>0, <2>1, <2>2, LeadsRest, ServedType
  <2>4. Leads(room, up, Served(effect))'
    BY <2>2, <2>3 DEF Leads, Served
  <2>. QED  BY <2>1, <2>2, <2>4 DEF SubInv, LinkInv, JoinInv
<1>12. CASE UNCHANGED vars
  BY <1>1, <1>12 DEF vars
<1>. QED  BY <1>3, <1>4, <1>5, <1>6, <1>7, <1>8, <1>9, <1>10, <1>11, <1>12 DEF Next

\* A tab is in the room its page shows once what it has sent has arrived, over any
\* number of connections.
THEOREM SubscribedToPageCorrect == Spec => []SubscribedToPage
<1>1. Init => SubInv
  BY DEF Init, SubInv, LinkInv, JoinInv
<1>2. SubInv => SubscribedToPage
  <2>. SUFFICES ASSUME SubInv, link = "open", up = <<>> PROVE room = Served(effect)
    BY DEF SubscribedToPage
  <2>1. Leads(room, <<>>, Served(effect))
    BY DEF SubInv
  <2>. QED  BY <2>1 DEF Leads
<1>. QED  BY <1>1, <1>2, SubNext, TypeCorrect, PTL DEF Spec

-----------------------------------------------------------------------------
(* Requests.                                                               *)

Clicks(ms) == {i \in DOMAIN ms : ms[i] = Click}

LEMMA CountNat ==
  ASSUME NEW ms \in Seq(Messages)
  PROVE  Count(ms) \in Nat /\ IsFiniteSet(Clicks(ms)) /\ Count(ms) = Cardinality(Clicks(ms))
<1>1. IsFiniteSet(1 .. Len(ms)) /\ Clicks(ms) \subseteq 1 .. Len(ms)
  BY FS_Interval DEF Clicks
<1>2. IsFiniteSet(Clicks(ms))
  BY <1>1, FS_Subset
<1>. QED  BY <1>2, FS_CardinalityType DEF Count, Clicks

LEMMA CountConcat ==
  ASSUME NEW s \in Seq(Messages), NEW t \in Seq(Messages)
  PROVE  Count(s \o t) = Count(s) + Count(t)
<1>. DEFINE later == {i \in Clicks(s \o t) : i > Len(s)}
            shift == [j \in Clicks(t) |-> j + Len(s)]
<1>1. /\ Len(s) \in Nat /\ Len(t) \in Nat /\ Len(s \o t) = Len(s) + Len(t)
      /\ \A i \in 1 .. Len(s) : (s \o t)[i] = s[i]
      /\ \A j \in 1 .. Len(t) : (s \o t)[j + Len(s)] = t[j]
  OBVIOUS
<1>2. Clicks(s \o t) = Clicks(s) \cup later
  BY <1>1 DEF Clicks
<1>3. Clicks(s) \cap later = {}
  BY <1>1 DEF Clicks
<1>4. shift \in Bijection(Clicks(t), later)
  <2>1. \A j \in Clicks(t) : j \in 1 .. Len(t) /\ t[j] = Click
    BY DEF Clicks
  <2>2. ASSUME NEW j \in Clicks(t) PROVE shift[j] \in later
    <3>1. j + Len(s) \in 1 .. Len(s \o t) /\ j + Len(s) > Len(s)
      BY <1>1, <2>1
    <3>. QED  BY <1>1, <2>1, <3>1 DEF Clicks
  <2>3. ASSUME NEW i \in later PROVE \E j \in Clicks(t) : shift[j] = i
    <3>1. i \in 1 .. Len(s \o t) /\ i > Len(s) /\ (s \o t)[i] = Click
      BY DEF Clicks
    <3>2. i - Len(s) \in 1 .. Len(t) /\ (i - Len(s)) + Len(s) = i
      BY <1>1, <3>1
    <3>3. i - Len(s) \in Clicks(t)
      BY <1>1, <3>1, <3>2 DEF Clicks
    <3>. QED  BY <3>2, <3>3
  <2>4. \A j, k \in Clicks(t) : shift[j] = shift[k] => j = k
    BY <1>1, <2>1
  <2>. QED  BY <2>2, <2>3, <2>4, Fun_IsBij
<1>5. Cardinality(later) = Cardinality(Clicks(t)) /\ IsFiniteSet(later)
  BY <1>4, CountNat, FS_Bijection DEF ExistsBijection
<1>6. Cardinality(Clicks(s) \cup later) = Cardinality(Clicks(s)) + Cardinality(later)
  <2>1. IsFiniteSet(Clicks(s)) /\ Cardinality(Clicks(s)) \in Nat /\ Cardinality(later) \in Nat
    BY <1>5, CountNat, FS_CardinalityType
  <2>2. Cardinality(Clicks(s) \cup later)
          = Cardinality(Clicks(s)) + Cardinality(later) - Cardinality(Clicks(s) \cap later)
    BY <1>5, <2>1, FS_Union
  <2>3. Cardinality(Clicks(s) \cap later) = 0
    BY <1>3, FS_EmptySet
  <2>. QED  BY <2>1, <2>2, <2>3
<1>7. s \o t \in Seq(Messages)
  OBVIOUS
<1>. QED  BY <1>2, <1>5, <1>6, <1>7, CountNat

LEMMA CountNone ==
  ASSUME NEW ms \in Seq(Messages), \A i \in 1 .. Len(ms) : ms[i] # Click
  PROVE  Count(ms) = 0
<1>1. Clicks(ms) = {}
  BY DEF Clicks
<1>. QED  BY <1>1, CountNat, FS_EmptySet

LEMMA CountAll ==
  ASSUME NEW k \in Nat
  PROVE  Count([i \in 1 .. k |-> Click]) = k
<1>1. {j \in DOMAIN [i \in 1 .. k |-> Click] : [i \in 1 .. k |-> Click][j] = Click} = 1 .. k
  OBVIOUS
<1>2. Cardinality(1 .. k) = k
  BY FS_Interval
<1>. QED  BY <1>1, <1>2 DEF Count

LEMMA CountOne == Count(<<Click>>) = 1 /\ Count(<<>>) = 0
<1>1. {j \in DOMAIN <<Click>> : <<Click>>[j] = Click} = {1}
  OBVIOUS
<1>2. {j \in DOMAIN <<>> : <<>>[j] = Click} = {}
  OBVIOUS
<1>. QED  BY <1>1, <1>2, FS_Singleton, FS_EmptySet DEF Count

LEMMA CountEnterLeave ==
  ASSUME NEW r \in AllRooms
  PROVE  Count(Enter(r)) = 0 /\ Count(Leave(r)) = 0
<1>1. Enter(r) \in Seq(Messages) /\ Leave(r) \in Seq(Messages)
  BY EnterLeaveType
<1>2. Subscribe(r) # Click /\ Unsubscribe(r) # Click
  BY DEF Subscribe, Unsubscribe, Click
<1>3. \A i \in 1 .. Len(Enter(r)) : Enter(r)[i] # Click
  BY <1>2 DEF Enter
<1>4. \A i \in 1 .. Len(Leave(r)) : Leave(r)[i] # Click
  BY <1>2 DEF Leave
<1>. QED  BY <1>1, <1>3, <1>4, CountNone

LEMMA CountTail ==
  ASSUME NEW ms \in Seq(Messages), ms # <<>>
  PROVE  Count(ms) = Count(Tail(ms)) + IF Head(ms) = Click THEN 1 ELSE 0
<1>1. /\ ms = <<Head(ms)>> \o Tail(ms) /\ Head(ms) \in Messages
      /\ <<Head(ms)>> \in Seq(Messages) /\ Tail(ms) \in Seq(Messages)
  OBVIOUS
<1>2. Count(ms) = Count(<<Head(ms)>>) + Count(Tail(ms))
  BY <1>1, CountConcat
<1>3. Count(<<Head(ms)>>) = IF Head(ms) = Click THEN 1 ELSE 0
  <2>1. Head(ms) # Click => \A i \in 1 .. Len(<<Head(ms)>>) : <<Head(ms)>>[i] # Click
    OBVIOUS
  <2>2. Head(ms) # Click => Count(<<Head(ms)>>) = 0
    BY <1>1, <2>1, CountNone
  <2>. QED  BY <2>2, CountOne
<1>4. Count(Tail(ms)) \in Nat
  BY <1>1, CountNat
<1>. QED  BY <1>2, <1>3, <1>4

LEMMA CountKeep ==
  ASSUME NEW p \in Seq(Messages), NEW ms \in Seq(Messages)
  PROVE  Count(Keep(p, ms)) <= Count(p) + Count(ms)
BY CountConcat, CountNat DEF Keep

\* A step that sends makes no more requests than it is given.
LEMMA CountSend ==
  ASSUME TypeOK, NEW ms \in Seq(Messages), NEW ns \in Seq(Messages), SendMessages(ms, ns)
  PROVE  Count(up') + Count(pendingRequests')
           <= Count(up) + Count(pendingRequests) + Count(ms) + Count(ns)
<1>1. up \in Seq(Messages) /\ pendingRequests \in Seq(Messages) /\ ms \o ns \in Seq(Messages)
  BY DEF TypeOK
<1>2. /\ Count(up) \in Nat /\ Count(pendingRequests) \in Nat
      /\ Count(ms) \in Nat /\ Count(ns) \in Nat
  BY <1>1, CountNat
<1>3. Count(up \o (ms \o ns)) = Count(up) + Count(ms) + Count(ns)
  <2>1. Count(up \o (ms \o ns)) = Count(up) + Count(ms \o ns)
    BY <1>1, CountConcat
  <2>2. Count(ms \o ns) = Count(ms) + Count(ns)
    BY CountConcat
  <2>. QED  BY <1>2, <2>1, <2>2
<1>4. Keep(pendingRequests, ms) \in Seq(Messages)
      /\ Keep(Keep(pendingRequests, ms), ns) \in Seq(Messages)
  BY <1>1, KeepType
<1>5. /\ Count(Keep(pendingRequests, ms)) <= Count(pendingRequests) + Count(ms)
      /\ Count(Keep(Keep(pendingRequests, ms), ns)) <= Count(Keep(pendingRequests, ms)) + Count(ns)
  BY <1>1, <1>4, CountKeep
<1>6. Count(Keep(pendingRequests, ms)) \in Nat /\ Count(Keep(Keep(pendingRequests, ms), ns)) \in Nat
  BY <1>4, CountNat
<1>7. CASE connectionEstablished
  <2>1. pendingRequests' = pendingRequests /\ (up' = up \/ up' = up \o (ms \o ns))
    BY <1>7 DEF SendMessages
  <2>2. Count(up') \in {Count(up), Count(up) + Count(ms) + Count(ns)}
        /\ Count(pendingRequests') = Count(pendingRequests)
    BY <1>3, <2>1
  <2>. QED  BY <1>2, <2>2
<1>8. CASE ~connectionEstablished
  <2>1. up' = up /\ pendingRequests' = Keep(Keep(pendingRequests, ms), ns)
    BY <1>8 DEF SendMessages
  <2>. QED  BY <1>2, <1>5, <1>6, <2>1
<1>. QED  BY <1>7, <1>8

LEMMA RequestedNext == TypeOK /\ RequestedOnce /\ [Next]_vars => RequestedOnce'
<1>. SUFFICES ASSUME TypeOK, RequestedOnce, [Next]_vars PROVE RequestedOnce'
  OBVIOUS
<1>. USE DEF store, joins, server
<1>0. /\ effect \in AllRooms /\ Wanted \in AllRooms /\ lastJoinRequest \in AllRooms
      /\ up \in Seq(Messages) /\ pendingRequests \in Seq(Messages) /\ <<>> \in Seq(Messages)
      /\ executed \in Nat /\ clicked \in Nat
      /\ executed + Count(up) + Count(pendingRequests) <= clicked
  BY ClientSocketAssumption DEF TypeOK, AllRooms, Wanted, Rooms, RequestedOnce
<1>01. /\ Count(up) \in Nat /\ Count(pendingRequests) \in Nat
       /\ executed \in Nat /\ clicked \in Nat
       /\ executed + Count(up) + Count(pendingRequests) <= clicked
  BY <1>0, CountNat
<1>1. ASSUME UNCHANGED <<executed, clicked, up, pendingRequests>> PROVE RequestedOnce'
  BY <1>0, <1>1 DEF Count, RequestedOnce
<1>2. ASSUME NEW ms \in Seq(Messages), NEW ns \in Seq(Messages), SendMessages(ms, ns),
             executed' = executed, clicked' \in Nat, clicked' >= clicked + Count(ms) + Count(ns)
      PROVE  RequestedOnce'
  <2>1. up' \in Seq(Messages) /\ pendingRequests' \in Seq(Messages)
    BY <1>2, SendType
  <2>2. /\ Count(up') \in Nat /\ Count(pendingRequests') \in Nat
        /\ Count(ms) \in Nat /\ Count(ns) \in Nat
    BY <2>1, CountNat
  <2>3. Count(up') + Count(pendingRequests')
          <= Count(up) + Count(pendingRequests) + Count(ms) + Count(ns)
    BY <1>2, CountSend
  <2>4. executed' + Count(up') + Count(pendingRequests') <= clicked'
    <3>1. executed' = executed /\ clicked' \in Nat /\ clicked' >= clicked + Count(ms) + Count(ns)
      BY <1>2
    <3>. DEFINE a == Count(up)  b == Count(pendingRequests)  c == Count(ms)  d == Count(ns)
                x == Count(up')  y == Count(pendingRequests')
    <3>2. /\ a \in Nat /\ b \in Nat /\ c \in Nat /\ d \in Nat /\ x \in Nat /\ y \in Nat
          /\ executed \in Nat /\ clicked \in Nat
          /\ executed + a + b <= clicked /\ x + y <= a + b + c + d
          /\ clicked' \in Nat /\ clicked' >= clicked + c + d
      BY <1>01, <2>2, <2>3, <3>1
    <3>. HIDE DEF a, b, c, d, x, y
    <3>3. executed + x + y <= clicked'
      BY <3>2
    <3>. QED  BY <3>1, <3>3 DEF x, y
  <2>. QED  BY <2>4 DEF RequestedOnce, Count
<1>3. CASE Request
  <2>1. <<Click>> \in Seq(Messages)
    BY <1>0, EnterLeaveType
  <2>2. clicked' = clicked + 1 /\ executed' = executed /\ SendMessages(<<Click>>, <<>>)
    BY <1>3 DEF Request
  <2>3. clicked' \in Nat /\ clicked' >= clicked + Count(<<Click>>) + Count(<<>>)
    BY <1>01, <2>2, CountOne
  <2>. QED  BY <1>0, <1>2, <2>1, <2>2, <2>3
<1>4. ASSUME NEW p \in Rooms \cup {None}, Navigate(p) PROVE RequestedOnce'
  <2>1. CASE effect # None /\ ~(page \in Queues /\ p \in Queues)
    <3>1. Leave(effect) \in Seq(Messages) /\ Count(Leave(effect)) = 0
      BY <1>0, EnterLeaveType, CountEnterLeave
    <3>2. clicked' = clicked /\ executed' = executed /\ SendMessages(Leave(effect), <<>>)
      BY <1>4, <2>1 DEF Navigate
    <3>3. clicked' \in Nat /\ clicked' >= clicked + Count(Leave(effect)) + Count(<<>>)
      BY <1>01, <3>1, <3>2, CountOne
    <3>. QED  BY <1>0, <1>2, <3>1, <3>2, <3>3
  <2>2. CASE ~(effect # None /\ ~(page \in Queues /\ p \in Queues))
    BY <1>1, <1>4, <2>2 DEF Navigate
  <2>. QED  BY <2>1, <2>2
<1>5. CASE RunEffects
  <2>1. /\ Leave(effect) \in Seq(Messages) /\ Enter(Wanted) \in Seq(Messages)
        /\ Count(Leave(effect)) = 0 /\ Count(Enter(Wanted)) = 0
    BY <1>0, EnterLeaveType, CountEnterLeave
  <2>2. clicked' = clicked /\ executed' = executed /\ SendMessages(Leave(effect), Enter(Wanted))
    BY <1>5 DEF RunEffects
  <2>. QED  BY <1>0, <1>2, <2>1, <2>2
<1>6. CASE RenderApp \/ ReloadAfterDelay \/ Response \/ Connect \/ OnClose
  BY <1>1, <1>6 DEF RenderApp, ReloadAfterDelay, LoadQueues, Response, Connect, OnClose
<1>7. CASE OnOpen
  <2>1. PICK k \in 0 .. Count(pendingRequests) :
          up' = Enter(lastJoinRequest) \o [i \in 1 .. k |-> Click]
    BY <1>7 DEF OnOpen
  <2>2. Enter(lastJoinRequest) \in Seq(Messages) /\ [i \in 1 .. k |-> Click] \in Seq(Messages)
    BY <1>0, EnterLeaveType
  <2>3. k \in Nat /\ k <= Count(pendingRequests)
    BY <1>01
  <2>4. Count(up') = k
    <3>1. Count(up') = Count(Enter(lastJoinRequest)) + Count([i \in 1 .. k |-> Click])
      BY <2>1, <2>2, CountConcat
    <3>2. Count(Enter(lastJoinRequest)) = 0 /\ Count([i \in 1 .. k |-> Click]) = k
      BY <1>0, <2>3, CountEnterLeave, CountAll
    <3>. QED  BY <2>3, <3>1, <3>2
  <2>5. pendingRequests' = <<>> /\ clicked' = clicked /\ executed' = executed
    BY <1>7 DEF OnOpen
  <2>6. executed' + Count(up') + Count(pendingRequests') <= clicked'
    BY <1>0, <1>01, <2>3, <2>4, <2>5, CountOne
  <2>. QED  BY <2>6 DEF RequestedOnce, Count
<1>8. CASE Break
  <2>1. up' = <<>> /\ UNCHANGED <<pendingRequests, clicked, executed>>
    BY <1>8 DEF Break
  <2>2. executed' + Count(up') + Count(pendingRequests') <= clicked'
    BY <1>0, <1>01, <2>1, CountOne
  <2>. QED  BY <2>2 DEF RequestedOnce, Count
<1>9. CASE Receive
  <2>1. /\ up # <<>> /\ up' = Tail(up) /\ UNCHANGED <<pendingRequests, clicked>>
        /\ executed' = IF Head(up) = Click THEN executed + 1 ELSE executed
    BY <1>9 DEF Receive
  <2>2. Count(up) = Count(up') + IF Head(up) = Click THEN 1 ELSE 0
    BY <1>0, <2>1, CountTail
  <2>3. Count(up') \in Nat
    <3>1. Tail(up) \in Seq(Messages)
      BY <1>0, <2>1
    <3>. QED  BY <2>1, <3>1, CountNat
  <2>4. executed' + Count(up') + Count(pendingRequests') <= clicked'
    BY <1>0, <1>01, <2>1, <2>2, <2>3
  <2>. QED  BY <2>4 DEF RequestedOnce, Count
<1>10. CASE UNCHANGED vars
  BY <1>1, <1>10 DEF vars
<1>. QED  BY <1>3, <1>4, <1>5, <1>6, <1>7, <1>8, <1>9, <1>10 DEF Next

\* The server receives no request more often than the user made it, through
\* pendingRequests and any number of connections.
THEOREM RequestedOnceCorrect == Spec => []RequestedOnce
<1>1. Init => RequestedOnce
  BY CountOne DEF Init, RequestedOnce
<1>. QED  BY <1>1, RequestedNext, TypeCorrect, PTL DEF Spec

-----------------------------------------------------------------------------
(* Reloads.                                                                *)

\* Once onclose has run, disconnectedAt remembers the loss until onOpen has seen it.
DueInv ==
  /\ ReloadIsDue
  /\ missed = "unloaded" /\ link \in {"closed", "connecting"} => disconnected

LEMMA DueNext == TypeOK /\ DueInv /\ [Next]_vars => DueInv'
<1>. SUFFICES ASSUME TypeOK, DueInv, [Next]_vars PROVE DueInv'
  OBVIOUS
<1>. USE DEF DueInv, ReloadIsDue
<1>0. link \in {"closed", "connecting", "open", "broken"} /\ timers \in Nat /\ fresh \in Nat
  BY DEF TypeOK
<1>1. CASE Request
  BY <1>1 DEF Request, store
<1>2. ASSUME NEW p \in Rooms \cup {None}, Navigate(p) PROVE DueInv'
  BY <1>2 DEF Navigate, store
<1>3. CASE RunEffects
  BY <1>3 DEF RunEffects, store
\* A load that is sent while the connection is open is fresh.
<1>4. CASE RenderApp
  <2>1. UNCHANGED <<missed, link, timers, disconnected>> /\ (link = "open" => fresh' = fresh + 1)
    BY <1>4 DEF RenderApp, LoadQueues
  <2>. QED  BY <1>0, <2>1
<1>5. CASE ReloadAfterDelay
  <2>1. UNCHANGED <<missed, link, disconnected>> /\ (link = "open" => fresh' = fresh + 1)
    BY <1>5 DEF ReloadAfterDelay, LoadQueues
  <2>. QED  BY <1>0, <2>1
\* The answer of a fresh load ends what is missed, another one leaves the fresh ones alone.
<1>6. CASE Response
  <2>1. UNCHANGED <<link, timers, disconnected>>
    BY <1>6 DEF Response
  <2>2. missed' # "unloaded" \/ UNCHANGED <<fresh, missed>>
    BY <1>6 DEF Response, Answered
  <2>. QED  BY <2>1, <2>2
<1>7. CASE Connect
  BY <1>7 DEF Connect, store
\* The loss was remembered, so that the timer is set; or a failed load is sent anew.
<1>8. CASE OnOpen
  <2>1. link = "connecting" /\ link' = "open"
    BY <1>8 DEF OnOpen
  <2>2. CASE requestStatus = "failed"
    <3>1. fresh' = fresh + 1
      BY <1>8, <2>2 DEF OnOpen
    <3>. QED  BY <1>0, <2>1, <3>1
  <2>3. CASE requestStatus # "failed"
    <3>1. UNCHANGED <<missed, fresh>> /\ timers' = IF disconnected THEN timers + 1 ELSE timers
      BY <1>8, <2>3 DEF OnOpen
    <3>. QED  BY <1>0, <2>1, <3>1
  <2>. QED  BY <2>2, <2>3
<1>9. CASE OnClose
  BY <1>9 DEF OnClose, store
<1>10. CASE Break
  BY <1>10 DEF Break
<1>11. CASE Receive
  BY <1>11 DEF Receive, store
<1>12. CASE UNCHANGED vars
  BY <1>12 DEF vars, store
<1>. QED  BY <1>1, <1>2, <1>3, <1>4, <1>5, <1>6, <1>7, <1>8, <1>9, <1>10, <1>11, <1>12 DEF Next

\* However the connection fails, in whatever order losses, loads that fail and timers come, a
\* connected tab that missed something has a timer that will load the queues, or such a load
\* under way (onOpen's delay after disconnectedAt, and its reload at once when the last load
\* failed).
THEOREM ReloadIsDueCorrect == Spec => []ReloadIsDue
<1>1. Init => DueInv
  BY DEF Init, DueInv, ReloadIsDue
<1>2. DueInv => ReloadIsDue
  BY DEF DueInv
<1>. QED  BY <1>1, <1>2, DueNext, TypeCorrect, PTL DEF Spec
=============================================================================
