----------------------------- MODULE ClientSocket -----------------------------
(***************************************************************************)
(* One browser tab and its web socket: SocketMiddleware.ts, the effects of *)
(* the pages Home and Queue that subscribe to a room, the loading of the   *)
(* queues those effects wait for, and what the server makes of the         *)
(* messages of the present connection.                                     *)
(*                                                                         *)
(* A page is named by the room it shows: the lobby for Home, a queue for   *)
(* Queue, None for any other.  A step is an event of the browser's loop:   *)
(* React runs the effects of one rendering before the next one, so a step  *)
(* that makes it render again waits for them (Rendered).  Requests other   *)
(* than subscriptions are all alike; tokens are left out.                  *)
(***************************************************************************)
EXTENDS Naturals, FiniteSets, SequencesExt

CONSTANTS
  Queues,    \* names that may be in the address of a Queue page
  Existing,  \* those the server has a queue of
  Lobby,
  None,
  MaxBreaks, \* bound: how often the network fails
  MaxGets,   \* bound: GETs of the queues in flight
  MaxClicks, \* bound: requests
  MaxQueued  \* bound: messages pending, or on their way

ASSUME ClientSocketAssumption ==
  /\ Existing \subseteq Queues
  /\ Lobby \notin Queues /\ None \notin Queues /\ Lobby # None
  /\ MaxBreaks \in Nat /\ MaxGets \in Nat \ {0, 1} /\ MaxClicks \in Nat
  /\ MaxQueued \in Nat \ {0, 1}

Rooms == Queues \cup {Lobby}
Subscribe(r) == [path |-> "subscribe", room |-> r]
Unsubscribe(r) == [path |-> "unsubscribe", room |-> r]
Click == [path |-> "request", room |-> None]
Messages == {Subscribe(r) : r \in Rooms} \cup {Unsubscribe(r) : r \in Rooms} \cup {Click}

VARIABLES
  page,                  \* the page the router shows
  effect,                \* the room its effect is subscribed to
  requestStatus,         \* of the queues in the store
  gets,                  \* GETs in flight
  timers,                \* reloads to come, of setTimeout in onOpen
  connectionEstablished,
  disconnected,          \* disconnectedAt is not -1
  lastJoinRequest,
  pendingRequests,
  listening,             \* callbacks has joinQueue/:queueName and leaveQueue/:queueName
  link,                  \* the socket, as the network knows it
  up,                    \* messages on their way to the server
  room,                  \* active_room of the server's handler
  breaks, clicked, executed,  \* observations: failures, requests made, requests received
  missed, fresh               \* observations: whether what a loss of the connection hid is
                              \* loaded; GETs in flight that were sent over an open link since

store == <<requestStatus, gets, timers, missed, fresh>>
joins == <<effect, lastJoinRequest, listening>>
server == <<room, executed>>
vars == <<page, store, joins, connectionEstablished, disconnected, pendingRequests,
          link, up, server, breaks, clicked>>

TypeOK ==
  /\ page \in Rooms \cup {None}
  /\ effect \in Rooms \cup {None} /\ lastJoinRequest \in Rooms \cup {None}
  /\ requestStatus \in {"pending", "success", "failed"}
  /\ gets \in 0 .. MaxGets /\ timers \in Nat
  /\ connectionEstablished \in BOOLEAN /\ disconnected \in BOOLEAN /\ listening \in BOOLEAN
  /\ link \in {"closed", "connecting", "open", "broken"}
  /\ pendingRequests \in Seq(Messages) /\ up \in Seq(Messages)
  /\ room \in Existing \cup {Lobby, None}
  /\ breaks \in 0 .. MaxBreaks /\ clicked \in 0 .. MaxClicks /\ executed \in Nat
  /\ missed \in {"nothing", "unloaded", "failed"} /\ fresh \in 0 .. gets

\* App loads the queues while it renders, and LifeCycle after that.
Init ==
  /\ page \in Rooms \cup {None}
  /\ effect = None /\ lastJoinRequest = None /\ listening = FALSE
  /\ requestStatus = "pending" /\ gets = 2 /\ timers = 0
  /\ connectionEstablished = FALSE /\ disconnected = FALSE
  /\ pendingRequests = <<>> /\ up = <<>>
  /\ link = "closed" /\ room = None
  /\ breaks = 0 /\ clicked = 0 /\ executed = 0 /\ missed = "nothing" /\ fresh = 0

-----------------------------------------------------------------------------
(* Sending.                                                                *)

\* At most one message: to join room r, or to leave it, if it is one
Enter(r) == IF r = None THEN <<>> ELSE <<Subscribe(r)>>
Leave(r) == IF r = None THEN <<>> ELSE <<Unsubscribe(r)>>

\* A request that is pending already is not kept again.
Keep(pending, ms) == IF Range(ms) \subseteq Range(pending) THEN pending ELSE pending \o ms

\* A step sends at most one message, ms, and another, ns.  A socket that is broken
\* takes them and loses them, until onclose.
SendMessages(ms, ns) ==
  IF connectionEstablished
  THEN /\ Len(up) + Len(ms \o ns) <= MaxQueued
       /\ up' = IF link = "open" THEN up \o (ms \o ns) ELSE up
       /\ UNCHANGED pendingRequests
  ELSE /\ pendingRequests' = Keep(Keep(pendingRequests, ms), ns)
       /\ Len(pendingRequests') <= MaxQueued
       /\ UNCHANGED up

\* Any request of a page: joinQueue, kick, ...
Request ==
  /\ clicked < MaxClicks
  /\ clicked' = clicked + 1
  /\ SendMessages(<<Click>>, <<>>)
  /\ UNCHANGED <<page, store, joins, connectionEstablished, disconnected, link, server, breaks>>

-----------------------------------------------------------------------------
(* Pages and their effects.                                                *)

\* Home subscribes when it is shown, Queue while the queues are loaded.
Wanted == IF page \in Queues /\ requestStatus # "success" THEN None ELSE page

Rendered == effect = Wanted

\* Mutant: lastJoinRequest outlives the page
UnsubscribedKeeps ==
  /\ UNCHANGED lastJoinRequest
  /\ listening' = (listening /\ effect = Lobby)

\* The cleanup of an effect: what is deleted for the lobby is callbacks['joinQueue/lobby'].
Unsubscribed ==
  /\ lastJoinRequest' = IF lastJoinRequest = effect THEN None ELSE lastJoinRequest
  /\ listening' = (listening /\ effect = Lobby)

\* A page goes away with its cleanup; Queue stays for another queue.
Navigate(p) ==
  /\ Rendered
  /\ p # page
  /\ page' = p
  /\ IF effect # None /\ ~(page \in Queues /\ p \in Queues)
     THEN /\ Unsubscribed
          /\ effect' = None
          /\ SendMessages(Leave(effect), <<>>)
     ELSE UNCHANGED <<joins, up, pendingRequests>>
  /\ UNCHANGED <<store, connectionEstablished, disconnected, link, server, breaks, clicked>>

\* Mutant: the callbacks are deleted when the next effect has set them
RunEffectsThenCleanup ==
  /\ ~Rendered
  /\ effect' = Wanted
  /\ lastJoinRequest' = IF Wanted = None THEN None ELSE Wanted
  /\ listening' = (effect \notin Queues /\ (listening \/ Wanted # None))
  /\ SendMessages(Leave(effect), Enter(Wanted))
  /\ UNCHANGED <<page, store, connectionEstablished, disconnected, link, server, breaks, clicked>>

\* The cleanup for what was wanted before, then the effect for what is wanted now.
RunEffects ==
  /\ ~Rendered
  /\ effect' = Wanted
  /\ IF Wanted = None
     THEN Unsubscribed
     ELSE lastJoinRequest' = Wanted /\ listening' = TRUE
  /\ SendMessages(Leave(effect), Enter(Wanted))
  /\ UNCHANGED <<page, store, connectionEstablished, disconnected, link, server, breaks, clicked>>

-----------------------------------------------------------------------------
(* The queues.                                                             *)

LoadQueues ==
  /\ gets < MaxGets
  /\ gets' = gets + 1
  /\ requestStatus' = "pending"
  /\ fresh' = IF link = "open" THEN fresh + 1 ELSE fresh
  /\ UNCHANGED <<page, missed, joins, connectionEstablished, disconnected, pendingRequests, link,
                 up, server, breaks, clicked>>

\* App renders again, as it does when a banner comes.
RenderApp == Rendered /\ LoadQueues /\ UNCHANGED timers

\* The delay that onOpen has set is over.
ReloadAfterDelay == Rendered /\ timers > 0 /\ timers' = timers - 1 /\ LoadQueues

\* The answer shows what was missed if its GET is fresh; a load that failed is not repeated.
Answered ==
  \/ /\ fresh > 0
     /\ fresh' = fresh - 1
     /\ missed' = CASE requestStatus' = "success" -> "nothing"
                    [] missed = "nothing"         -> "nothing"
                    [] OTHER                      -> "failed"
  \/ fresh < gets /\ UNCHANGED <<fresh, missed>>

\* Some GET is answered, whichever was sent first.
Response ==
  /\ Rendered
  /\ gets > 0
  /\ gets' = gets - 1
  /\ requestStatus' \in {"success", "failed"}
  /\ Answered
  /\ UNCHANGED <<page, timers, joins, connectionEstablished, disconnected, pendingRequests,
                 link, up, server, breaks, clicked>>

-----------------------------------------------------------------------------
(* The socket.                                                             *)

\* Mutant: onclose does not set the timer that connects again
ConnectOnce ==
  /\ link = "closed"
  /\ ~disconnected
  /\ link' = "connecting"
  /\ UNCHANGED <<page, store, joins, connectionEstablished, disconnected, pendingRequests, up,
                 server, breaks, clicked>>

Connect ==
  /\ link = "closed"
  /\ link' = "connecting"
  /\ UNCHANGED <<page, store, joins, connectionEstablished, disconnected, pendingRequests, up,
                 server, breaks, clicked>>

\* Requests among messages
Count(ms) == Cardinality({i \in DOMAIN ms : ms[i] = Click})

\* Mutant: what has been sent stays pending
OnOpenKeeps ==
  /\ link = "connecting"
  /\ link' = "open"
  /\ connectionEstablished' = TRUE
  /\ IF requestStatus = "failed"
     THEN /\ gets < MaxGets
          /\ gets' = gets + 1 /\ fresh' = fresh + 1 /\ requestStatus' = "pending"
          /\ UNCHANGED timers
     ELSE /\ timers' = IF disconnected THEN timers + 1 ELSE timers
          /\ UNCHANGED <<gets, fresh, requestStatus>>
  /\ disconnected' = FALSE
  /\ \E k \in 0 .. Count(pendingRequests) :
       up' = Enter(lastJoinRequest) \o [i \in 1 .. k |-> Click]
  /\ UNCHANGED <<page, missed, joins, pendingRequests, server, breaks, clicked>>

\* Mutant: disconnectedAt is reset before it is looked at
OnOpenForgets ==
  /\ link = "connecting"
  /\ link' = "open"
  /\ connectionEstablished' = TRUE
  /\ IF requestStatus = "failed"
     THEN /\ gets < MaxGets
          /\ gets' = gets + 1 /\ fresh' = fresh + 1 /\ requestStatus' = "pending"
          /\ UNCHANGED timers
     ELSE /\ UNCHANGED timers
          /\ UNCHANGED <<gets, fresh, requestStatus>>
  /\ disconnected' = FALSE
  /\ \E k \in 0 .. Count(pendingRequests) :
       up' = Enter(lastJoinRequest) \o [i \in 1 .. k |-> Click]
  /\ pendingRequests' = <<>>
  /\ UNCHANGED <<page, missed, joins, server, breaks, clicked>>

\* Of what is pending, k requests are of this millisecond and sent; the rest is dropped.
OnOpen ==
  /\ link = "connecting"
  /\ link' = "open"
  /\ connectionEstablished' = TRUE
  /\ IF requestStatus = "failed"
     THEN /\ gets < MaxGets
          /\ gets' = gets + 1 /\ fresh' = fresh + 1 /\ requestStatus' = "pending"
          /\ UNCHANGED timers
     ELSE /\ timers' = IF disconnected THEN timers + 1 ELSE timers
          /\ UNCHANGED <<gets, fresh, requestStatus>>
  /\ disconnected' = FALSE
  /\ \E k \in 0 .. Count(pendingRequests) :
       up' = Enter(lastJoinRequest) \o [i \in 1 .. k |-> Click]
  /\ pendingRequests' = <<>>
  /\ UNCHANGED <<page, missed, joins, server, breaks, clicked>>

OnClose ==
  /\ link \in {"connecting", "broken"}
  /\ link = "connecting" => breaks < MaxBreaks
  /\ breaks' = IF link = "connecting" THEN breaks + 1 ELSE breaks
  /\ link' = "closed"
  /\ connectionEstablished' = FALSE
  /\ disconnected' = TRUE
  /\ UNCHANGED <<page, store, joins, pendingRequests, up, server, clicked>>

\* The connection is lost, with what is on its way; the browser has yet to notice.
Break ==
  /\ link = "open"
  /\ breaks < MaxBreaks
  /\ breaks' = breaks + 1
  /\ link' = "broken"
  /\ up' = <<>> /\ room' = None
  /\ missed' = "unloaded" /\ fresh' = 0
  /\ UNCHANGED <<page, requestStatus, gets, timers, joins, connectionEstablished, disconnected,
                 pendingRequests, clicked, executed>>

-----------------------------------------------------------------------------
(* The server.                                                             *)

\* Mutant: the queue is not looked up
RoomAfterUnchecked(r, m) ==
  IF m.path = "subscribe" THEN m.room ELSE IF m.path = "unsubscribe" THEN None ELSE r

\* A queue that does not exist leaves the room as it is.
RoomAfter(r, m) ==
  IF m.path = "subscribe" /\ m.room \in Existing \cup {Lobby} THEN m.room
  ELSE IF m.path = "unsubscribe" THEN None ELSE r

Receive ==
  /\ up # <<>>
  /\ up' = Tail(up)
  /\ room' = RoomAfter(room, Head(up))
  /\ executed' = IF Head(up) = Click THEN executed + 1 ELSE executed
  /\ UNCHANGED <<page, store, joins, connectionEstablished, disconnected, pendingRequests, link,
                 breaks, clicked>>

-----------------------------------------------------------------------------
Next ==
  \/ Request
  \/ \E p \in Rooms \cup {None} : Navigate(p)
  \/ RunEffects
  \/ RenderApp \/ ReloadAfterDelay \/ Response
  \/ Connect \/ OnOpen \/ OnClose \/ Break
  \/ Receive

Spec == Init /\ [][Next]_vars

\* Timers, React, fetch and the two ends of the connection go on; they are delayed
\* by other events of the loop, but not forever.
FairSpec ==
  /\ Spec
  /\ WF_vars(RunEffects) /\ WF_vars(Receive)
  /\ SF_vars(ReloadAfterDelay) /\ SF_vars(Response)
  /\ WF_vars(Connect) /\ SF_vars(OnOpen) /\ WF_vars(link = "broken" /\ OnClose)

-----------------------------------------------------------------------------
(* Properties.                                                             *)

\* What the server makes of a wish to be subscribed to r
Served(r) == IF r \in Existing \cup {Lobby} THEN r ELSE None

\* Once the server has received what is on its way, it has the tab in the room its page
\* shows, and in none if the page shows none: through changes of page and reloads, with
\* subscriptions sent, kept or dropped, over every reconnection.
SubscribedToPage == link = "open" /\ up = <<>> => room = Served(effect)

\* A tab that is subscribed hears its room: the callbacks of joins and leaves are
\* shared by all pages, and one page's cleanup never takes them from the next one.
HearsItsRoom == effect # None => listening

\* A request is received once at most, also when it is made while the connection is
\* down or just opening and goes through pendingRequests.
RequestedOnce == executed + Count(up) + Count(pendingRequests) <= clicked

\* A tab that has missed something has, once it is connected again, a reload to come or one
\* under way: neither a load that failed meanwhile, nor attempts to connect that failed, nor
\* another loss before the timer is over make it forget that.
ReloadIsDue == missed = "unloaded" /\ link = "open" => timers > 0 \/ fresh > 0

\* As long as the network fails finitely often, a tab ends up in the room it shows.
EndsUpSubscribed == \A r \in Rooms \cup {None} : <>[](Wanted = r) => <>[](room = Served(r))

\* After a loss of the connection a load is sent over the next one and answered: with what was
\* missed, or with a failure, after which the code waits for the next connection or rendering
\* of App.  The answer of a load that was sent before does not count.
LoadsAfterLoss == missed = "unloaded" ~> missed # "unloaded"
=============================================================================
