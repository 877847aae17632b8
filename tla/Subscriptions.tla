----------------------------- MODULE Subscriptions -----------------------------
(***************************************************************************)
(* What the room bookkeeping of the web socket server promises, without    *)
(* saying how: every connection is subscribed to at most one room, and a   *)
(* message published in a room reaches every connection subscribed to that *)
(* room exactly once and no other connection.  RoomHandler keeps this in   *)
(* two redundant places (the shared table `rooms` and the `active_room` of *)
(* each handler) and is shown to implement it.                             *)
(***************************************************************************)
EXTENDS Naturals

CONSTANTS
  Conns,    \* connections
  Queues,   \* queue names, each of which names a room
  Lobby,    \* the room of the lobby
  None,     \* no room
  MaxMessages  \* bound: messages one request publishes in a room

RoomNames == Queues \cup {Lobby}

VARIABLES
  sub,      \* the room a connection is subscribed to, or None
  recv      \* messages a connection got since it subscribed

subVars == <<sub, recv>>

TypeOK ==
  /\ sub \in [Conns -> RoomNames \cup {None}]
  /\ recv \in [Conns -> Nat]

Init ==
  /\ sub = [c \in Conns |-> None]
  /\ recv = [c \in Conns |-> 0]

Subscribe(c, r) ==
  /\ sub' = [sub EXCEPT ![c] = r]
  /\ recv' = [recv EXCEPT ![c] = 0]

Unsubscribe(c) ==
  /\ sub' = [sub EXCEPT ![c] = None]
  /\ recv' = [recv EXCEPT ![c] = 0]

\* One request publishes k messages in the room of queue q and m in the lobby.
Publish(q, k, m) ==
  /\ recv' = [c \in Conns |->
               recv[c] + (CASE sub[c] = q     -> k
                            [] sub[c] = Lobby -> m
                            [] OTHER          -> 0)]
  /\ UNCHANGED sub

\* A restart of the server forgets every subscription.
Restart ==
  /\ sub' = [c \in Conns |-> None]
  /\ recv' = [c \in Conns |-> 0]

Next ==
  \/ \E c \in Conns : \E r \in RoomNames : Subscribe(c, r)
  \/ \E c \in Conns : Unsubscribe(c)
  \/ \E q \in Queues : \E k, m \in 0 .. MaxMessages : Publish(q, k, m)
  \/ Restart

Spec == Init /\ [][Next]_subVars
=============================================================================
