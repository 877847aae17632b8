------------------------------- MODULE LiveView -------------------------------
(***************************************************************************)
(* The list of a queue as a tab shows it, against the table queue_entries. *)
(* The tab is the one of ClientSocket; here its loads bring what an HTTP   *)
(* thread reads, and its connection brings the events that the handlers of *)
(* routes.rs announce after they have written.  Nothing orders the two.    *)
(*                                                                         *)
(* One queue, Shown, is followed; it exists throughout.  A handler is two  *)
(* steps: it writes the table, and later it announces that.  The web       *)
(* socket thread takes no other message in between, but the cleanup and    *)
(* the HTTP threads may come.                                              *)
(***************************************************************************)
EXTENDS ClientSocket

CONSTANTS
  Users,
  Shown,       \* the queue followed
  MaxChanges,  \* bound: statements that write the table
  MaxLoads     \* bound: loads after the first two

ASSUME LiveViewAssumption ==
  Shown \in Existing /\ MaxChanges \in Nat /\ MaxLoads \in Nat

Entry == [user : Users, helped : BOOLEAN]
Event == [path : {"joinQueue", "leaveQueue", "updateQueueEntry"}, entry : Entry, lobby : BOOLEAN]
Sent == [read |-> FALSE, rows |-> <<>>]

VARIABLES
  table,   \* rows of queue_entries for Shown, by id
  todo,    \* what the handler under way has yet to announce
  down,    \* events on their way to the tab
  loads,   \* the GETs in flight: sent, or with the rows read for the answer
  loaded,  \* queueList is not empty
  list,    \* queueEntries of Shown in queueList
  changes, loadCount  \* counters of the bounds

queue == <<table, todo, changes>>
view == <<loaded, list>>
liveVars == <<vars, queue, view, down, loads, loadCount>>

LiveTypeOK ==
  /\ TypeOK
  /\ table \in Seq(Entry) /\ list \in Seq(Entry)
  /\ \A i, j \in DOMAIN table : table[i].user = table[j].user => i = j
  /\ todo \in Seq(Event) /\ down \in Seq(Event)
  /\ Len(loads) = gets
  /\ loaded \in BOOLEAN /\ (list # <<>> => loaded)
  /\ changes \in 0 .. MaxChanges /\ loadCount \in 0 .. MaxLoads

LiveInit ==
  /\ Init
  /\ table \in {<<>>} \cup {<<[user |-> u, helped |-> FALSE]>> : u \in Users}
  /\ todo = <<>> /\ down = <<>>
  /\ loads = <<Sent, Sent>>
  /\ loaded = FALSE /\ list = <<>>
  /\ changes = 0 /\ loadCount = 0

-----------------------------------------------------------------------------
(* The server.                                                             *)

Joined(e) == [path |-> "joinQueue", entry |-> e, lobby |-> TRUE]
Left(e) == [path |-> "leaveQueue", entry |-> e, lobby |-> TRUE]
Updated(e) == [path |-> "updateQueueEntry", entry |-> e, lobby |-> FALSE]
Purged(e) == [Left(e) EXCEPT !.lobby = FALSE]

\* The members of S in l, in the order of l
Only(l, S) == FoldLeft(LAMBDA kept, x : IF x \in S THEN Append(kept, x) ELSE kept, <<>>, l)

Without(l, e) == Only(l, [user : Users \ {e.user}, helped : BOOLEAN])

\* A handler writes; it will announce es.
Write(rows, es) ==
  /\ todo = <<>>
  /\ changes < MaxChanges
  /\ changes' = changes + 1
  /\ table' = rows
  /\ todo' = es
  /\ UNCHANGED <<vars, view, down, loads, loadCount>>

\* Mutant: no UNIQUE(user_id, queue_id)
JoinQueueAgain ==
  \E u \in Users : LET e == [user |-> u, helped |-> FALSE]
                   IN Write(Append(table, e), <<Joined(e)>>)

JoinQueue ==
  \E u \in Users : LET e == [user |-> u, helped |-> FALSE]
                   IN Without(table, e) = table /\ Write(Append(table, e), <<Joined(e)>>)

\* leaveQueue and kick, which do not look at the result of their DELETE
LeaveQueue == \E e \in Range(table) : Write(Without(table, e), <<Left(e)>>)
DeleteFails == \E e \in Range(table) : Write(table, <<Left(e)>>)

\* Mutant: the row is read before it is written
UpdateReadFirst ==
  \E i \in DOMAIN table : LET e == [table[i] EXCEPT !.helped = ~@]
                          IN Write([table EXCEPT ![i] = e], <<Updated(table[i])>>)

\* updateQueueEntry, setHelpStatus, setUserHelpStatus, badLocation
UpdateQueueEntry ==
  \E i \in DOMAIN table : LET e == [table[i] EXCEPT !.helped = ~@]
                          IN Write([table EXCEPT ![i] = e], <<Updated(e)>>)

PurgeQueue == table # <<>> /\ Write(<<>>, [i \in DOMAIN table |-> Purged(table[i])])

\* remove_all on the scheduler's thread tells nobody.
Cleanup ==
  /\ table # <<>>
  /\ changes < MaxChanges
  /\ changes' = changes + 1
  /\ table' = <<>>
  /\ UNCHANGED <<vars, view, todo, down, loads, loadCount>>

Hears(e) == room = Shown \/ (room = Lobby /\ e.lobby)

Announce ==
  /\ todo # <<>>
  /\ todo' = Tail(todo)
  /\ down' = IF Hears(Head(todo)) THEN Append(down, Head(todo)) ELSE down
  /\ UNCHANGED <<vars, view, table, changes, loads, loadCount>>

\* The event log refuses what was to be announced next: the handler ends.
HandlerFails ==
  /\ todo # <<>>
  /\ Head(todo).path # "updateQueueEntry"
  /\ todo' = <<>>
  /\ UNCHANGED <<vars, view, table, changes, down, loads, loadCount>>

\* An HTTP thread reads the rows for the answer to a GET.
ReadSnapshot ==
  /\ \E i \in DOMAIN loads :
       /\ ~loads[i].read
       /\ loads' = [loads EXCEPT ![i] = [read |-> TRUE, rows |-> table]]
  /\ UNCHANGED <<vars, queue, view, down, loadCount>>

\* Mutant: messages are taken while a handler runs
ReceiveAtOnce == Receive /\ UNCHANGED <<queue, view, down, loads, loadCount>>

\* The thread takes the next message when the handler has ended.
ReceiveNext == todo = <<>> /\ Receive /\ UNCHANGED <<queue, view, down, loads, loadCount>>

-----------------------------------------------------------------------------
(* The tab.                                                                *)

Apply(l, e) ==
  CASE e.path = "joinQueue"        -> Append(l, e.entry)
    [] e.path = "leaveQueue"       -> Without(l, e.entry)
    [] e.path = "updateQueueEntry" ->
         [i \in DOMAIN l |-> IF l[i].user = e.entry.user THEN e.entry ELSE l[i]]

\* Without a callback the event is ignored; before the first load the reducer throws.
\* The callback of updates is never deleted.
HandleEvent ==
  /\ link = "open"
  /\ down # <<>>
  /\ down' = Tail(down)
  /\ list' = IF loaded /\ (listening \/ Head(down).path = "updateQueueEntry")
             THEN Apply(list, Head(down)) ELSE list
  /\ UNCHANGED <<vars, queue, loaded, loads, loadCount>>

\* The answer of any load in flight, whichever was sent first.
Fulfilled(i) ==
  /\ loads[i].read
  /\ Response /\ requestStatus' = "success"
  /\ loaded' = TRUE /\ list' = loads[i].rows
  /\ loads' = RemoveAt(loads, i)
  /\ UNCHANGED <<queue, down, loadCount>>

Rejected(i) ==
  /\ Response /\ requestStatus' = "failed"
  /\ loads' = RemoveAt(loads, i)
  /\ UNCHANGED <<queue, view, down, loadCount>>

\* Steps of ClientSocket that may start a load
Loading ==
  /\ RenderApp \/ ReloadAfterDelay \/ OnOpen
  /\ IF gets' > gets
     THEN /\ loadCount < MaxLoads
          /\ loadCount' = loadCount + 1
          /\ loads' = Append(loads, Sent)
     ELSE UNCHANGED <<loads, loadCount>>
  /\ UNCHANGED <<queue, view, down>>

\* What is on its way is lost.
LoseConnection == Break /\ down' = <<>> /\ UNCHANGED <<queue, view, loads, loadCount>>

\* Steps of ClientSocket that touch neither loads nor events
Elsewhere ==
  /\ (\E p \in Rooms \cup {None} : Navigate(p)) \/ RunEffects \/ Connect \/ OnClose
  /\ UNCHANGED <<queue, view, down, loads, loadCount>>

-----------------------------------------------------------------------------
LiveNext ==
  \/ JoinQueue \/ LeaveQueue \/ DeleteFails \/ UpdateQueueEntry \/ PurgeQueue
  \/ Cleanup \/ Announce \/ HandlerFails \/ ReadSnapshot \/ ReceiveNext
  \/ HandleEvent \/ (\E i \in DOMAIN loads : Fulfilled(i) \/ Rejected(i))
  \/ Loading \/ LoseConnection \/ Elsewhere

LiveSpec == LiveInit /\ [][LiveNext]_liveVars

-----------------------------------------------------------------------------
(* Properties.                                                             *)

Names(l) == [i \in DOMAIN l |-> l[i].user]

\* The events of the handler under way that the tab will hear, in the room it is in
Public == {e \in Event : e.lobby}
Heard == CASE room = Shown -> todo [] room = Lobby -> Only(todo, Public) [] OTHER -> <<>>

\* The list once the events that are announced, and those that will be, are applied
Coming == FoldLeft(Apply, list, down \o Heard)

\* The tab shows, or is about to show, who queues and in which order ...
Right == loaded /\ Names(Coming) = Names(table)

\* ... and each entry as it is
Exact == loaded /\ Coming = table

\* Ways to miss a change: nobody is told of it, or the tab is in another room, or does not
\* listen because its page wants no events, or has lost the connection.
Untold == Cleanup \/ HandlerFails \/ DeleteFails \/ (PurgeQueue /\ room # Shown)
Away == table' # table /\ room \notin {Shown, Lobby}
Deaf == HandleEvent /\ effect = None

\* The answer to a load that a change has overlapped
Overtaken ==
  \E i \in DOMAIN loads : Fulfilled(i) /\ (loads[i].rows # table \/ down # <<>> \/ todo # <<>>)

\* A list that is right stays right, in the order of the table, through any events,
\* pages and subscriptions: only a change that the tab is not told of and a load that
\* overlaps a change can make it wrong.
StaysRight == [][Right => Right' \/ Untold \/ Away \/ Deaf \/ Overtaken \/ LoseConnection]_liveVars

\* In the room of the queue the same holds of what the entries say.
StaysExact ==
  [][Exact => Exact' \/ Untold \/ Away \/ Deaf \/ Overtaken \/ LoseConnection
                     \/ (UpdateQueueEntry /\ room # Shown)]_liveVars
=============================================================================
