# A TLA+ model of new-queue

new-queue runs the help queues of a university: students join the queue of a
course from a web page, assistants see the list change live, help, kick and
write to students, and every night the queues are emptied. This directory holds
TLA+ specifications of the program, the TLC configurations that check them on
small instances, and TLAPS proofs of the main results for instances of any size.

Sources are cited from the repository root: `src/...` is the Rust backend,
`public/src/...` the React client, `migrations/...` the schema.

## 1. The system

```
 browser tab                         server process                      PostgreSQL
 +----------------------+   ws      +------------------------------+    +-----------+
 | pages, reducers      |<--------->| ws thread: RoomHandlers,     |<-->| queues    |
 | SocketMiddleware     |  FIFO per | rooms, ugkthid_map           |    | queue_    |
 |                      | connection| routes.rs: one at a time     |    |  entries  |
 |                      |           +------------------------------+    | user_     |
 |                      |   http    | Rocket threads: snapshots,   |<-->|  events   |
 |                      |<--------->| login                        |    | users     |
 |                      |           +------------------------------+    | admins    |
 |                      |           | scheduler: cleanup at 03:00  |<-->| ...       |
 +----------------------+           +------------------------------+    +-----------+
```

| Component | State | Operations | Interacts with |
|---|---|---|---|
| **Web socket server** `src/wsroutes/ws_rs.rs`, `src/lib.rs` | shared by all handlers: `count`, `rooms`, `ugkthid_map`; per handler: `user_ugkthid`, `active_room` | `on_open`, `on_close`, `on_error`, `on_message`; join and leave a room; broadcast; send to a user; restart after a panic | runs the message handlers; sends to clients |
| **Message handlers** `src/wsroutes/routes.rs`, `src/auth.rs` | none of their own | some thirty requests on queues, entries, administrators, banners and messages, each behind an authorisation level | statement after statement on the database, then broadcasts |
| **Queues, entries and events** `src/db/queues.rs`, `queue_entries.rs`, `user_events.rs` | three tables with foreign keys that cascade | add, rename, remove, lock, hide, message of the day; join, update, leave, kick, purge; log every join and leave with counts | written by the web socket thread and by the cleanup |
| **Nightly cleanup** `src/util.rs:24-59` | its position in the loop | log every entry as leaving, remove all entries, clear messages of the day | the same tables, on a thread and a database connection of its own |
| **Accounts** `src/db/users.rs`, `admins.rs`, `super_admins.rs` | `users`, `admins`, `super_admins` | add and remove teachers, assistants and super administrators; create a user on first mention or login | handlers, HTTP login |
| **HTTP API and login** `src/routes/*`, `src/util.rs` | none | snapshots of queues, entries, administrators, banners; OpenID Connect and LDAP | all tables, on other threads |
| **Client socket** `public/src/middlewares/SocketMiddleware.ts` | `socket`, `connectionEstablished`, `lastJoinRequest`, `callbacks`, `token`, `pendingRequests`, `disconnectedAt` | connect, reconnect after 1-3 s, send or keep a request, dispatch what comes in | server; reducers |
| **Client queue store** `public/src/reducers/queueReducer.ts`, `models/Queue.ts` | the list of queues with their entries | replace by a snapshot; add, update, remove an entry; queue settings | pages; HTTP |
| **Dialogs** `public/src/reducers/modalReducer.ts`, `viewcomponents/Modal.tsx`, `viewcomponents/Modals/*` | `modalList`, `current`; the page, the rights of the user, the banners | open from a row, a menu, the administration page or by a message; close, confirm; clear the list by a timer | pages offer them; their commands are requests of the client socket |
| **Form of the queue page** `public/src/pages/Queue/EnterQueue/*` | the fields, the call a debounce holds back | type, join, leave, ask for help; overwrite the fields at every event; correct the location of a known computer | queue store, client socket, and over the server the user's other tabs |
| **Administrators, banners, titles** (client) | small reducers | load, follow what the server announces | pages, client socket |

### What is hard here

* The web socket thread is an event loop, so two handlers never overlap. But
  every handler is a series of SQL statements **without a transaction**, and the
  cleanup and the login run on other threads: they interleave between any two
  statements.
* A subscription is recorded twice (`rooms`, `active_room`), a user's address
  twice (`ugkthid_map`, `user_ugkthid`). Connections close, fail, re-subscribe
  and change user in any order.
* A **panic** in one callback unwinds the event loop; `lib.rs` starts another
  with empty tables, and all clients reconnect. Some expected errors are panics.
* A statement in the middle of a handler may fail; what was done before stays.
* Timers of the client (the debounce of the form, the removal of closed dialogs)
  fire after the state they were started for has changed.
* The buttons a page offers and the levels the server asks for are written apart, in two
  languages.
* A client sees a queue through a snapshot (HTTP) and a stream of events (web
  socket) that nothing orders against each other, and it loses its connection.

The hazards are listed with their lines in `PROJECT.json`.

### What makes each component correct

* *Web socket server*: each connection is in one room at most, both records
  agree, every broadcast of that room reaches it once; closed connections leave
  nothing behind; messages for a user reach the user and nobody else.
* *Queues, entries and events*: the constraints of the schema; a user is in a
  queue once; nobody enters a locked queue; the event log is the history of the
  queue, with counts that were true at one moment.
* *Cleanup*: it ends, everybody it found is logged, nobody queues forever.
* *Accounts*: a request is obeyed just when its sender holds the level it needs
  at that moment; a user is created once.
* *Client*: after a reconnection the client is subscribed to what its page shows;
  while it is, the list on the page follows the table; the form says what the entry says;
  a text is sent for the stay in the queue it was typed in; dialogs are shown in turn
  and none is lost; no button is offered that the server refuses.

## 2. Modules

| Module | Models | Proved in |
|---|---|---|
| `Subscriptions` | abstract: what the room bookkeeping promises | |
| `RoomHandler` | `ws_rs.rs`, the broadcasts of `routes.rs`, the restart loop of `lib.rs` | `RoomHandlerProofs` |
| `QueueServer` | the handlers of `routes.rs` on queues, entries and events, the cleanup of `util.rs`, failures | `QueueServerProofs`, `EventLogProofs` |
| `Accounts` | `auth.rs`, `db/users.rs`, `admins.rs`, `super_admins.rs`, the handlers about staff, logins | `AccountsProofs` |
| `AdministratorList` | the list of administrators on the administration page, composed with `Accounts` | |
| `ClientSocket` | `SocketMiddleware.ts`, the subscribing effects of the pages `Home` and `Queue`, the loading of queues | `ClientSocketProofs` |
| `LiveView` | the entries in the client's store (`queueReducer.ts`, `Queue.ts`), HTTP snapshots, the announcements of `routes.rs`; composed with `ClientSocket` | `LiveViewProofs` |
| `DialogQueue` | abstract: dialogs wait in line | |
| `Dialogs` | the modal reducer, component and actions, the sixteen dialogs, the pages that open them, the paths of their commands in `SocketMiddleware.ts`, the levels of the routes in `ws_rs.rs` | `DialogsProofs` |
| `PersonalEntry` | the form (`EnterQueue/*`) in the tabs of a user, the handlers about the user's entry, the events that come back | `PersonalEntryProofs` |
| `MCRoomHandler`, `MCQueueServer`, `MCAccounts`, `MCAdministratorList`, `MCLiveView` | symmetry for TLC | |

The three server modules look at the same handlers from three sides: whom they
send to (`RoomHandler`), what they do to queues, entries and events
(`QueueServer`), and who may call them (`Accounts`). Each makes no assumption on
what the others guard, so what one of them shows holds for the composition:
`RoomHandler` lets every message be sent at any time, and `QueueServer` every
request be made by anybody.

### RoomHandler

One step is one callback of ws-rs, or one request handler with everything it
sends. Variables have the names of the fields of `RoomHandler`; `rooms` keeps
for every room how often its `Vec<Sender>` holds a connection, which is all a
broadcast depends on (a `Vec` may hold a Sender twice, and one of the properties
is that it never does). `queues` is the table of queue names, which decides
whether a subscription succeeds. `conn` is ws-rs's own state of a connection.

| Action | Code |
|---|---|
| `OnOpen`, `OnClose`, `OnError` | the callbacks of the same name |
| `SubscribeLobby`, `SubscribeQueue`, `Unsubscribe` | the arms of `route_wrapper`; `Identify` is the part of subscribeQueue that enters the token's user into `ugkthid_map`, which happens before the queue is looked up |
| `AnnounceToRoomAndLobby`, `AnnounceToRoom`, `BadLocation`, `DirectMessages` | handlers of `routes.rs`, by whom they send to |
| `AddQueue`, `RemoveQueue`, `RenameQueue` | handlers that change which names exist |
| `Panic` (in `AddQueue`, `Crash`) | `catch_unwind` and the restart |

`presented`, `bcast`, `base`, `got`, `mail` are observations that no action
reads. `Subscriptions` is the service: one subscription per connection, each
message published in its room delivered once. `RoomHandler` implements it with
`sub <- active_room`, `recv <- got`.

### QueueServer

One step is one SQL statement of one of two threads. `pc`, `todo`, `cur`, `left`,
`amount` and `qs` are the local variables of the handler or of the cleanup at
that statement. A read is joined to the statement after it in two cases only,
named in the module's header: nobody else writes what it reads, or its row
vanishing in between only makes the second one fail without effect.

| Action | Code |
|---|---|
| `AddQueue`, `RemoveQueue`, `Set`, `UpdateQueueEntry` | handlers with one effective statement; `Set` covers lock, hide and message of the day; a removal cascades to entries and events |
| `JoinFind`, `JoinInsert` | joinQueue: the lock is read, then the row is inserted, or refused by the UNIQUE constraint |
| `LeaveFind`, `PurgeLoad`, `Delete` | leaveQueue and kick, purgeQueue: load the entries, then delete them |
| `CountHelp`, `CountPresent`, `InsertEvent` | `user_events::create`, for each entry, on either thread |
| `CleanupStart` ... `ClearAllMotds` | `cleanup_wrapper` |
| `StatementFails`, `DeleteFails`, `CleanupDies`, `ProcessRestart` | an error ends the handler (`?`); leaveQueue and kick drop the result of their DELETE; a panic ends the scheduler's thread; systemd restarts the process |

`inserted`, `seen`, `since`, `quiet`, `faults` are observations (`faults` also
bounds the failures).

### Accounts

One step is one SQL statement that other threads could come between. Only logins
write `users` from another thread, so a handler that touches `admins` and
`super_admins` alone is one step, and `get_or_create` is three: the SELECT, the
question to LDAP, the INSERT. `ws` is the handler under way, `login` what each
HTTP thread is doing, `ldap` what the university calls a person now.

| Action | Code |
|---|---|
| `AddAdmin`, `AddSuperAdmin` | addTeacher, addAssistant, addSuperAdmin up to `get_or_create`; an assistant may be promoted at once |
| `SelectUser`, `FetchUser`, `InsertUser` | `get_or_create`; `Grant` is the INSERT after it, joined to the step that finds or makes the user |
| `RemoveAdmin`, `RemoveSuperAdmin`, `AddQueue`, `RemoveQueue`, `RenameQueue` | handlers of one effective statement; a removed queue cascades to `admins` |
| `LoginStart`, `LoginFind`, `LoginUpdate`, `LoginCreate` | `kth_oidc_auth` and `userdata_to_user` |
| `Expire`, `ChangeName` | outside: a token runs out, a person is renamed |

`exact` stands for the spelling: `find_by_name` compares as written, `get_or_create`
in lower case, and so a second row of `admins` is tried. `held` is an
observation, except that it says which names `ChangeName` may give: a username
is **never given to a second person**. That is the university's promise, not the
code's; without it `users`, which has no UNIQUE(username), would confuse the two.

`AdministratorList` adds the page: `shown` is its list, `asked` the removals it has
sent.

### ClientSocket

One step is one event of the browser's loop, of the network or of the server. The
module follows a single tab: what the server knows of it is the room of its present
connection, which is new with every connection (`RoomHandler` shows that a closed
connection leaves nothing behind). A page is named by the room it shows. `effect` is the
room its last effect has subscribed to, `link` the socket as the network knows it:
`broken` is a connection that is lost before `onclose` says so, when
`connectionEstablished` is still true and what is sent goes nowhere.

| Action | Code |
|---|---|
| `Request`, `SendMessages` | any request of a page; `sendMessage`: to the server (`up`), or to `pendingRequests`, where what is pending already is not kept again (`Keep`) |
| `Navigate` | the router shows another page; the old one's effect is cleaned up, unless both are queues and React keeps the component |
| `RunEffects` | the cleanup and the effect of a rendering in which `Wanted` has changed: Queue subscribes only while the queues are loaded, so every reload is an unsubscription and a subscription |
| `RenderApp`, `ReloadAfterDelay`, `Response` | `loadQueues` from the body of `App` and from the timer of `onOpen`; its answer |
| `Connect`, `OnOpen`, `OnClose` | the functions of the same name |
| `Break`, `Receive` | the network; the arms for subscriptions of `route_wrapper`, with what a message does to the handler's room (`RoomAfter`) |

`OnOpen` chooses how many of the pending requests are young enough to pass the
filter, which compares times of a millisecond. `Rendered` says that React runs the
effects of a rendering before the next one. `breaks`, `clicked`, `executed`, `missed` and `fresh` are
observations: they decide no step, but for the bounds. `missed` becomes `"unloaded"` when an open
connection is lost. A GET is fresh when it is sent over a connection that is open, and no more when that
connection is lost; `fresh` counts those in flight. The answer of a fresh one ends what is missed: with
`"nothing"` when it brings the queues, with `"failed"` when it does not, since `queueReducer.ts` only notes
the failure and `onOpen` looks at it with the next connection. An answer to an older GET, which may
come after the reconnection as well, changes nothing in this.

### LiveView

The tab of `ClientSocket` with what its loads and its connection bring. Every step of
`ClientSocket` is here joined with what it does to the loads in flight (`Loading`,
`Fulfilled`, `Rejected`), to the events on their way (`LoseConnection`), to both or
neither. A handler is two kinds of steps: it writes (`JoinQueue`, `LeaveQueue`,
`UpdateQueueEntry`, `PurgeQueue`), and announces what it has in `todo`, one event at a time
(`Announce`); until then the web socket thread takes no message (`ReceiveNext`). The
cleanup and the HTTP threads (`ReadSnapshot`) come at any time. `HandlerFails` is an error
of the event log, after which nothing more is announced, `DeleteFails` the ignored result of
the DELETE of leaveQueue and kick.

`Coming` is the list after all events that are on their way to the tab. `Right` says that it
has the users of the table in their order, `Exact` that the entries agree as well. A tab can
miss changes, and so neither is an invariant. `StaysRight` and `StaysExact` say when
a list that is right may become wrong:

* nobody is told: the cleanup; a purge, for the lobby; a handler that fails half way, or
  whose DELETE does;
* the tab is in no room of the queue, or its page wants no events at the moment, or the
  connection is lost (and `ClientSocket` says that a load follows and is answered);
* a load overlaps a change: its answer replaces the list by rows that are older than
  events already applied, or that have what an event on its way will add again.

All other interleavings of pages, subscriptions, handlers and events are harmless.
What events make of a list is a fold (`Coming`, `Heard`, `Only`), so that it can be reasoned about.

### Dialogs

One step is one event of the tab. `modalList` and `current` are the modal reducer's;
`gone` says which closed dialogs have faded from the screen, `timers` counts the calls of
`setTimeout` that will dispatch `RemoveModal`. `user` is what the store knows of the
user's rights, loaded with the page, `rights` what the server knows now.

| Action | Code |
|---|---|
| `OpenFromPage`, `CommandFromPage` | a button of the page: the row of an entry, the menu of a queue, the administration page, each with the condition under which it is rendered; the dialog or the request behind it |
| `OnMessageReceived`, `ShowMotd` | dialogs nobody asked for: a message, the message of the day once a visit |
| `CloseModal`, `Confirm` | the `onHide` of the dialog at `current`, without and with its command |
| `ConfirmAgain`, `FadeEnds` | a dialog that fades has its buttons still, and an `onHide` that is undefined |
| `RemoveModal` | the timer: clears the list unless a dialog in it is visible |
| `GoTo` | another page; only when no dialog covers the page |
| `OnBannerAdded`, `BannersLoaded` | whether the banner a dialog is about is in the store |
| `Revoke` | somebody else takes a right away, of which the tab learns nothing |

`Path` composes what the middleware does with a command, `Allows` is `validate_auth` at
the level the route names: `OfferedIsAllowed` compares the two ends of every button. A request
is handled at once here; its way is in `ClientSocket`. `DialogQueue` is the service:
dialogs enter a line and leave it at the front. `Dialogs` implements it with
`waiting`, the part of the list from `current` on.

### PersonalEntry

A user with one or several tabs on a queue's page. `located` is the place the server knows for
each tab's address, `form` the three `useState` of `LoggedInUserView`, `pending` the call held
back by `sendPersonalEntry`, `shown` the user's entry in the tab's store. Requests and events
travel in order on each connection.

| Action | Code |
|---|---|
| `ChangeComment`, `ChangeLocation`, `ChangeHelp` | the inputs of `EnterComment`, `EnterLocation`, `EnterCommunicationType`; each change calls `sendPersonalEntry` (`SendLater`), which replaces or cancels the call held back |
| `Debounced` | 750 ms later |
| `EnterQueue`, `ReceiveHelp`, `Leave` | the buttons, and the key Enter |
| `Handle` | the next request of a tab: the handlers of joinQueue, updateQueueEntry, setHelpStatus and leaveQueue |
| `Kick`, `SetUserHelpStatus`, `OthersEntry` | what others ask for: the same events, and those about other people's entries |
| `Receive` | an event: the store (`Reduce`), then the effects: the form is overwritten (`FormOf`) and, at a known computer, an entry with another location is corrected (`Corrections`), by `LoggedInUserView` and again by `EnterQueue` |

`since` tells two stays of the same user apart, and `early` marks a stay whose join was
sent while an earlier join was unanswered, which the key Enter allows. What the user types in the
stay of the earlier join is sent after both joins, and if the user is kicked in between, it
lands in the stay of the second. `Rivals` are two tabs on computers whose
rooms differ: each corrects the other's correction, for ever; the bound `MaxUnderway` applies
only to them. Two oddities of the code are in the model as they are, and the properties
name them: `personalQueueEntry?.help || true` is always true, so a correction turns a
presenter into a help seeker; and an event about anybody's entry overwrites the form, also
in the middle of typing.

`Work` bounds what is yet to happen without anybody doing something. An event after which no tab
corrects the location (`Accepted`) is one step. Any other one may make a tab send two corrections, each of
which is an event to all tabs that they accept. A request is worth its event in every tab and the
step that handles it. `ExchangeShrinks` says that each step of the exchange makes `Work` smaller.

## 3. Runs

Every run of `Spec` allows any order of steps. Deadlock is not checked: an instance
really stops when every connection has been used and closed (identities are not
reused) or its inputs are used up, or, in `QueueServer`, only when nothing but the always
enabled cleanup is left, so the check would say nothing.

| Run | Instance | Question |
|---|---|---|
| `rooms` | 2 connections, 2 users, 2 queues, 1 message per room | do the two records of a subscription agree, is every broadcast delivered once, is it the service of `Subscriptions`; whom do direct messages reach, when users log in and out of the same connections? |
| `night` | 2 users, 1 queue, 2 entries, column locked, 1 failure | do log, counts and lock hold statement by statement, and what of it survives a failed statement, a dead thread, a restart? |
| `cleanup_fair` | 2 users, 2 queues, 2 entries, fairness | handlers, among them the removal of a queue, come between the statements of the cleanup: are the tables consistent, is everybody logged, do all entries go away? |
| `staff` | 2 people, 3 usernames, 2 queues, 2 login threads | does a username mean one person while three threads write `users`; do rights come only from those who have them, do roles belong to rows that exist, do teachers stay? |
| `reconnect` | 2 queue names, one of which exists, 2 failures, 2 requests, 2 loads in flight, 3 messages | is a tab in the room it shows, after any pages, reloads and reconnections; does it hear that room; is a request received once at most; is a load sent and answered after a loss, whatever fails in between? |
| `live` | 2 users, 2 queues of which one is followed, 2 writes, 3 loads, 1 failure of the network | what can make the list of a tab differ from the table? |
| `dialogs` | 1 queue, all rights, lists of 2 dialogs | does a dialog get lost, come out of turn, come back or block the line; is a button offered that the server refuses? |
| `form` | 1 or 2 tabs, 1 comment, 2 places, 5 inputs in one tab or 2 in two | do form and entry agree in the end; does a text stay with its stay in the queue, help with its entry; does each step of the exchange of updates and events leave less to do, and does it end? |
| `duplicate_queue`, `two_tabs`, `hide`, `last_admin` | small | the findings of section 5 |

Bounds, and why they are enough:

* `Conns`, `Users`, `Queues`: the handlers treat connections alike and touch at
  most their own entry, one room and one user, so two of each show every
  interference.
* `MaxBroadcasts` bounds the requests that broadcast in a room since the last restart;
  `MaxPurge` the messages of one of them, a purge of no entry or of one. A purge of more is to every room
  and connection what as many broadcasts in a row are; `rooms` has one message per room, which is
  what reaching a member exactly once needs, and the theorems have any number. `MayCrash` turns the crash by
  a handshake without Origin or an exhausted pool off in the runs `duplicate_queue` and `two_tabs`, whose point
  is that nothing else went wrong.
* `MaxQueues` and `MaxEntries` bound rows *ever created*: two entries are two users
  in one queue, one user in two queues, or a user who leaves and joins again.
  `Settings` says which columns of a queue are set at all: a run leaves out those
  none of its properties looks at.
* `Helps` bounds the values of `help` in requests: `cleanup_fair`, whose properties do
  not look at help, has one of them.
* `Names` has one name more than there are people, so that one person is renamed
  once and an old username is still in `users` meanwhile. `MaxSupers` bounds the rows of
  `super_admins` per user: 2 in `last_admin`, where the second row is the
  point, 1 in `staff`. A second row for an administrator is then a path cut short,
  never another result.
* `MaxBreaks` counts failures, of an open connection or of an attempt: with two, the
  reconnection after one may fail as well, or the connection may break twice. `MaxQueued`
  bounds messages pending or on their way: three are a cleanup, a subscription and
  a request. With `MaxGets` = 2 a second load starts before the first is answered.
* `MaxChanges` = 2 writes, on a table that starts empty or with one entry: joining and leaving,
  in both orders, two joins, an update and a removal. `MaxLoads` counts the loads after the
  two of the start. `View` of `MCLiveView` tells states apart by all variables but `missed` and `fresh`, which
  decide no step and whose types `reconnect` checks. In `live` requests other than subscriptions are left out (`MaxClicks` = 0) and two
  messages may be on their way to the server: the two that a change of room needs.
* `MaxListed` = 2: one dialog is shown or fades while another waits, or both fade; a third one waiting
  would be to the second what the second is to the first. `MaxTimers` = 1: dialogs
  open while the timer of an earlier one is running.
  One queue is enough because no action of `Dialogs` relates two, and users have any
  combination of rights in it.
* `MaxInputs` = 5 are shared among the tabs: a user types, joins, joins again, types and is kicked, all in one
  tab; two tabs do two things against each other, and
  everything they set off. One comment is enough, since the form has two texts that the code handles
  alike and the location has two values. (The invariants were also checked with 6 inputs and 2 comments in
  one tab, which takes longer than a run should.)
* `MaxFaults` = 1: one failure at any statement, and everything after it.

Fairness (`FairSpec`): `HandlerStep` is weakly fair because a handler that has
started is running code without loops that wait; `CleanupStep` likewise on the
scheduler's thread; `CleanupStart` because clokwerk calls the job every night.
Requests are not fair: nobody has to send one. `EntriesCleared` relies on the queue removals that make a cleanup fail being
finitely many, which `MaxQueues` ensures (removing a queue during every night's
cleanup could keep an entry of another queue alive forever). In `ClientSocket` effects,
timers, answers and both ends of the connection are fair: the browser runs what is due,
TCP delivers or fails, a `fetch` is answered or rejected. Some are strongly fair,
because their guards (`Rendered`, the bound `MaxGets`) are disabled and enabled again
by other events of the loop. Failures are finitely many by `MaxBreaks`: a network that fails
forever keeps nobody subscribed. In `PersonalEntry` the debounce's timer, the server and the
connections are fair; what users do is not. In `Dialogs` the fairness is the user's:
`EveryDialogShown` is about those who close what they see.

## 4. Proofs

Assumptions on the constants: `Conns` is finite (`count` is a cardinality),
`Lobby` and `None` are different from all names, the bounds are naturals.

*RoomHandlerProofs.* `LiveConnections` and `TypeOK` are inductive only together:
that `count - 1` is a natural number needs `count` to be the number of live
connections, one of which is closing. `RoomMembership` and `ExactlyOnce` follow on
top of them: `ExactlyOnce` is preserved by a broadcast because the number of
copies a member gets is the one occurrence `RoomMembership` grants it. The
refinement of `Subscriptions` maps every action to one step or a stutter and uses
the same invariants. The three facts about the directory of users are the
consequences of `DirectoryInv`, which says of every user who leads to a connection
that the connection has shown the user's token.

*QueueServerProofs.* `Inv` = `TypeOK`, finitely many entries, `Integrity`, and
`JoinReady`: an entry that joinQueue is about to insert carries the next id and a
queue that exists. `Integrity` alone is not inductive: without `JoinReady` the
INSERT could reuse an id. `LockedQueueFrozen` is proved from `EntryOrigin`: an
entry comes from another entry of the same user and queue or from a join, and a
join is only ready for a queue that was not locked.

*AccountsProofs.* `RightPerson` needs `NamesHeld`: the names on their way into
`users`, in a handler or in a login, are held by the person they will be stored for.
`RolesReferToRows` is inductive with `TypeOK`. `AuthorityFromAuthority` follows from
`SenderInOffice`, which says that the sender of the handler under way still holds the
level it was let in with: no handler runs in between, and what does run takes no
level away. `TeachersNotDowngraded` uses `RolesReferToRows` for a renamed queue,
whose new name must have no roles yet.

The other three invariants of `QueueServer` each have a strengthening of their own. `CountsExact`
follows from `Counted`, which says what the two SELECTs of a thread have found so far,
and from `Alone`: `quiet` means that the other thread is not at work, so nothing changes
between the SELECTs and the INSERT. `JoinsCounted` is a balance: joins in the log plus the
join that joinQueue still owes (`Owed`, at most one entry) never exceed the entries
made, and are as many if nothing failed. `CleanupLogs` says of every entry the
cleanup found where the promise to log it is kept (`Kept`): in a queue it has yet to visit,
in its own hands, in a handler's, or in the log; `WorkInv` says what the hands of a thread may hold.

*EventLogProofs.* `LogMatchesQueue` speaks of moments at which no thread is at work. In between the log and the
entries differ: a handler removes first and logs later, the cleanup logs first and removes at its
end. `InLog` says what the log should say at any moment, by where the two threads are, and `Match` that
it does, by the parity of the number of events. `Order` says that the events alternate; it is kept because a
new event has the largest id, and `EventHistory` shows that a thread writes the event that the log lacks.
`TaskInv` says that a thread logs each entry once and what it holds is in the table, or is not.

*ClientSocketProofs.* `SubscribedToPage` speaks of a moment at which no message is on its way. The
invariant behind it, `SubInv`, speaks of all moments: while the connection is open, the messages in `up`
lead the server's room to the room the page's effect asked for (`Leads`: there is a function
that gives the room after each message). A step that sends appends messages that lead
from the old wish to the new one; a new connection starts in no room with the subscription of
`lastJoinRequest`, which `JoinInv` says is the wish. `RequestedOnce` needs how `Count` behaves under
appending and under taking the first message away.
`ReloadIsDue` is the part of `LoadsAfterLoss` that is not about fairness: once it is connected again, a tab that
missed something has a timer that will load the queues, or a load under way that it sent over this connection. It is inductive with `DueInv`: from `onclose` until
`onOpen`, however many attempts fail, `disconnectedAt` remembers the loss.

*LiveViewProofs.* `StaysRight` and `StaysExact` compare the table with a list that is computed from three others: the
tab's list, the events on their way to it, and those the handler at work has yet to announce. The first part
of the module is about folds: `FoldLeft` of the library is unrolled into a chain of
values (`Folds`), from which follow the values for a list with one more event at either end, for the part of
a list that is in a set (`Only`), and what an event does to the users of a list alone.
Then `JoinComing`, `LeaveComing`, `UpdateComing` and `PurgeComing` say of each write that what it announces
does to the coming list what the write does to the table. Announcing and applying an event only move it. What is left are the exceptions that the
two properties name, and a load that overlaps no change, whose answer is the table itself. The steps rest on
`LiveInv`, which has the types and that no user is twice in the table, and on `HearsItsRoom`:
`LiveTab` proves that every behaviour of `LiveView` is one of `ClientSocket`, so what
`ClientSocketProofs` shows is cited here.
The induction theorems of the library take an operator as a parameter, which the installed provers cannot instantiate;
`NatInductionInSet` and `SeqInductionInSet` state induction for sets instead and are proved
from the least element of the numbers that are not in the set (`WFMin`).

*DialogsProofs.* `VisibleFromCurrent` is inductive with the types of the list, since the reducer indexes it
with `current`. The refinement of `DialogQueue` follows: a timer clears the list only when nothing is
waiting. `OfferedIsAllowed` needs that a dialog that was offered may still be
confirmed when its turn comes: `WaitingAllowed` compares the dialogs waiting with the rights in the store,
which do not change.

*PersonalEntryProofs.* `UpdatesMeetTheirStay` and `HelpKept` are about a user with one tab and follow from
`TabInv`. Its core, `StayInv`, says that everything on its way in either direction that will still have an
effect is about the present stay. A new stay establishes that only if nothing of an earlier one is left,
which is `JoinInv`: behind a join that is not early the tab has sent no update, it holds none back and shows no
entry. That pressing join keeps it is due to `FormInv`: when a user leaves, the form is emptied, and typing it
anew cancels what was held back (a mutant that does not cancel breaks the property).
`FormAgrees` is about any number of tabs and follows from `Agreement`: the events on their way to a tab turn the
entry it shows into the entry of the server (`Becomes`), and a form that differs from the entry shown has an
update held back or under way, or an event coming that overwrites it.
The constants need one assumption, that `None` is no call.
`ExchangeShrinks` is also about any number of tabs, and about sums over their queues. `SumTransfer` is its arithmetic: if
one tab loses `d` and each of `n` tabs gains at most `c`, and `n * c < d`, the sum is smaller. A debounced
call becomes a request and loses its extra step; an event that is received is worth the two corrections it may cause
(`CorrectionsCost`, which needs `~Rivals`: what a tab corrects to is accepted by all); a handled request
pays for its event in all tabs (`RequestPays`).

All of this holds for any number of connections, users, queues, entries, writes, loads, logins, dialogs, tabs,
events and failures. Every safety invariant and action property of the runs is stated by a theorem.
`ReloadIsDue` and `VisibleFromCurrent` are proved and in no run: `LoadsAfterLoss` and
`FirstInFirstShown` need them. Only model-checked are the five liveness properties (`EntriesCleared`,
`EndsUpSubscribed`, `LoadsAfterLoss`, `EveryDialogShown`, `Settles`), because temporal reasoning under fairness needs ENABLED,
which the prover does not support. Of two of them the part that is not about fairness is
proved: `ReloadIsDue` for `LoadsAfterLoss`, `ExchangeShrinks` for `Settles`.

## 5. Findings

* **Adding a queue that exists ends every connection** (`duplicate_queue`).
  `db/queues.rs:18` turns a database error into `DuplicatedName` only for the
  constraint of the table `users`, and panics on the one of `queues`.
* **The second tab is forgotten with the first** (`two_tabs`). `on_close` removes
  the user's entry from `ugkthid_map`, whichever connection it holds: the user's
  other tab gets no more messages, although the help page says the user of a bad
  location will receive one.
* **Hiding does not purge** (`hide`), against the help page for teachers.
* **The last administrator can be removed** (`last_admin`), against the help page for
  administrators. The server does not check, and the page counts rows: an administrator who was
  added twice fills two of them, and one removal deletes both.

The two facts about direct messages that do hold are stated with their limits:
`SingleUserNotStale` and `SingleConnectionReachable` are about a connection of one
user and a user of one connection.

## 6. Not modelled

* *Outside services*: the protocols of OpenID Connect and LDAP, the generated schema,
  deployment files and one-off data migrations.
* *Rendering*: the layout of pages, the order and search on the home page, the page of
  statistics, help pages (the findings quote them), titles, the service worker.
* *Banners*: the table on the server, one INSERT and one UPDATE by id, and the timers that
  put banners on the screen and take them off. `Dialogs` knows whether a banner is in
  the store.
* *Data no rule depends on*: what users type into dialogs, times, the truncation of
  comments and locations, real names, the JSON of a request.
* *The columns `gettinghelp` and `badlocation`* of an entry, each set and cleared by single
  assignments. One thing to know about them: `update_user_data` (`src/db/queue_entries.rs:94`)
  clears `badlocation` whatever the update was about, while
  the help page for assistants speaks of the user editing the location.
* *The client's store* beyond entries and rights: settings, teachers and assistants of queues,
  queues that are added and removed.
* In `PersonalEntry`: a tab that leaves the page while a call is held back, `doubleClickProtection`
  (users of the model press as fast as they like), lost connections (`ClientSocket` and `LiveView` have
  them).

## 7. What is left

1. `LiveView` with the settings and the staff of queues. To look at: `OnQueueUpdated` builds the queue anew
   without its teachers and assistants; reducers of events index a queue that may
   not be in the list.
2. Banners and their timers, on both sides.
3. Proofs: the safety core of `EndsUpSubscribed` (what a tab that is not yet in its room has under way) and of
   `EntriesCleared` (what the cleanup has left to visit shrinks).
