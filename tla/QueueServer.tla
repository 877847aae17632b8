------------------------------ MODULE QueueServer ------------------------------
(***************************************************************************)
(* The database of queues, entries and user events under the two threads   *)
(* that write to it: the web socket thread, which runs the handlers of     *)
(* src/src/wsroutes/routes.rs one after the other, and the nightly cleanup *)
(* of src/src/util.rs.  Neither uses a transaction, so the threads         *)
(* interleave between any two SQL statements.                              *)
(*                                                                         *)
(* A step is one SQL statement, except that a read is joined to the next   *)
(* statement of its handler when only this thread writes what it reads     *)
(* (the rows of queues but for motd), or when a row that vanishes between  *)
(* the two makes the second fail without effect (UPDATE of a found entry). *)
(* A queue is its row id: a name is looked up at the start of a handler,   *)
(* and only this thread changes names.                                     *)
(*                                                                         *)
(* Left out, since nothing here depends on it: location, comment, times,   *)
(* gettinghelp and badlocation of an entry, name and info of a queue,      *)
(* hence setHelpStatus, setUserHelpStatus, badLocation, renameQueue and    *)
(* setQueueInfo, which write no column kept here.  An event is kept        *)
(* without help and the two counts written with it, which are in `amount`  *)
(* and `cur` when it is inserted.                                          *)
(***************************************************************************)
EXTENDS Naturals, FiniteSets

CONSTANTS
  Users,      \* ids of the rows of users
  Settings,   \* bound: columns of a queue that requests set
  Helps,      \* bound: values of help that requests carry
  MaxQueues,  \* bound: queues ever created
  MaxEntries, \* bound: entries ever inserted
  MaxFaults   \* bound: failed statements, panics and restarts

ASSUME BoundsAssumption ==
  /\ Settings \subseteq {"locked", "hiding", "motd"}
  /\ Helps \subseteq BOOLEAN
  /\ MaxQueues \in Nat
  /\ MaxEntries \in Nat
  /\ MaxFaults \in Nat

QueueIds == 1 .. MaxQueues
EntryIds == 1 .. MaxEntries
Threads == {"ws", "cleanup"}

Entry == [id : EntryIds, user : Users, queue : QueueIds, help : BOOLEAN]
Event == [id : Nat, user : Users, queue : QueueIds, left : BOOLEAN]
NoAmount == [help |-> 0, present |-> 0]

VARIABLES
  queues,      \* ids of the rows of queues
  nextQueue,   \* next value of its serial
  setting,     \* per column: queues that are locked, hidden, have a message of the day
  entries,     \* rows of queue_entries
  nextEntry,   \* next value of its serial
  events,      \* rows of user_events
  nextEvent,   \* next value of its serial
  pc,          \* the statement a thread executes next
  todo,        \* entries a thread has loaded and not yet dealt with
  cur,         \* {} or the one entry a thread is dealing with
  left,        \* left_queue of the events a thread is writing
  amount,      \* the counts a thread has read for the event it is writing
  qs,          \* queues the cleanup has still to visit
  \* Observations, which no action reads but for the bound on faults:
  inserted,    \* entries ever inserted for a user and a queue
  seen,        \* entries when the cleanup last started
  since,       \* nextEvent when the cleanup last started
  quiet,       \* no handler has run during a cleanup and nothing has failed
  faults       \* failures so far

queueVars == <<queues, nextQueue, setting>>
entryVars == <<entries, nextEntry, inserted>>
eventVars == <<events, nextEvent>>
threadVars == <<pc, todo, cur, left, amount>>
cleanupVars == <<qs, seen, since>>
vars == <<queueVars, entryVars, eventVars, threadVars, cleanupVars, quiet, faults>>

PC == [ws      |-> {"idle", "insert", "delete", "remove", "count", "present", "event"},
       cleanup |-> {"idle", "load", "count", "present", "event", "motds", "dead"}]

TypeOK ==
  /\ queues \subseteq QueueIds /\ nextQueue \in 1 .. MaxQueues + 1
  /\ setting \in [Settings -> SUBSET queues]
  /\ entries \subseteq Entry /\ nextEntry \in 1 .. MaxEntries + 1
  /\ events \subseteq Event /\ nextEvent \in Nat
  /\ pc \in [Threads -> PC["ws"] \cup PC["cleanup"]] /\ \A t \in Threads : pc[t] \in PC[t]
  /\ todo \in [Threads -> SUBSET Entry] /\ cur \in [Threads -> SUBSET Entry]
  /\ left \in [Threads -> BOOLEAN]
  /\ amount \in [Threads -> [help : Nat, present : Nat]]
  /\ qs \subseteq QueueIds /\ seen \subseteq Entry /\ since \in Nat
  /\ inserted \in [Users \X QueueIds -> Nat]
  /\ quiet \in BOOLEAN /\ faults \in 0 .. MaxFaults

Init ==
  /\ queues = {} /\ nextQueue = 1
  /\ setting = [s \in Settings |-> {}]
  /\ entries = {} /\ nextEntry = 1
  /\ events = {} /\ nextEvent = 1
  /\ pc = [t \in Threads |-> "idle"]
  /\ todo = [t \in Threads |-> {}]
  /\ cur = [t \in Threads |-> {}]
  /\ left = [t \in Threads |-> FALSE]
  /\ amount = [t \in Threads |-> NoAmount]
  /\ qs = {} /\ seen = {} /\ since = 1
  /\ inserted = [x \in Users \X QueueIds |-> 0]
  /\ quiet = TRUE /\ faults = 0

-----------------------------------------------------------------------------
EntriesOf(q) == {e \in entries : e.queue = q}
Wanting(q, h) == {e \in EntriesOf(q) : e.help = h}
CleanupRuns == pc["cleanup"] \notin {"idle", "dead"}

Having(s) == IF s \in Settings THEN setting[s] ELSE {}

\* A request is taken up when the handler before it has returned.
Request ==
  /\ pc["ws"] = "idle"
  /\ quiet' = (quiet /\ ~CleanupRuns)
  /\ UNCHANGED <<cleanupVars, faults>>

Finish(t) ==
  /\ pc' = [pc EXCEPT ![t] = "idle"]
  /\ todo' = [todo EXCEPT ![t] = {}]
  /\ cur' = [cur EXCEPT ![t] = {}]
  /\ left' = [left EXCEPT ![t] = FALSE]
  /\ amount' = [amount EXCEPT ![t] = NoAmount]

-----------------------------------------------------------------------------
(* Handlers of one statement.                                              *)

\* The columns get their defaults; that of motd is not empty.
AddQueue ==
  /\ Request
  /\ nextQueue <= MaxQueues
  /\ queues' = queues \cup {nextQueue}
  /\ nextQueue' = nextQueue + 1
  /\ setting' = [s \in Settings |-> IF s = "motd" THEN setting[s] \cup {nextQueue} ELSE setting[s]]
  /\ UNCHANGED <<entryVars, eventVars, threadVars>>

\* Mutant: a removed queue keeps its settings
RemoveQueueRow(q) ==
  /\ Request
  /\ q \in queues
  /\ queues' = queues \ {q}
  /\ entries' = entries \ EntriesOf(q)
  /\ events' = {v \in events : v.queue # q}
  /\ inserted' = [x \in DOMAIN inserted |-> IF x[2] = q THEN 0 ELSE inserted[x]]
  /\ UNCHANGED <<nextQueue, setting, nextEntry, nextEvent, threadVars>>

\* ON DELETE CASCADE takes the entries and the events of the queue along.
RemoveQueue(q) ==
  /\ Request
  /\ q \in queues
  /\ queues' = queues \ {q}
  /\ setting' = [s \in Settings |-> setting[s] \ {q}]
  /\ entries' = entries \ EntriesOf(q)
  /\ events' = {v \in events : v.queue # q}
  /\ inserted' = [x \in DOMAIN inserted |-> IF x[2] = q THEN 0 ELSE inserted[x]]
  /\ UNCHANGED <<nextQueue, nextEntry, nextEvent, threadVars>>

\* setQueueLockStatus, setQueueHideStatus, setMOTD
Set(q, s, status) ==
  /\ Request
  /\ q \in queues
  /\ setting' = [setting EXCEPT ![s] = IF status THEN @ \cup {q} ELSE @ \ {q}]
  /\ UNCHANGED <<queues, nextQueue, entryVars, eventVars, threadVars>>

\* updateQueueEntry: whether the user wants help or wants to present
UpdateQueueEntry(u, q, h) ==
  /\ Request
  /\ q \in queues
  /\ \E e \in EntriesOf(q) :
       /\ e.user = u
       /\ entries' = (entries \ {e}) \cup {[e EXCEPT !.help = h]}
  /\ UNCHANGED <<queueVars, nextEntry, inserted, eventVars, threadVars>>

-----------------------------------------------------------------------------
(* joinQueue, leaveQueue, kick and purgeQueue.                             *)

\* Mutant: joinQueue does not look at the lock
JoinFindAnyway(u, q, h) ==
  /\ Request
  /\ q \in queues
  /\ nextEntry <= MaxEntries
  /\ cur' = [cur EXCEPT !["ws"] = {[id |-> nextEntry, user |-> u, queue |-> q, help |-> h]}]
  /\ left' = [left EXCEPT !["ws"] = FALSE]
  /\ pc' = [pc EXCEPT !["ws"] = "insert"]
  /\ UNCHANGED <<queueVars, entryVars, eventVars, todo, amount>>

\* The queue exists and is read as unlocked.
JoinFind(u, q, h) ==
  /\ Request
  /\ q \in queues
  /\ q \notin Having("locked")
  /\ nextEntry <= MaxEntries
  /\ cur' = [cur EXCEPT !["ws"] = {[id |-> nextEntry, user |-> u, queue |-> q, help |-> h]}]
  /\ left' = [left EXCEPT !["ws"] = FALSE]
  /\ pc' = [pc EXCEPT !["ws"] = "insert"]
  /\ UNCHANGED <<queueVars, entryVars, eventVars, todo, amount>>

\* Mutant: no UNIQUE(user_id, queue_id)
JoinInsertTwice ==
  /\ pc["ws"] = "insert"
  /\ \E e \in cur["ws"] :
       /\ entries' = entries \cup {e}
       /\ nextEntry' = nextEntry + 1
       /\ inserted' = [inserted EXCEPT ![<<e.user, e.queue>>] = @ + 1]
       /\ todo' = [todo EXCEPT !["ws"] = {e}]
  /\ cur' = [cur EXCEPT !["ws"] = {}]
  /\ pc' = [pc EXCEPT !["ws"] = "count"]
  /\ UNCHANGED <<queueVars, eventVars, left, amount, cleanupVars, quiet, faults>>

\* Mutant: the error of a second joinQueue is dropped, and the join logged
JoinInsertLogged ==
  /\ pc["ws"] = "insert"
  /\ \E e \in cur["ws"] :
       /\ todo' = [todo EXCEPT !["ws"] = {e}]
       /\ IF \E d \in EntriesOf(e.queue) : d.user = e.user
          THEN UNCHANGED entryVars
          ELSE /\ entries' = entries \cup {e}
               /\ nextEntry' = nextEntry + 1
               /\ inserted' = [inserted EXCEPT ![<<e.user, e.queue>>] = @ + 1]
  /\ cur' = [cur EXCEPT !["ws"] = {}]
  /\ pc' = [pc EXCEPT !["ws"] = "count"]
  /\ UNCHANGED <<queueVars, eventVars, left, amount, cleanupVars, quiet, faults>>

\* UNIQUE(user_id, queue_id) ends the handler with an error.
JoinInsert ==
  /\ pc["ws"] = "insert"
  /\ \E e \in cur["ws"] :
       IF \E d \in EntriesOf(e.queue) : d.user = e.user
       THEN Finish("ws") /\ UNCHANGED entryVars
       ELSE /\ entries' = entries \cup {e}
            /\ nextEntry' = nextEntry + 1
            /\ inserted' = [inserted EXCEPT ![<<e.user, e.queue>>] = @ + 1]
            /\ todo' = [todo EXCEPT !["ws"] = {e}]
            /\ cur' = [cur EXCEPT !["ws"] = {}]
            /\ pc' = [pc EXCEPT !["ws"] = "count"]
            /\ UNCHANGED <<left, amount>>
  /\ UNCHANGED <<queueVars, eventVars, cleanupVars, quiet, faults>>

\* Mutant: a removal is logged with left_queue = false
LoadForRemovalAsJoin(E, statement) ==
  /\ Request
  /\ todo' = [todo EXCEPT !["ws"] = E]
  /\ left' = [left EXCEPT !["ws"] = FALSE]
  /\ pc' = [pc EXCEPT !["ws"] = statement]
  /\ UNCHANGED <<queueVars, entryVars, eventVars, cur, amount>>

\* A handler has read the entries that its next statement is to remove.
LoadForRemoval(E, statement) ==
  /\ Request
  /\ todo' = [todo EXCEPT !["ws"] = E]
  /\ left' = [left EXCEPT !["ws"] = TRUE]
  /\ pc' = [pc EXCEPT !["ws"] = statement]
  /\ UNCHANGED <<queueVars, entryVars, eventVars, cur, amount>>

\* The user leaves, or an assistant kicks the user.
LeaveFind(u, q) ==
  /\ q \in queues
  /\ \E e \in EntriesOf(q) : e.user = u /\ LoadForRemoval({e}, "delete")

PurgeLoad(q) ==
  /\ q \in queues
  /\ LoadForRemoval(EntriesOf(q), "remove")

\* DELETE by primary key; rows that are gone already are no error.
Delete ==
  /\ pc["ws"] \in {"delete", "remove"}
  /\ entries' = {e \in entries : \A d \in todo["ws"] : d.id # e.id}
  /\ IF todo["ws"] = {}
     THEN Finish("ws")
     ELSE /\ pc' = [pc EXCEPT !["ws"] = "count"]
          /\ UNCHANGED <<todo, cur, left, amount>>
  /\ UNCHANGED <<queueVars, nextEntry, inserted, eventVars, cleanupVars, quiet, faults>>

-----------------------------------------------------------------------------
(* user_events::create, run by both threads: two counts, then an INSERT    *)
(* that fails when the queue is gone.                                      *)

CountHelp(t) ==
  /\ pc[t] = "count"
  /\ \E e \in todo[t] :
       /\ cur' = [cur EXCEPT ![t] = {e}]
       /\ todo' = [todo EXCEPT ![t] = @ \ {e}]
       /\ amount' = [amount EXCEPT ![t].help = Cardinality(Wanting(e.queue, TRUE))]
  /\ pc' = [pc EXCEPT ![t] = "present"]
  /\ UNCHANGED <<queueVars, entryVars, eventVars, left, cleanupVars, quiet, faults>>

\* Mutant: the second query counts help = true too
CountPresentAsHelp(t) ==
  /\ pc[t] = "present"
  /\ \E e \in cur[t] :
       amount' = [amount EXCEPT ![t].present = Cardinality(Wanting(e.queue, TRUE))]
  /\ pc' = [pc EXCEPT ![t] = "event"]
  /\ UNCHANGED <<queueVars, entryVars, eventVars, todo, cur, left, cleanupVars, quiet, faults>>

CountPresent(t) ==
  /\ pc[t] = "present"
  /\ \E e \in cur[t] :
       amount' = [amount EXCEPT ![t].present = Cardinality(Wanting(e.queue, FALSE))]
  /\ pc' = [pc EXCEPT ![t] = "event"]
  /\ UNCHANGED <<queueVars, entryVars, eventVars, todo, cur, left, cleanupVars, quiet, faults>>

\* A thread has dealt with its current entry: it takes the next one, or returns.
\* The cleanup returns to its loop over the queues.
NextEntry(t) ==
  IF todo[t] = {} /\ t = "ws" THEN Finish(t)
  ELSE /\ pc' = [pc EXCEPT ![t] = IF todo[t] = {} THEN "load" ELSE "count"]
       /\ cur' = [cur EXCEPT ![t] = {}]
       /\ amount' = [amount EXCEPT ![t] = NoAmount]
       /\ UNCHANGED <<todo, left>>

InsertEvent(t) ==
  /\ pc[t] = "event"
  /\ \E e \in cur[t] :
       IF e.queue \in queues
       THEN /\ events' = events \cup
                 {[id |-> nextEvent, user |-> e.user, queue |-> e.queue, left |-> left[t]]}
            /\ nextEvent' = nextEvent + 1
            /\ NextEntry(t)
       ELSE Finish(t) /\ UNCHANGED eventVars
  /\ UNCHANGED <<queueVars, entryVars, cleanupVars, quiet, faults>>

-----------------------------------------------------------------------------
(* The nightly cleanup.                                                    *)

CleanupStart ==
  /\ pc["cleanup"] = "idle"
  /\ pc' = [pc EXCEPT !["cleanup"] = "load"]
  /\ qs' = queues
  /\ left' = [left EXCEPT !["cleanup"] = TRUE]
  /\ seen' = entries
  /\ since' = nextEvent
  /\ quiet' = (quiet /\ pc["ws"] = "idle")
  /\ UNCHANGED <<queueVars, entryVars, eventVars, todo, cur, amount, faults>>

\* Mutant: the cleanup logs only those who want help
CleanupLoadHelp ==
  /\ pc["cleanup"] = "load"
  /\ \E q \in qs :
       /\ qs' = qs \ {q}
       /\ todo' = [todo EXCEPT !["cleanup"] = Wanting(q, TRUE)]
       /\ pc' = [pc EXCEPT !["cleanup"] = IF Wanting(q, TRUE) = {} THEN "load" ELSE "count"]
  /\ UNCHANGED <<queueVars, entryVars, eventVars, cur, left, amount, seen, since, quiet, faults>>

\* Mutant: the loop returns at an empty queue instead of going on
CleanupLoadReturns ==
  /\ pc["cleanup"] = "load"
  /\ \E q \in qs :
       IF EntriesOf(q) = {}
       THEN Finish("cleanup") /\ qs' = {}
       ELSE /\ qs' = qs \ {q}
            /\ todo' = [todo EXCEPT !["cleanup"] = EntriesOf(q)]
            /\ pc' = [pc EXCEPT !["cleanup"] = "count"]
            /\ UNCHANGED <<cur, left, amount>>
  /\ UNCHANGED <<queueVars, entryVars, eventVars, seen, since, quiet, faults>>

CleanupLoad ==
  /\ pc["cleanup"] = "load"
  /\ \E q \in qs :
       /\ qs' = qs \ {q}
       /\ todo' = [todo EXCEPT !["cleanup"] = EntriesOf(q)]
       /\ pc' = [pc EXCEPT !["cleanup"] = IF EntriesOf(q) = {} THEN "load" ELSE "count"]
  /\ UNCHANGED <<queueVars, entryVars, eventVars, cur, left, amount, seen, since, quiet, faults>>

RemoveAll ==
  /\ pc["cleanup"] = "load"
  /\ qs = {}
  /\ entries' = {}
  /\ pc' = [pc EXCEPT !["cleanup"] = "motds"]
  /\ UNCHANGED <<queueVars, nextEntry, inserted, eventVars, todo, cur, left, amount,
                 cleanupVars, quiet, faults>>

ClearAllMotds ==
  /\ pc["cleanup"] = "motds"
  /\ setting' = [s \in Settings |-> IF s = "motd" THEN {} ELSE setting[s]]
  /\ Finish("cleanup")
  /\ seen' = {} /\ since' = 1
  /\ UNCHANGED <<queues, nextQueue, entryVars, eventVars, qs, quiet, faults>>

-----------------------------------------------------------------------------
(* Failures.                                                               *)

Fault ==
  /\ faults < MaxFaults
  /\ faults' = faults + 1
  /\ quiet' = FALSE
  /\ UNCHANGED <<queueVars, entryVars, eventVars, cleanupVars>>

\* A statement fails: `?` ends the handler or the cleanup where it is, and the
\* statements before it stay done.
StatementFails(t) ==
  /\ pc[t] \notin {"idle", "dead", "delete"}
  /\ Finish(t)
  /\ Fault

\* leaveQueue and kick drop the result of their DELETE and go on.
DeleteFails ==
  /\ pc["ws"] = "delete"
  /\ pc' = [pc EXCEPT !["ws"] = "count"]
  /\ Fault
  /\ UNCHANGED <<todo, cur, left, amount>>

\* get_single_connection and queues::all panic when the database is down, which
\* ends the scheduler's thread: nothing catches the panic there.
CleanupDies ==
  /\ pc["cleanup"] = "idle"
  /\ pc' = [pc EXCEPT !["cleanup"] = "dead"]
  /\ Fault
  /\ UNCHANGED <<todo, cur, left, amount>>

\* systemd restarts the process: both threads start over.
ProcessRestart ==
  /\ pc' = [t \in Threads |-> "idle"]
  /\ todo' = [t \in Threads |-> {}]
  /\ cur' = [t \in Threads |-> {}]
  /\ left' = [t \in Threads |-> FALSE]
  /\ amount' = [t \in Threads |-> NoAmount]
  /\ Fault

-----------------------------------------------------------------------------
Handler ==
  \/ AddQueue
  \/ \E q \in queues :
       \/ RemoveQueue(q)
       \/ \E s \in Settings, status \in BOOLEAN : Set(q, s, status)
       \/ \E u \in Users : LeaveFind(u, q)
       \/ \E u \in Users, h \in Helps : JoinFind(u, q, h) \/ UpdateQueueEntry(u, q, h)
       \/ PurgeLoad(q)

\* The next statement of a handler that has started
HandlerStep == JoinInsert \/ Delete \/ CountHelp("ws") \/ CountPresent("ws") \/ InsertEvent("ws")

CleanupStep ==
  \/ CleanupLoad \/ RemoveAll \/ ClearAllMotds
  \/ CountHelp("cleanup") \/ CountPresent("cleanup") \/ InsertEvent("cleanup")

Failure ==
  \/ \E t \in Threads : StatementFails(t)
  \/ DeleteFails \/ CleanupDies \/ ProcessRestart

Next == Handler \/ HandlerStep \/ CleanupStart \/ CleanupStep \/ Failure

Spec == Init /\ [][Next]_vars

\* Both threads keep running; the scheduler starts the cleanup every night.
Fairness == WF_vars(HandlerStep) /\ WF_vars(CleanupStart) /\ WF_vars(CleanupStep)

FairSpec == Spec /\ Fairness

-----------------------------------------------------------------------------
(* Properties.                                                             *)

UniqueEntries ==
  \A d, e \in entries : d.id = e.id \/ (d.user = e.user /\ d.queue = e.queue) => d = e
UniqueEvents == \A v, w \in events : v.id = w.id => v = w
FreshIds ==
  /\ \A e \in entries : e.id < nextEntry
  /\ \A v \in events : v.id < nextEvent
  /\ \A q \in queues : q < nextQueue
ForeignKeys ==
  /\ \A e \in entries : e.queue \in queues
  /\ \A v \in events : v.queue \in queues

\* The rows satisfy the constraints of the migrations although the two threads write
\* in several steps: an id is used once, a user is in a queue once, an entry and an
\* event belong to a queue that exists.
Integrity == UniqueEntries /\ UniqueEvents /\ FreshIds /\ ForeignKeys

EventsOf(u, q) == {v \in events : v.user = u /\ v.queue = q}

\* The event log of a queue is its history as long as no handler ran during a
\* cleanup and nothing failed: the events of a user alternate between joining and
\* leaving, the first is a join, and the last is a join just when the user is in
\* the queue.  The statistics page and queue_history.sql read the log that way.
LogMatchesQueue ==
  quiet /\ pc["ws"] = "idle" /\ ~CleanupRuns =>
    \A u \in Users : \A q \in queues :
      LET log == EventsOf(u, q)
          Before(v) == {w \in log : w.id < v.id}
      IN /\ \A v \in log : v.left <=> Cardinality(Before(v)) % 2 = 1
         /\ (\E e \in EntriesOf(q) : e.user = u) <=> Cardinality(log) % 2 = 1

Joins(u, q) == {v \in EventsOf(u, q) : ~v.left}

\* queue_history.sql counts the events with left_queue = false as "people entered
\* the queue system".  Whatever the cleanup does in between and whatever fails, the
\* count never exceeds the entries made; it is exact when no statement failed and
\* no handler is at work.
JoinsCounted ==
  \A u \in Users : \A q \in queues :
    LET joins == Cardinality(Joins(u, q))
    IN /\ joins <= inserted[<<u, q>>]
       /\ faults = 0 /\ pc["ws"] = "idle" => joins = inserted[<<u, q>>]

\* Everybody whom a cleanup found queueing when it started has been logged as
\* leaving when it has removed the entries, by the cleanup itself or by a handler
\* (or is the entry that a handler is about to log), however handlers interleave
\* with the cleanup's statements.  Not so for those who join during the cleanup.
CleanupLogs ==
  pc["cleanup"] = "motds" /\ faults = 0 =>
    \A e \in seen : e.queue \in queues =>
      \/ \E v \in EventsOf(e.user, e.queue) : v.left /\ v.id >= since
      \/ left["ws"] /\ \E d \in todo["ws"] \cup cur["ws"] : d.id = e.id

\* An event about to be written holds the numbers of entries at this moment,
\* although they were read by two earlier statements, unless the other thread ran
\* in between.
CountsExact ==
  quiet => \A t \in Threads : pc[t] = "event" =>
    \A e \in cur[t] : amount[t] = [help    |-> Cardinality(Wanting(e.queue, TRUE)),
                                   present |-> Cardinality(Wanting(e.queue, FALSE))]

UsersIn(q) == {e.user : e \in EntriesOf(q)}

\* Nobody enters a queue while it is locked, although joinQueue reads the lock two
\* statements before it inserts.
LockedQueueFrozen ==
  [][\A q \in Having("locked") \cap Having("locked")' : UsersIn(q)' \subseteq UsersIn(q)]_vars

\* Nobody stays in a queue forever: an entry is removed by some night's cleanup
\* even if handlers run during it, make it fail by removing a queue, or let people
\* join after it passed their queue.  A failure may end the cleanups for good.
EntriesCleared ==
  \A i \in EntryIds :
    (\E e \in entries : e.id = i) ~> (faults > 0 \/ \A e \in entries : e.id # i)

\* "Hiding a queue means both purging and hiding the queue."
HidingPurges ==
  [][\A q \in Having("hiding")' \ Having("hiding") : UsersIn(q)' = {}]_vars
=============================================================================
