---------------------------- MODULE EventLogProofs ----------------------------
(***************************************************************************)
(* The event log of QueueServer is the history of its queues: a proof that *)
(* the events of a user alternate, and that the last one says whether the  *)
(* user is in the queue, as long as the threads take turns and nothing     *)
(* fails.  Between two statements the log and the entries may differ, by   *)
(* what a thread has still to log (InLog).                                 *)
(***************************************************************************)
EXTENDS QueueServerProofs

Work(t) == todo[t] \cup cur[t]

Has(E, u, q) == \E e \in E : e.user = u /\ e.queue = q

Logging(t) == pc[t] \in {"count", "present", "event"}

\* The cleanup logs entries that it removes only at its end.
Sweeping == pc["cleanup"] \in {"load", "count", "present", "event"}

\* The log should say that the user is in the queue.
InLog(u, q) ==
  IF Sweeping /\ q \notin qs THEN Has(Work("cleanup"), u, q)
  ELSE IF Logging("ws") /\ Has(Work("ws"), u, q) THEN left["ws"]
  ELSE Has(entries, u, q)

Odd(u, q) == Cardinality(EventsOf(u, q)) % 2 = 1

Before(u, q, v) == {w \in EventsOf(u, q) : w.id < v.id}

Order ==
  \A u \in Users : \A q \in QueueIds : \A v \in EventsOf(u, q) :
    v.left <=> Cardinality(Before(u, q, v)) % 2 = 1

Match == \A u \in Users : \A q \in queues : Odd(u, q) <=> InLog(u, q)

\* A thread logs each entry once.
Once(t) ==
  Logging(t) => /\ todo[t] \cap cur[t] = {}
                /\ \A d, e \in Work(t) : d.user = e.user /\ d.queue = e.queue => d = e

TaskInv ==
  /\ \A t \in Threads : Once(t)
  /\ pc["ws"] \in {"delete", "remove"} => todo["ws"] \subseteq entries
  /\ Logging("ws") => \A e \in Work("ws") : Has(entries, e.user, e.queue) <=> ~left["ws"]
  /\ Sweeping => \A e \in Work("cleanup") : e.queue \in queues \ qs
  /\ pc["cleanup"] = "motds" => entries = {}

History == Order /\ Match /\ TaskInv

-----------------------------------------------------------------------------
(* Numbers of events.                                                      *)

LEMMA Parity ==
  ASSUME NEW n \in Nat
  PROVE  (n + 1) % 2 = 1 <=> n % 2 # 1
OBVIOUS

LEMMA EventsFinite ==
  ASSUME IsFiniteSet(events), NEW u, NEW q
  PROVE  IsFiniteSet(EventsOf(u, q)) /\ Cardinality(EventsOf(u, q)) \in Nat
<1>1. EventsOf(u, q) \subseteq events
  BY DEF EventsOf
<1>. QED  BY <1>1, FS_Subset, FS_CardinalityType

\* An event is written behind those that are there, and changes one parity.
LEMMA EventAdded ==
  ASSUME Inv, IsFiniteSet(events), NEW e \in Entry, NEW l \in BOOLEAN,
         events' = events \cup {Logged(e, l)}
  PROVE  /\ \A u \in Users : \A q \in QueueIds :
              Odd(u, q)' <=> (IF u = e.user /\ q = e.queue THEN ~Odd(u, q) ELSE Odd(u, q))
         /\ Order /\ (l <=> Odd(e.user, e.queue)) => Order'
<1>. DEFINE n == Logged(e, l)
<1>0. /\ \A v \in events : v.id < nextEvent /\ v.id \in Nat
      /\ nextEvent \in Nat
  BY DEF Inv, Integrity, FreshIds, TypeOK, Event
<1>1. /\ n.id = nextEvent /\ n.user = e.user /\ n.queue = e.queue /\ n.left = l
      /\ n \notin events
  BY <1>0 DEF Logged
<1>. HIDE DEF n
<1>2. ASSUME NEW u, NEW q
      PROVE  EventsOf(u, q)' = IF u = e.user /\ q = e.queue THEN EventsOf(u, q) \cup {n}
                               ELSE EventsOf(u, q)
  BY <1>1 DEF EventsOf, n
<1>3. ASSUME NEW u \in Users, NEW q \in QueueIds
      PROVE  Odd(u, q)' <=> (IF u = e.user /\ q = e.queue THEN ~Odd(u, q) ELSE Odd(u, q))
  <2>1. CASE u = e.user /\ q = e.queue
    <3>1. EventsOf(u, q)' = EventsOf(u, q) \cup {n} /\ n \notin EventsOf(u, q)
      BY <1>1, <1>2, <2>1 DEF EventsOf
    <3>2. /\ Cardinality(EventsOf(u, q))' = Cardinality(EventsOf(u, q)) + 1
          /\ Cardinality(EventsOf(u, q)) \in Nat
      BY <3>1, EventsFinite, FS_AddElement
    <3>. QED  BY <2>1, <3>2, Parity DEF Odd
  <2>2. CASE ~(u = e.user /\ q = e.queue)
    <3>1. EventsOf(u, q)' = EventsOf(u, q)
      BY <1>2, <2>2
    <3>. QED  BY <2>2, <3>1 DEF Odd
  <2>. QED  BY <2>1, <2>2
<1>4. ASSUME Order, l <=> Odd(e.user, e.queue), NEW u \in Users, NEW q \in QueueIds,
             NEW v \in EventsOf(u, q)'
      PROVE  v.left <=> Cardinality(Before(u, q, v)') % 2 = 1
  <2>1. CASE v \in EventsOf(u, q)
    <3>1. v.id < nextEvent /\ v.id \in Nat
      BY <1>0, <2>1 DEF EventsOf
    <3>2. ~(n.id < v.id)
      BY <1>0, <1>1, <3>1
    <3>3. Before(u, q, v)' = Before(u, q, v)
      BY <1>2, <3>2 DEF Before
    <3>. QED  BY <1>4, <2>1, <3>3 DEF Order
  <2>2. CASE v \notin EventsOf(u, q)
    <3>1. u = e.user /\ q = e.queue /\ v = n /\ EventsOf(u, q)' = EventsOf(u, q) \cup {n}
      BY <1>2, <1>4, <2>2
    <3>2. \A w \in EventsOf(u, q) : w.id < n.id
      BY <1>0, <1>1 DEF EventsOf
    <3>3. ~(n.id < n.id)
      BY <1>0, <1>1
    <3>4. Before(u, q, v)' = EventsOf(u, q)
      BY <3>1, <3>2, <3>3 DEF Before
    <3>. QED  BY <1>1, <1>4, <3>1, <3>4 DEF Odd
  <2>. QED  BY <2>1, <2>2
<1>. QED  BY <1>3, <1>4 DEF Order

\* Where no event is written, the claims about the log are the same.
LEMMA EventsSame ==
  ASSUME events' = events
  PROVE  (Order => Order') /\ \A u, q : Odd(u, q)' <=> Odd(u, q)
BY DEF Order, Before, Odd, EventsOf

-----------------------------------------------------------------------------
(* The steps.                                                              *)

\* What is known of a step that nobody disturbs
Undisturbed == Inv /\ LeftInv /\ WorkInv /\ Alone /\ quiet /\ IsFiniteSet(events) /\ History

LEMMA CalmBefore ==
  ASSUME TypeOK, Match, pc["ws"] \in {"idle", "insert", "delete", "remove"}, ~Sweeping
  PROVE  \A u \in Users : \A q \in queues : Odd(u, q) <=> Has(entries, u, q)
BY DEF Match, InLog, Logging

LEMMA CalmAfter ==
  ASSUME Order', pc'["ws"] \in {"idle", "insert", "delete", "remove"},
         pc'["cleanup"] \in {"idle", "dead"},
         pc'["ws"] \in {"delete", "remove"} => todo'["ws"] \subseteq entries',
         \A u \in Users : \A q \in queues' : Odd(u, q)' <=> Has(entries, u, q)'
  PROVE  History'
BY DEF History, Match, InLog, TaskInv, Once, Logging, Sweeping, Threads

LEMMA AddQueueHistory ==
  ASSUME Undisturbed, AddQueue, quiet'
  PROVE  History'
<1>. USE DEF Request, entryVars, eventVars, threadVars
<1>0. /\ TypeOK /\ pc["ws"] = "idle" /\ pc["cleanup"] \in {"idle", "dead"} /\ Match /\ Order
      /\ UNCHANGED <<pc, todo, entries, events>> /\ queues' = queues \cup {nextQueue}
  BY DEF AddQueue, Undisturbed, Inv, TypeOK, History, CleanupRuns, Threads, PC
<1>1. \A u \in Users : \A q \in queues : Odd(u, q) <=> Has(entries, u, q)
  BY <1>0, CalmBefore DEF Sweeping
<1>2. /\ \A v \in events : v.queue \in queues /\ \A e \in entries : e.queue \in queues
      /\ \A q \in queues : q < nextQueue
  BY DEF Undisturbed, Inv, Integrity, ForeignKeys, FreshIds
<1>3. nextQueue \notin queues
  <2>1. nextQueue \in Nat
    BY <1>0, BoundsAssumption DEF TypeOK
  <2>. QED  BY <1>2, <2>1
<1>4. ASSUME NEW u \in Users, NEW q \in queues' PROVE Odd(u, q)' <=> Has(entries, u, q)'
  <2>1. CASE q \in queues
    <3>1. Odd(u, q)' <=> Odd(u, q)
      BY <1>0, EventsSame
    <3>2. Has(entries, u, q)' <=> Has(entries, u, q)
      BY <1>0 DEF Has
    <3>. QED  BY <1>1, <2>1, <3>1, <3>2
  <2>2. CASE q = nextQueue
    <3>1. EventsOf(u, q)' = {}
      BY <1>0, <1>2, <1>3, <2>2 DEF EventsOf
    <3>2. ~Odd(u, q)'
      <4>1. Cardinality(EventsOf(u, q))' = 0
        BY <3>1, FS_EmptySet
      <4>. QED  BY <4>1 DEF Odd
    <3>3. ~Has(entries, u, q)'
      <4>1. \A e \in entries : e.queue \in queues
        BY DEF Undisturbed, Inv, Integrity, ForeignKeys
      <4>. QED  BY <1>0, <1>3, <2>2, <4>1 DEF Has
    <3>. QED  BY <3>2, <3>3
  <2>. QED  BY <1>0, <2>1, <2>2
<1>5. Order'
  BY <1>0, EventsSame
<1>. QED  BY <1>0, <1>4, <1>5, CalmAfter

LEMMA RemoveQueueHistory ==
  ASSUME Undisturbed, NEW p \in queues, RemoveQueue(p), quiet'
  PROVE  History'
<1>. USE DEF Request, threadVars
<1>0. /\ TypeOK /\ pc["ws"] = "idle" /\ pc["cleanup"] \in {"idle", "dead"} /\ Match /\ Order
      /\ UNCHANGED <<pc, todo>> /\ queues' = queues \ {p}
      /\ entries' = entries \ EntriesOf(p) /\ events' = {v \in events : v.queue # p}
  BY DEF RemoveQueue, Undisturbed, Inv, TypeOK, History, CleanupRuns, Threads, PC
<1>1. \A u \in Users : \A q \in queues : Odd(u, q) <=> Has(entries, u, q)
  BY <1>0, CalmBefore DEF Sweeping
<1>2. \A u, q : q # p => /\ EventsOf(u, q)' = EventsOf(u, q)
                         /\ Has(entries, u, q)' <=> Has(entries, u, q)
  BY <1>0 DEF EventsOf, EntriesOf, Has
<1>3. \A u : EventsOf(u, p)' = {}
  BY <1>0 DEF EventsOf
<1>4. \A u \in Users : \A q \in queues' : Odd(u, q)' <=> Has(entries, u, q)'
  BY <1>0, <1>1, <1>2 DEF Odd
<1>5. Order'
  <2>. SUFFICES ASSUME NEW u \in Users, NEW q \in QueueIds, NEW v \in EventsOf(u, q)'
                PROVE  v.left <=> Cardinality(Before(u, q, v)') % 2 = 1
    BY DEF Order
  <2>1. q # p
    BY <1>3
  <2>2. v \in EventsOf(u, q) /\ Before(u, q, v)' = Before(u, q, v)
    BY <1>2, <2>1 DEF Before
  <2>. QED  BY <1>0, <2>2 DEF Order
<1>. QED  BY <1>0, <1>4, <1>5, CalmAfter

\* Requests that write neither rows of entries nor of events, or only `help`
LEMMA OtherRequestHistory ==
  ASSUME Undisturbed, pc["ws"] = "idle", ~CleanupRuns, UNCHANGED <<queues, events>>,
         pc'["ws"] \in {"idle", "insert", "delete", "remove"}, pc'["cleanup"] = pc["cleanup"],
         pc'["ws"] \in {"delete", "remove"} => todo'["ws"] \subseteq entries',
         \A u, q : Has(entries, u, q)' <=> Has(entries, u, q)
  PROVE  History'
<1>1. TypeOK /\ Match /\ Order /\ pc["cleanup"] \in {"idle", "dead"}
  BY DEF Undisturbed, Inv, TypeOK, History, CleanupRuns
<1>2. \A u \in Users : \A q \in queues : Odd(u, q) <=> Has(entries, u, q)
  BY <1>1, CalmBefore DEF Sweeping
<1>3. \A u \in Users : \A q \in queues' : Odd(u, q)' <=> Has(entries, u, q)'
  BY <1>2, EventsSame
<1>4. Order'
  BY <1>1, EventsSame
<1>. QED  BY <1>1, <1>3, <1>4, CalmAfter

LEMMA HandlerHistory ==
  ASSUME Undisturbed, Handler, quiet'
  PROVE  History'
<1>. USE DEF Request, queueVars, entryVars, eventVars, threadVars
<1>0. TypeOK
  BY DEF Undisturbed, Inv
<1>1. ASSUME NEW q \in queues, NEW s \in Settings, NEW status \in BOOLEAN, Set(q, s, status)
      PROVE  History'
  <2>1. \A u, r : Has(entries, u, r)' <=> Has(entries, u, r)
    BY <1>1 DEF Set, Has
  <2>. QED  BY <1>1, <2>1, OtherRequestHistory DEF Set
<1>2. ASSUME NEW q \in queues, NEW u \in Users, NEW h \in Helps, UpdateQueueEntry(u, q, h)
      PROVE  History'
  <2>1. PICK e \in EntriesOf(q) : entries' = (entries \ {e}) \cup {[e EXCEPT !.help = h]}
    BY <1>2 DEF UpdateQueueEntry
  <2>2. e \in entries /\ e \in Entry
    BY <1>0 DEF EntriesOf, TypeOK
  <2>. DEFINE d == [e EXCEPT !.help = h]
  <2>3. d.user = e.user /\ d.queue = e.queue
    BY <2>2 DEF Entry
  <2>. HIDE DEF d
  <2>4. \A w, r : Has(entries, w, r)' <=> Has(entries, w, r)
    <3>1. entries' = (entries \ {e}) \cup {d}
      BY <2>1 DEF d
    <3>. QED  BY <2>2, <2>3, <3>1 DEF Has
  <2>. QED  BY <1>2, <2>4, OtherRequestHistory DEF UpdateQueueEntry
<1>3. ASSUME NEW q \in queues, NEW u \in Users, NEW h \in Helps, JoinFind(u, q, h)
      PROVE  History'
  <2>1. \A w, r : Has(entries, w, r)' <=> Has(entries, w, r)
    BY <1>3 DEF JoinFind, Has
  <2>2. pc'["ws"] = "insert" /\ pc'["cleanup"] = pc["cleanup"]
    BY <1>0, <1>3 DEF JoinFind, TypeOK, Threads
  <2>. QED  BY <1>3, <2>1, <2>2, OtherRequestHistory DEF JoinFind
<1>4. ASSUME NEW E \in SUBSET entries, NEW st \in {"delete", "remove"}, LoadForRemoval(E, st)
      PROVE  History'
  <2>1. \A w, r : Has(entries, w, r)' <=> Has(entries, w, r)
    BY <1>4 DEF LoadForRemoval, Has
  <2>2. pc'["ws"] = st /\ pc'["cleanup"] = pc["cleanup"] /\ todo'["ws"] = E
    BY <1>0, <1>4 DEF LoadForRemoval, TypeOK, Threads
  <2>. QED  BY <1>4, <2>1, <2>2, OtherRequestHistory DEF LoadForRemoval
<1>5. ASSUME NEW q \in queues, NEW u \in Users, LeaveFind(u, q) PROVE History'
  <2>1. PICK e \in EntriesOf(q) : LoadForRemoval({e}, "delete")
    BY <1>5 DEF LeaveFind
  <2>. QED  BY <1>4, <2>1 DEF EntriesOf
<1>6. ASSUME NEW q \in queues, PurgeLoad(q) PROVE History'
  BY <1>4, <1>6 DEF PurgeLoad, EntriesOf
<1>. QED  BY <1>1, <1>2, <1>3, <1>5, <1>6, AddQueueHistory, RemoveQueueHistory DEF Handler

LEMMA JoinInsertHistory ==
  ASSUME Undisturbed, JoinInsert, quiet'
  PROVE  History'
<1>. USE DEF queueVars, entryVars, eventVars, threadVars, cleanupVars
<1>0. /\ TypeOK /\ pc["ws"] = "insert" /\ Match /\ Order /\ ~left["ws"] /\ JoinReady
      /\ pc["cleanup"] \in {"idle", "dead"} /\ UNCHANGED <<queues, events>>
  BY DEF JoinInsert, Undisturbed, Inv, LeftInv, TypeOK, History, Alone, CleanupRuns, Threads, PC
<1>1. \A u \in Users : \A q \in queues : Odd(u, q) <=> Has(entries, u, q)
  BY <1>0, CalmBefore DEF Sweeping
<1>2. Order' /\ \A u, q : Odd(u, q)' <=> Odd(u, q)
  BY <1>0, EventsSame
<1>3. PICK e \in cur["ws"] :
        IF \E d \in EntriesOf(e.queue) : d.user = e.user
        THEN Finish("ws") /\ UNCHANGED entryVars
        ELSE /\ entries' = entries \cup {e} /\ todo' = [todo EXCEPT !["ws"] = {e}]
             /\ cur' = [cur EXCEPT !["ws"] = {}] /\ pc' = [pc EXCEPT !["ws"] = "count"]
             /\ UNCHANGED left
  BY DEF JoinInsert
<1>4. CASE Finish("ws") /\ UNCHANGED entryVars
  <2>1. pc'["ws"] = "idle" /\ pc'["cleanup"] = pc["cleanup"]
    BY <1>0, <1>4, FinishWork DEF WorkStays, Threads
  <2>2. \A u \in Users : \A q \in queues' : Odd(u, q)' <=> Has(entries, u, q)'
    BY <1>0, <1>1, <1>2, <1>4 DEF Has
  <2>. QED  BY <1>0, <1>2, <2>1, <2>2, CalmAfter
<1>5. CASE ~\E d \in EntriesOf(e.queue) : d.user = e.user
  <2>1. /\ pc'["ws"] = "count" /\ pc'["cleanup"] = pc["cleanup"] /\ ~left'["ws"]
        /\ todo'["ws"] = {e} /\ cur'["ws"] = {} /\ entries' = entries \cup {e}
    BY <1>0, <1>3, <1>5 DEF TypeOK, Threads
  <2>2. Work("ws")' = {e} /\ ~Sweeping' /\ Logging("ws")' /\ ~Logging("cleanup")'
    BY <1>0, <2>1 DEF Work, Sweeping, Logging
  <2>3. ~Has(entries, e.user, e.queue)
    BY <1>5 DEF Has, EntriesOf
  <2>4. ASSUME NEW u \in Users, NEW q \in queues' PROVE Odd(u, q)' <=> InLog(u, q)'
    <3>1. CASE u = e.user /\ q = e.queue
      <4>1. Has(Work("ws"), u, q)'
        BY <2>2, <3>1 DEF Has
      <4>2. ~InLog(u, q)'
        BY <2>1, <2>2, <4>1 DEF InLog
      <4>. QED  BY <1>0, <1>1, <1>2, <2>3, <3>1, <4>2
    <3>2. CASE ~(u = e.user /\ q = e.queue)
      <4>1. ~Has(Work("ws"), u, q)' /\ (Has(entries, u, q)' <=> Has(entries, u, q))
        BY <2>1, <2>2, <3>2 DEF Has
      <4>2. InLog(u, q)' <=> Has(entries, u, q)
        BY <2>2, <4>1 DEF InLog
      <4>. QED  BY <1>0, <1>1, <1>2, <4>2
    <3>. QED  BY <3>1, <3>2
  <2>5. TaskInv'
    <3>1. Once("ws")'
      BY <2>1, <2>2 DEF Once
    <3>2. \A d \in Work("ws")' : Has(entries, d.user, d.queue)' <=> ~left'["ws"]
      BY <2>1, <2>2 DEF Has
    <3>3. Once("cleanup")' /\ pc'["cleanup"] # "motds"
      BY <1>0, <2>1, <2>2 DEF Once
    <3>. QED  BY <2>1, <2>2, <3>1, <3>2, <3>3 DEF TaskInv, Threads
  <2>. QED  BY <1>2, <2>4, <2>5 DEF History, Match
<1>. QED  BY <1>3, <1>4, <1>5

LEMMA DeleteHistory ==
  ASSUME Undisturbed, Delete, quiet'
  PROVE  History'
<1>. USE DEF queueVars, entryVars, eventVars, threadVars, cleanupVars
<1>. DEFINE T == todo["ws"]
<1>0. /\ TypeOK /\ pc["ws"] \in {"delete", "remove"} /\ Match /\ Order /\ left["ws"]
      /\ pc["cleanup"] \in {"idle", "dead"} /\ UNCHANGED <<queues, events>>
      /\ T \subseteq entries /\ UniqueEntries /\ cur["ws"] = {}
      /\ entries' = {e \in entries : \A d \in T : d.id # e.id}
  BY DEF Delete, Undisturbed, Inv, Integrity, LeftInv, WorkInv, ThreadInv, TypeOK, History, TaskInv,
         Alone, CleanupRuns, Threads, PC
<1>1. \A u \in Users : \A q \in queues : Odd(u, q) <=> Has(entries, u, q)
  BY <1>0, CalmBefore DEF Sweeping
<1>2. Order' /\ \A u, q : Odd(u, q)' <=> Odd(u, q)
  BY <1>0, EventsSame
<1>3. entries' = entries \ T
  BY <1>0 DEF UniqueEntries
<1>4. \A d, e \in entries : d.user = e.user /\ d.queue = e.queue => d = e
  BY <1>0 DEF UniqueEntries
<1>5. CASE T = {}
  <2>1. pc'["ws"] = "idle" /\ pc'["cleanup"] = pc["cleanup"] /\ entries' = entries
    BY <1>0, <1>3, <1>5, FinishWork DEF Delete, WorkStays, Threads
  <2>2. \A u \in Users : \A q \in queues' : Odd(u, q)' <=> Has(entries, u, q)'
    BY <1>0, <1>1, <1>2, <2>1 DEF Has
  <2>. QED  BY <1>0, <1>2, <2>1, <2>2, CalmAfter
<1>6. CASE T # {}
  <2>1. /\ pc'["ws"] = "count" /\ pc'["cleanup"] = pc["cleanup"] /\ left'["ws"]
        /\ todo'["ws"] = T /\ cur'["ws"] = {}
    BY <1>0, <1>6 DEF Delete, TypeOK, Threads
  <2>2. Work("ws")' = T /\ ~Sweeping' /\ Logging("ws")' /\ ~Logging("cleanup")'
    BY <1>0, <2>1 DEF Work, Sweeping, Logging
  <2>3. ASSUME NEW e \in T PROVE ~Has(entries, e.user, e.queue)'
    BY <1>0, <1>3, <1>4 DEF Has
  <2>4. ASSUME NEW u \in Users, NEW q \in queues' PROVE Odd(u, q)' <=> InLog(u, q)'
    <3>1. CASE Has(T, u, q)
      <4>1. InLog(u, q)'
        BY <2>1, <2>2, <3>1 DEF InLog, Has
      <4>2. Has(entries, u, q)
        BY <1>0, <3>1 DEF Has
      <4>. QED  BY <1>0, <1>1, <1>2, <4>1, <4>2
    <3>2. CASE ~Has(T, u, q)
      <4>1. Has(entries, u, q)' <=> Has(entries, u, q)
        BY <1>3, <3>2 DEF Has
      <4>2. InLog(u, q)' <=> Has(entries, u, q)
        BY <2>2, <3>2, <4>1 DEF InLog, Has
      <4>. QED  BY <1>0, <1>1, <1>2, <4>2
    <3>. QED  BY <3>1, <3>2
  <2>5. TaskInv'
    <3>1. Once("ws")'
      BY <1>0, <1>4, <2>1, <2>2 DEF Once
    <3>2. \A d \in Work("ws")' : Has(entries, d.user, d.queue)' <=> ~left'["ws"]
      BY <2>1, <2>2, <2>3
    <3>3. Once("cleanup")' /\ pc'["cleanup"] # "motds"
      BY <1>0, <2>1, <2>2 DEF Once
    <3>. QED  BY <2>1, <2>2, <3>1, <3>2, <3>3 DEF TaskInv, Threads
  <2>. QED  BY <1>2, <2>4, <2>5 DEF History, Match
<1>. QED  BY <1>5, <1>6

LEMMA CountHistory ==
  ASSUME Undisturbed, NEW t \in Threads, CountHelp(t) \/ CountPresent(t), quiet'
  PROVE  History'
<1>. USE DEF queueVars, entryVars, eventVars, threadVars, cleanupVars
<1>0. /\ TypeOK /\ Match /\ Order /\ TaskInv /\ UNCHANGED <<queues, entries, events, left, qs>>
      /\ \A s \in Threads : ThreadInv(s)
  BY DEF CountHelp, CountPresent, Undisturbed, Inv, History, WorkInv
<1>1. Order' /\ \A u, q : Odd(u, q)' <=> Odd(u, q)
  BY <1>0, EventsSame
<1>2. /\ pc[t] \in {"count", "present"} /\ pc'[t] \in {"present", "event"}
      /\ \A s \in Threads \ {t} : WorkStays(s)
  BY <1>0 DEF CountHelp, CountPresent, TypeOK, WorkStays
<1>3. Work(t)' = Work(t) /\ Once(t)'
  <2>1. CASE CountHelp(t)
    <3>1. PICK e \in todo[t] : todo' = [todo EXCEPT ![t] = todo[t] \ {e}]
                               /\ cur' = [cur EXCEPT ![t] = {e}]
      BY <2>1 DEF CountHelp
    <3>2. todo'[t] = todo[t] \ {e} /\ cur'[t] = {e} /\ cur[t] = {}
      BY <1>0, <2>1, <3>1 DEF TypeOK, CountHelp, ThreadInv
    <3>3. Work(t)' = Work(t)
      BY <3>2 DEF Work
    <3>. QED  BY <1>0, <1>2, <3>2, <3>3 DEF TaskInv, Once, Logging
  <2>2. CASE CountPresent(t)
    <3>1. UNCHANGED <<todo, cur>>
      BY <2>2 DEF CountPresent
    <3>. QED  BY <1>0, <1>2, <3>1 DEF Work, TaskInv, Once, Logging
  <2>. QED  BY <2>1, <2>2
<1>4. \A s \in Threads : Work(s)' = Work(s) /\ (Logging(s)' <=> Logging(s))
  BY <1>2, <1>3 DEF WorkStays, Work, Logging
<1>5. Sweeping' <=> Sweeping
  BY <1>2 DEF WorkStays, Sweeping, Threads
<1>6. Match'
  BY <1>0, <1>1, <1>4, <1>5 DEF Match, InLog, Has, Threads
<1>7. TaskInv'
  <2>1. \A s \in Threads : Once(s)'
    BY <1>0, <1>2, <1>3 DEF TaskInv, Once, WorkStays, Logging, Work
  <2>2. pc'["ws"] \in {"delete", "remove"} => todo'["ws"] \subseteq entries'
    BY <1>0, <1>2 DEF TaskInv, WorkStays, Threads
  <2>3. pc'["cleanup"] = "motds" => entries' = {}
    BY <1>0, <1>2 DEF TaskInv, WorkStays, Threads
  <2>4. Logging("ws")' => \A e \in Work("ws")' : Has(entries, e.user, e.queue)' <=> ~left'["ws"]
    BY <1>0, <1>4 DEF TaskInv, Has, Threads
  <2>5. Sweeping' => \A e \in Work("cleanup")' : e.queue \in queues' \ qs'
    BY <1>0, <1>4, <1>5 DEF TaskInv, Threads
  <2>. QED  BY <2>1, <2>2, <2>3, <2>4, <2>5 DEF TaskInv
<1>. QED  BY <1>1, <1>6, <1>7 DEF History

\* The event that a thread writes is the one its current entry lacks.
LEMMA EventHistory ==
  ASSUME Undisturbed, NEW t \in Threads, InsertEvent(t), quiet'
  PROVE  History'
<1>. USE DEF queueVars, entryVars, eventVars, threadVars, cleanupVars
<1>0. /\ TypeOK /\ Match /\ Order /\ TaskInv /\ UNCHANGED <<queues, entries, qs>>
      /\ pc[t] = "event" /\ ThreadInv(t) /\ HandlerInv /\ LeftInv /\ WorkInv /\ Alone /\ quiet
  BY DEF InsertEvent, Undisturbed, Inv, History, WorkInv
<1>1. PICK e \in cur[t] :
        IF e.queue \in queues
        THEN /\ events' = events \cup {Logged(e, left[t])} /\ NextEntry(t)
        ELSE Finish(t) /\ UNCHANGED eventVars
  BY DEF InsertEvent, Logged
<1>2. /\ e \in Entry /\ e \in Work(t) /\ cur[t] = {e} /\ left[t] \in BOOLEAN
      /\ e.user \in Users /\ e.queue \in QueueIds
  BY <1>0 DEF TypeOK, ThreadInv, Work, Entry
<1>3. Logging(t) /\ (t = "cleanup" <=> Sweeping) /\ (t = "ws" <=> Logging("ws"))
  BY <1>0 DEF Logging, Sweeping, Alone, CleanupRuns, Threads
<1>4. e.queue \in queues
  BY <1>0, <1>2, <1>3 DEF HandlerInv, TaskInv, Work, Threads
<1>5. events' = events \cup {Logged(e, left[t])} /\ NextEntry(t)
  BY <1>1, <1>4
<1>6. /\ \A s \in Threads \ {t} : WorkStays(s)
      /\ todo'[t] = todo[t] /\ cur'[t] = {}
      /\ \/ pc'[t] = "idle" /\ t = "ws" /\ todo[t] = {}
         \/ pc'[t] = "load" /\ t = "cleanup" /\ todo[t] = {}
         \/ pc'[t] = "count" /\ left'[t] = left[t]
  <2>1. pc'[t] = "idle" => t = "ws"
    BY <1>0, <1>5 DEF NextEntry, TypeOK, Threads
  <2>. QED  BY <1>0, <1>5, <2>1, NextEntryWork
<1>7. Work(t)' = todo[t] /\ Work(t) = todo[t] \cup {e} /\ e \notin todo[t]
  BY <1>0, <1>2, <1>3, <1>6 DEF Work, TaskInv, Once
<1>8. /\ \A d \in todo[t] : ~(d.user = e.user /\ d.queue = e.queue)
      /\ \A u, q : Has(Work(t), u, q) <=> Has(todo[t], u, q) \/ (u = e.user /\ q = e.queue)
  BY <1>0, <1>3, <1>7 DEF TaskInv, Once, Has
<1>9. InLog(e.user, e.queue) <=> left[t]
  <2>1. Has(Work(t), e.user, e.queue)
    BY <1>2 DEF Has
  <2>2. CASE t = "ws"
    BY <1>3, <2>1, <2>2 DEF InLog
  <2>3. CASE t = "cleanup"
    <3>1. e.queue \notin qs /\ left[t]
      BY <1>0, <1>2, <1>3, <2>3 DEF TaskInv, LeftInv, CleanupRuns
    <3>. QED  BY <1>3, <2>1, <2>3, <3>1 DEF InLog
  <2>. QED  BY <2>2, <2>3 DEF Threads
<1>10. left[t] <=> Odd(e.user, e.queue)
  BY <1>0, <1>2, <1>4, <1>9 DEF Match
<1>11. /\ \A u \in Users : \A q \in QueueIds :
            Odd(u, q)' <=> (IF u = e.user /\ q = e.queue THEN ~Odd(u, q) ELSE Odd(u, q))
       /\ Order'
  BY <1>0, <1>2, <1>5, <1>10, EventAdded DEF Undisturbed
<1>12. (Sweeping' <=> Sweeping) /\ (Logging("ws")' <=> t = "ws" /\ todo[t] # {})
  <2>1. pc'[t] = "count" => todo[t] # {}
    BY <1>0, <1>5 DEF NextEntry, Finish, TypeOK, Threads
  <2>. QED  BY <1>0, <1>3, <1>6, <2>1 DEF Sweeping, Logging, WorkStays, Threads
<1>13. ASSUME NEW u \in Users, NEW q \in queues' PROVE Odd(u, q)' <=> InLog(u, q)'
  <2>0. q \in QueueIds /\ q \in queues /\ (Odd(u, q) <=> InLog(u, q))
    BY <1>0 DEF TypeOK, Match
  <2>1. Has(entries, u, q)' <=> Has(entries, u, q)
    BY <1>0 DEF Has
  <2>2. Has(Work(t), u, q)' <=> Has(todo[t], u, q)
    BY <1>7 DEF Has
  <2>3. Has(todo[t], u, q) => ~(u = e.user /\ q = e.queue) /\ Has(Work(t), u, q) /\ todo[t] # {}
    BY <1>8 DEF Has
  <2>4. CASE t = "ws"
    <3>1. InLog(u, q)' <=> IF Has(todo[t], u, q) THEN left[t] ELSE Has(entries, u, q)
      BY <1>0, <1>3, <1>6, <1>12, <2>1, <2>2, <2>3, <2>4 DEF InLog
    <3>2. InLog(u, q) <=> IF Has(Work(t), u, q) THEN left[t] ELSE Has(entries, u, q)
      BY <1>3, <2>4 DEF InLog
    <3>3. Has(entries, e.user, e.queue) <=> ~left[t]
      BY <1>0, <1>2, <1>3, <2>4 DEF TaskInv
    <3>. QED  BY <1>2, <1>8, <1>9, <1>11, <2>0, <2>3, <3>1, <3>2, <3>3
  <2>5. CASE t = "cleanup"
    <3>1. e.queue \notin qs /\ left[t]
      BY <1>0, <1>2, <1>3, <2>5 DEF TaskInv, LeftInv, CleanupRuns
    <3>2. InLog(u, q)' <=> IF q \notin qs THEN Has(todo[t], u, q) ELSE Has(entries, u, q)
      BY <1>0, <1>3, <1>12, <2>1, <2>2, <2>5 DEF InLog
    <3>3. InLog(u, q) <=> IF q \notin qs THEN Has(Work(t), u, q) ELSE Has(entries, u, q)
      BY <1>3, <2>5 DEF InLog
    <3>. QED  BY <1>2, <1>8, <1>9, <1>11, <2>0, <2>3, <3>1, <3>2, <3>3
  <2>. QED  BY <2>4, <2>5 DEF Threads
<1>14. TaskInv'
  <2>1. \A s \in Threads : Once(s)'
    <3>1. Once(t)'
      BY <1>0, <1>3, <1>6, <1>7 DEF TaskInv, Once
    <3>2. \A s \in Threads \ {t} : Once(s)'
      BY <1>0, <1>6 DEF TaskInv, Once, WorkStays, Logging, Work
    <3>. QED  BY <3>1, <3>2
  <2>2. pc'["ws"] \in {"delete", "remove"} => todo'["ws"] \subseteq entries'
    BY <1>0, <1>6 DEF TaskInv, WorkStays, Threads
  <2>3. pc'["cleanup"] = "motds" => entries' = {}
    BY <1>0, <1>6 DEF TaskInv, WorkStays, Threads
  <2>4. Logging("ws")' => \A d \in Work("ws")' : Has(entries, d.user, d.queue)' <=> ~left'["ws"]
    <3>1. SUFFICES ASSUME t = "ws", todo[t] # {}, NEW d \in todo[t]
                   PROVE  Has(entries, d.user, d.queue)' <=> ~left'[t]
      BY <1>7, <1>12
    <3>2. left'[t] = left[t] /\ d \in Work(t) /\ (Has(entries, d.user, d.queue)' <=> Has(entries, d.user, d.queue))
      BY <1>0, <1>6, <1>7, <3>1 DEF Has
    <3>. QED  BY <1>0, <1>3, <3>1, <3>2 DEF TaskInv
  <2>5. Sweeping' => \A d \in Work("cleanup")' : d.queue \in queues' \ qs'
    BY <1>0, <1>3, <1>7, <1>12 DEF TaskInv
  <2>. QED  BY <2>1, <2>2, <2>3, <2>4, <2>5 DEF TaskInv
<1>. QED  BY <1>11, <1>13, <1>14 DEF History, Match

LEMMA CleanupStartHistory ==
  ASSUME Undisturbed, CleanupStart, quiet'
  PROVE  History'
<1>. USE DEF queueVars, entryVars, eventVars
<1>0. /\ TypeOK /\ Match /\ Order /\ pc["ws"] = "idle" /\ pc["cleanup"] = "idle"
      /\ UNCHANGED <<queues, entries, events, todo, cur>> /\ qs' = queues
      /\ pc'["ws"] = "idle" /\ pc'["cleanup"] = "load"
      /\ todo["cleanup"] = {} /\ cur["cleanup"] = {}
  BY DEF CleanupStart, Undisturbed, Inv, History, WorkInv, ThreadInv, TypeOK, Threads
<1>1. Order' /\ \A u, q : Odd(u, q)' <=> Odd(u, q)
  BY <1>0, EventsSame
<1>2. \A u \in Users : \A q \in queues : Odd(u, q) <=> Has(entries, u, q)
  BY <1>0, CalmBefore DEF Sweeping
<1>3. Match'
  BY <1>0, <1>1, <1>2 DEF Match, InLog, Has, Logging
<1>4. TaskInv'
  BY <1>0 DEF TaskInv, Once, Logging, Work, Threads
<1>. QED  BY <1>1, <1>3, <1>4 DEF History

LEMMA CleanupLoadHistory ==
  ASSUME Undisturbed, CleanupLoad, quiet'
  PROVE  History'
<1>. USE DEF queueVars, entryVars, eventVars
<1>1. PICK p \in qs : /\ qs' = qs \ {p} /\ todo' = [todo EXCEPT !["cleanup"] = EntriesOf(p)]
                      /\ pc' = [pc EXCEPT !["cleanup"] = IF EntriesOf(p) = {} THEN "load" ELSE "count"]
  BY DEF CleanupLoad
<1>0. /\ TypeOK /\ Match /\ Order /\ TaskInv /\ pc["ws"] = "idle" /\ pc["cleanup"] = "load"
      /\ UNCHANGED <<queues, entries, events, left>> /\ UniqueEntries
      /\ pc'["ws"] = "idle" /\ pc'["cleanup"] \in {"load", "count"}
      /\ todo["cleanup"] = {} /\ cur["cleanup"] = {} /\ cur'["cleanup"] = {}
      /\ todo'["cleanup"] = EntriesOf(p) /\ \A e \in entries : e.queue \in queues
  BY <1>1 DEF CleanupLoad, Undisturbed, Inv, Integrity, ForeignKeys, History, WorkInv, ThreadInv,
              TypeOK, Alone, CleanupRuns, Threads
<1>2. Order' /\ \A u, q : Odd(u, q)' <=> Odd(u, q)
  BY <1>0, EventsSame
<1>3. Sweeping /\ Sweeping' /\ ~Logging("ws") /\ ~Logging("ws")'
      /\ Work("cleanup") = {} /\ Work("cleanup")' = EntriesOf(p)
  BY <1>0 DEF Sweeping, Logging, Work
<1>4. ASSUME NEW u, NEW q PROVE InLog(u, q)' <=> InLog(u, q)
  <2>1. Has(entries, u, q)' <=> Has(entries, u, q)
    BY <1>0 DEF Has
  <2>2. ~Has(Work("cleanup"), u, q) /\ (Has(Work("cleanup"), u, q)' <=> Has(EntriesOf(p), u, q))
    BY <1>3 DEF Has
  <2>3. Has(EntriesOf(p), u, q) <=> q = p /\ Has(entries, u, q)
    BY DEF Has, EntriesOf
  <2>. QED  BY <1>1, <1>3, <2>1, <2>2, <2>3 DEF InLog
<1>5. Match'
  BY <1>0, <1>2, <1>4 DEF Match
<1>6. TaskInv'
  <2>1. \A d, e \in EntriesOf(p) : d.user = e.user /\ d.queue = e.queue => d = e
    BY <1>0 DEF UniqueEntries, EntriesOf
  <2>2. \A t \in Threads : Once(t)'
    BY <1>0, <1>3, <2>1 DEF Once, Threads
  <2>3. \A e \in EntriesOf(p) : e.queue \in queues' \ qs'
    BY <1>0, <1>1 DEF EntriesOf
  <2>. QED  BY <1>0, <1>3, <2>2, <2>3 DEF TaskInv
<1>. QED  BY <1>2, <1>5, <1>6 DEF History

LEMMA RemoveAllHistory ==
  ASSUME Undisturbed, RemoveAll, quiet'
  PROVE  History'
<1>. USE DEF queueVars, eventVars, cleanupVars
<1>0. /\ TypeOK /\ Match /\ Order /\ TaskInv /\ pc["ws"] = "idle" /\ pc["cleanup"] = "load"
      /\ UNCHANGED <<queues, events>> /\ entries' = {} /\ qs = {}
      /\ pc'["ws"] = "idle" /\ pc'["cleanup"] = "motds"
      /\ todo["cleanup"] = {} /\ cur["cleanup"] = {}
  BY DEF RemoveAll, Undisturbed, Inv, History, WorkInv, ThreadInv, TypeOK, Alone, CleanupRuns, Threads
<1>1. Order' /\ \A u, q : Odd(u, q)' <=> Odd(u, q)
  BY <1>0, EventsSame
<1>2. \A u, q : ~InLog(u, q)
  BY <1>0 DEF InLog, Sweeping, Work, Has
<1>3. \A u, q : ~InLog(u, q)'
  BY <1>0 DEF InLog, Sweeping, Logging, Has
<1>4. Match'
  BY <1>0, <1>1, <1>2, <1>3 DEF Match
<1>5. TaskInv'
  BY <1>0 DEF TaskInv, Once, Logging, Sweeping, Threads
<1>. QED  BY <1>1, <1>4, <1>5 DEF History

LEMMA ClearAllMotdsHistory ==
  ASSUME Undisturbed, ClearAllMotds, quiet'
  PROVE  History'
<1>. USE DEF entryVars, eventVars
<1>0. /\ TypeOK /\ Match /\ Order /\ pc["ws"] = "idle" /\ pc["cleanup"] = "motds"
      /\ UNCHANGED <<queues, entries, events>>
      /\ pc'["ws"] = "idle" /\ pc'["cleanup"] = "idle"
  BY FinishWork DEF ClearAllMotds, Undisturbed, Inv, History, TypeOK, Alone, CleanupRuns, Threads, WorkStays
<1>1. Order' /\ \A u, q : Odd(u, q)' <=> Odd(u, q)
  BY <1>0, EventsSame
<1>2. \A u \in Users : \A q \in queues : Odd(u, q) <=> Has(entries, u, q)
  BY <1>0, CalmBefore DEF Sweeping
<1>3. \A u \in Users : \A q \in queues' : Odd(u, q)' <=> Has(entries, u, q)'
  BY <1>0, <1>1, <1>2 DEF Has
<1>. QED  BY <1>0, <1>1, <1>3, CalmAfter

LEMMA HistoryNext ==
  ASSUME Inv, LeftInv, WorkInv, Alone, IsFiniteSet(events), quiet => History, [Next]_vars
  PROVE  quiet' => History'
<1>. USE DEF Threads
<1>1. SUFFICES ASSUME quiet' PROVE History'
  OBVIOUS
<1>2. CASE UNCHANGED vars
  <2>1. UNCHANGED <<queues, entries, events, pc, todo, cur, left, qs, quiet>>
    BY <1>2 DEF vars, queueVars, entryVars, eventVars, threadVars, cleanupVars
  <2>2. History
    BY <1>1, <2>1
  <2>. QED  BY <2>1, <2>2 DEF History, Order, Before, EventsOf, Match, Odd, InLog, Has, Work, Logging,
                             Sweeping, TaskInv, Once
<1>3. CASE Failure
  BY <1>1, <1>3 DEF Failure, StatementFails, DeleteFails, CleanupDies, ProcessRestart, Fault
<1>4. CASE Handler
  <2>1. quiet
    BY <1>1, <1>4 DEF Handler, AddQueue, RemoveQueue, Set, UpdateQueueEntry, JoinFind, LeaveFind,
                      PurgeLoad, LoadForRemoval, Request
  <2>. QED  BY <1>1, <1>4, <2>1, HandlerHistory DEF Undisturbed
<1>5. CASE CleanupStart
  BY <1>1, <1>5, CleanupStartHistory DEF CleanupStart, Undisturbed
<1>6. CASE HandlerStep
  <2>1. quiet
    BY <1>1, <1>6 DEF HandlerStep, JoinInsert, Delete, CountHelp, CountPresent, InsertEvent
  <2>. QED  BY <1>1, <1>6, <2>1, JoinInsertHistory, DeleteHistory, CountHistory, EventHistory
            DEF HandlerStep, Undisturbed
<1>7. CASE CleanupStep
  <2>1. quiet
    BY <1>1, <1>7 DEF CleanupStep, CleanupLoad, RemoveAll, ClearAllMotds, CountHelp, CountPresent,
                      InsertEvent, cleanupVars
  <2>. QED  BY <1>1, <1>7, <2>1, CleanupLoadHistory, RemoveAllHistory, ClearAllMotdsHistory,
               CountHistory, EventHistory DEF CleanupStep, Undisturbed
<1>. QED  BY <1>2, <1>3, <1>4, <1>5, <1>6, <1>7 DEF Next

-----------------------------------------------------------------------------
\* The log of a queue is its history, for any numbers of users, queues, entries and nights, as
\* long as no handler ran during a cleanup and nothing failed: the events of a user alternate
\* and the last one tells whether the user queues (joinQueue, leaveQueue, kick and purgeQueue
\* of routes.rs, the cleanup of util.rs, and user_events::create, which they share).
THEOREM LogMatchesQueueCorrect == Spec => []LogMatchesQueue
<1>. DEFINE Others == LeftInv /\ OwedInv /\ JoinCountInv /\ WorkInv /\ CountInv
            All == Others /\ (quiet => History)
<1>1. Init => All
  <2>. SUFFICES ASSUME Init PROVE All
    OBVIOUS
  <2>1. /\ events = {} /\ queues = {} /\ entries = {} /\ IsFiniteSet(events)
        /\ \A t \in Threads : pc[t] = "idle" /\ todo[t] = {} /\ cur[t] = {}
    BY FS_EmptySet DEF Init
  <2>2. LeftInv /\ CountInv
    BY <2>1 DEF LeftInv, CountInv, Alone, Counted, CleanupRuns, Threads
  <2>3. Owed = {}
    BY <2>1 DEF Owed, Threads
  <2>4. WorkInv
    BY <2>1 DEF Init, WorkInv, ThreadInv, HandlerInv, SeenInv, Threads
  <2>5. ASSUME NEW u \in Users, NEW q \in QueueIds PROVE Balance(u, q)
    <3>1. Joins(u, q) = {} /\ Owes(u, q) = 0 /\ inserted[<<u, q>>] = 0
      BY <2>1, <2>3 DEF Init, Joins, EventsOf, Owes
    <3>. QED  BY <3>1, FS_EmptySet DEF Balance
  <2>6. OwedInv /\ JoinCountInv
    BY <2>1, <2>3, <2>5 DEF OwedInv, JoinCountInv
  <2>7. Order
    BY <2>1 DEF Order, EventsOf
  <2>8. Match /\ TaskInv
    BY <2>1 DEF Match, TaskInv, Once, Logging, Sweeping, Threads
  <2>. QED  BY <2>2, <2>4, <2>6, <2>7, <2>8 DEF History
<1>2. Inv /\ All /\ [Next]_vars => All'
  <2>. SUFFICES ASSUME Inv, All, [Next]_vars PROVE All'
    OBVIOUS
  <2>1. LeftInv' /\ OwedInv' /\ JoinCountInv'
    BY JoinNext, JoinCountNext
  <2>2. WorkInv' /\ CountInv'
    BY WorkNext, CountNext DEF Inv
  <2>3. quiet' => History'
    BY HistoryNext DEF JoinCountInv, CountInv
  <2>. QED  BY <2>1, <2>2, <2>3
<1>3. Inv /\ All => LogMatchesQueue
  <2>. SUFFICES ASSUME Inv, History, pc["ws"] = "idle", ~CleanupRuns,
                       NEW u \in Users, NEW q \in queues
                PROVE  /\ \A v \in EventsOf(u, q) :
                            v.left <=> Cardinality({w \in EventsOf(u, q) : w.id < v.id}) % 2 = 1
                       /\ (\E e \in EntriesOf(q) : e.user = u) <=> Cardinality(EventsOf(u, q)) % 2 = 1
    BY DEF LogMatchesQueue
  <2>1. q \in QueueIds /\ TypeOK /\ ~Sweeping
    BY DEF Inv, TypeOK, CleanupRuns, Sweeping
  <2>2. Odd(u, q) <=> Has(entries, u, q)
    BY <2>1, CalmBefore DEF History
  <2>3. Has(entries, u, q) <=> \E e \in EntriesOf(q) : e.user = u
    BY DEF Has, EntriesOf
  <2>. QED  BY <2>1, <2>2, <2>3 DEF History, Order, Before, Odd
<1>. QED  BY <1>1, <1>2, <1>3, Invariance, PTL DEF Spec
===============================================================================
