--------------------------- MODULE QueueServerProofs ---------------------------
(***************************************************************************)
(* Proofs about QueueServer, for any set of users and any bounds.          *)
(***************************************************************************)
EXTENDS QueueServer, FiniteSetTheorems, TLAPS

\* What a joinQueue has found out holds until its INSERT: the queue is there and
\* unlocked, and the next id is still the next.  Only its own thread changes these.
JoinReady ==
  pc["ws"] = "insert" =>
    \A e \in cur["ws"] : e.id = nextEntry /\ e.queue \in queues \ Having("locked")

Inv == TypeOK /\ IsFiniteSet(entries) /\ Integrity /\ JoinReady

-----------------------------------------------------------------------------
(* Type correctness.                                                       *)

\* The counts of user_events::create are numbers.
LEMMA WantingNat ==
  ASSUME IsFiniteSet(entries), NEW q, NEW h
  PROVE  Cardinality(Wanting(q, h)) \in Nat
BY FS_Subset, FS_CardinalityType DEF Wanting, EntriesOf

LEMMA EntriesOfType ==
  ASSUME TypeOK, NEW q
  PROVE  EntriesOf(q) \subseteq entries /\ EntriesOf(q) \subseteq Entry
BY DEF EntriesOf, TypeOK

LEMMA InitInv == Init => Inv
<1> SUFFICES ASSUME Init PROVE Inv
  OBVIOUS
<1>1. TypeOK
  BY BoundsAssumption DEF Init, TypeOK, Threads, PC, NoAmount
<1>2. IsFiniteSet(entries)
  BY FS_EmptySet DEF Init
<1>3. Integrity /\ JoinReady
  BY DEF Init, Integrity, UniqueEntries, UniqueEvents, FreshIds, ForeignKeys, JoinReady, Threads
<1> QED BY <1>1, <1>2, <1>3 DEF Inv

ThreadsOK ==
  /\ pc \in [Threads -> PC["ws"] \cup PC["cleanup"]] /\ \A t \in Threads : pc[t] \in PC[t]
  /\ todo \in [Threads -> SUBSET Entry] /\ cur \in [Threads -> SUBSET Entry]
  /\ left \in [Threads -> BOOLEAN]
  /\ amount \in [Threads -> [help : Nat, present : Nat]]

LEMMA FinishType ==
  ASSUME ThreadsOK, NEW t \in Threads, Finish(t)
  PROVE  ThreadsOK'
BY DEF ThreadsOK, Finish, Threads, PC, NoAmount

LEMMA NextEntryType ==
  ASSUME ThreadsOK, NEW t \in Threads, NextEntry(t)
  PROVE  ThreadsOK'
<1>1. CASE todo[t] = {} /\ t = "ws"
  BY <1>1, FinishType DEF NextEntry
<1>2. CASE ~(todo[t] = {} /\ t = "ws")
  BY <1>2 DEF ThreadsOK, NextEntry, Threads, PC, NoAmount
<1> QED BY <1>1, <1>2

LEMMA TypeNext ==
  ASSUME TypeOK, IsFiniteSet(entries), JoinReady, [Next]_vars
  PROVE  TypeOK'
<1> USE DEF queueVars, entryVars, eventVars, threadVars, cleanupVars, Request, Fault, Threads, PC
<1>1. ASSUME AddQueue PROVE TypeOK'
  BY <1>1, BoundsAssumption DEF AddQueue, TypeOK, QueueIds
<1>2. ASSUME NEW q \in queues, RemoveQueue(q) PROVE TypeOK'
  BY <1>2 DEF RemoveQueue, TypeOK, EntriesOf
<1>3. ASSUME NEW q \in queues, NEW s \in Settings, NEW status \in BOOLEAN, Set(q, s, status)
      PROVE  TypeOK'
  BY <1>3 DEF Set, TypeOK
<1>4. ASSUME NEW u \in Users, NEW q \in queues, NEW h \in Helps, UpdateQueueEntry(u, q, h)
      PROVE  TypeOK'
  BY <1>4, BoundsAssumption DEF UpdateQueueEntry, TypeOK, EntriesOf, Entry
<1>5. ASSUME NEW u \in Users, NEW q \in queues, NEW h \in Helps, JoinFind(u, q, h)
      PROVE  TypeOK'
  BY <1>5, BoundsAssumption DEF JoinFind, TypeOK, Entry, EntryIds
<1>6. ASSUME JoinInsert PROVE TypeOK'
  <2>0. PICK e \in cur["ws"] :
          IF \E d \in EntriesOf(e.queue) : d.user = e.user
          THEN Finish("ws") /\ UNCHANGED entryVars
          ELSE /\ entries' = entries \cup {e}
               /\ nextEntry' = nextEntry + 1
               /\ inserted' = [inserted EXCEPT ![<<e.user, e.queue>>] = @ + 1]
               /\ todo' = [todo EXCEPT !["ws"] = {e}]
               /\ cur' = [cur EXCEPT !["ws"] = {}]
               /\ pc' = [pc EXCEPT !["ws"] = "count"]
               /\ UNCHANGED <<left, amount>>
    BY <1>6 DEF JoinInsert
  <2>1. e \in Entry
    BY <2>0 DEF TypeOK
  <2>2. CASE Finish("ws") /\ UNCHANGED entryVars
    <3>1. ThreadsOK'
      BY <2>2, FinishType DEF TypeOK, ThreadsOK
    <3> QED BY <1>6, <2>2, <3>1 DEF JoinInsert, TypeOK, ThreadsOK
  <2>3. CASE ~\E d \in EntriesOf(e.queue) : d.user = e.user
    <3>1. ThreadsOK'
      BY <2>0, <2>1, <2>3 DEF TypeOK, ThreadsOK
    <3>2. inserted' \in [Users \X QueueIds -> Nat]
      BY <2>0, <2>1, <2>3 DEF TypeOK, Entry
    <3>3. nextEntry = e.id
      BY <1>6, <2>0 DEF JoinInsert, JoinReady
    <3>4. nextEntry' \in 1 .. MaxEntries + 1
      BY <2>0, <2>1, <2>3, <3>3, BoundsAssumption DEF Entry, EntryIds
    <3>5. entries' \subseteq Entry
      BY <2>0, <2>1, <2>3 DEF TypeOK
    <3> QED BY <1>6, <3>1, <3>2, <3>4, <3>5 DEF JoinInsert, TypeOK, ThreadsOK
  <2> QED BY <2>0, <2>2, <2>3
<1>7. ASSUME NEW E \in SUBSET Entry, NEW statement \in {"delete", "remove"},
             LoadForRemoval(E, statement)
      PROVE  TypeOK'
  BY <1>7 DEF LoadForRemoval, TypeOK
<1>8. ASSUME Delete PROVE TypeOK'
  <2>1. ThreadsOK'
    <3>1. CASE todo["ws"] = {}
      BY <1>8, <3>1, FinishType DEF Delete, TypeOK, ThreadsOK
    <3>2. CASE todo["ws"] # {}
      BY <1>8, <3>2 DEF Delete, TypeOK, ThreadsOK
    <3> QED BY <3>1, <3>2
  <2> QED BY <1>8, <2>1 DEF Delete, TypeOK, ThreadsOK
<1>9. ASSUME NEW t \in Threads, CountHelp(t) PROVE TypeOK'
  <2>1. PICK e \in todo[t] :
          /\ cur' = [cur EXCEPT ![t] = {e}]
          /\ todo' = [todo EXCEPT ![t] = @ \ {e}]
          /\ amount' = [amount EXCEPT ![t].help = Cardinality(Wanting(e.queue, TRUE))]
    BY <1>9 DEF CountHelp
  <2>2. Cardinality(Wanting(e.queue, TRUE)) \in Nat
    BY WantingNat
  <2>3. e \in Entry
    BY <2>1 DEF TypeOK
  <2>4. amount' \in [Threads -> [help : Nat, present : Nat]]
    BY <2>1, <2>2 DEF TypeOK
  <2>5. ThreadsOK'
    BY <1>9, <2>1, <2>3, <2>4 DEF CountHelp, TypeOK, ThreadsOK
  <2> QED BY <1>9, <2>5 DEF CountHelp, TypeOK, ThreadsOK
<1>10. ASSUME NEW t \in Threads, CountPresent(t) PROVE TypeOK'
  <2>1. PICK e \in cur[t] :
          amount' = [amount EXCEPT ![t].present = Cardinality(Wanting(e.queue, FALSE))]
    BY <1>10 DEF CountPresent
  <2>2. Cardinality(Wanting(e.queue, FALSE)) \in Nat
    BY WantingNat
  <2>3. amount' \in [Threads -> [help : Nat, present : Nat]]
    BY <2>1, <2>2 DEF TypeOK
  <2> QED BY <1>10, <2>3 DEF CountPresent, TypeOK
<1>11. ASSUME NEW t \in Threads, InsertEvent(t) PROVE TypeOK'
  <2>1. PICK e \in cur[t] :
          IF e.queue \in queues
          THEN /\ events' = events \cup
                    {[id |-> nextEvent, user |-> e.user, queue |-> e.queue, left |-> left[t]]}
               /\ nextEvent' = nextEvent + 1
               /\ NextEntry(t)
          ELSE Finish(t) /\ UNCHANGED eventVars
    BY <1>11 DEF InsertEvent
  <2>2. e \in Entry
    BY <2>1 DEF TypeOK
  <2>3. ThreadsOK'
    BY <2>1, FinishType, NextEntryType DEF TypeOK, ThreadsOK
  <2>4. events' \subseteq Event /\ nextEvent' \in Nat
    BY <2>1, <2>2 DEF TypeOK, Event, Entry
  <2> QED BY <1>11, <2>3, <2>4 DEF InsertEvent, TypeOK, ThreadsOK
<1>12. ASSUME CleanupStart PROVE TypeOK'
  BY <1>12 DEF CleanupStart, TypeOK
<1>13. ASSUME CleanupLoad PROVE TypeOK'
  BY <1>13, EntriesOfType DEF CleanupLoad, TypeOK
<1>14. ASSUME RemoveAll PROVE TypeOK'
  BY <1>14 DEF RemoveAll, TypeOK
<1>15. ASSUME ClearAllMotds PROVE TypeOK'
  BY <1>15 DEF ClearAllMotds, Finish, TypeOK, NoAmount
<1>16. ASSUME Failure PROVE TypeOK'
  <2>1. ThreadsOK'
    <3>1. ASSUME NEW t \in Threads, StatementFails(t) PROVE ThreadsOK'
      BY <3>1, FinishType DEF StatementFails, TypeOK, ThreadsOK
    <3>2. ASSUME DeleteFails PROVE ThreadsOK'
      BY <3>2 DEF DeleteFails, TypeOK, ThreadsOK
    <3>3. ASSUME CleanupDies PROVE ThreadsOK'
      BY <3>3 DEF CleanupDies, TypeOK, ThreadsOK
    <3>4. ASSUME ProcessRestart PROVE ThreadsOK'
      BY <3>4 DEF ProcessRestart, ThreadsOK, NoAmount
    <3> QED BY <1>16, <3>1, <3>2, <3>3, <3>4 DEF Failure
  <2>2. Fault
    BY <1>16 DEF Failure, StatementFails, DeleteFails, CleanupDies, ProcessRestart
  <2>3. faults' \in 0 .. MaxFaults
    BY <2>2, BoundsAssumption DEF TypeOK
  <2> QED BY <2>1, <2>2, <2>3 DEF TypeOK, ThreadsOK
<1>17. CASE UNCHANGED vars
  BY <1>17 DEF vars, TypeOK
<1>18. CASE Handler
  <2>1. ASSUME NEW u \in Users, NEW q \in queues, LeaveFind(u, q) PROVE TypeOK'
    BY <1>7, <2>1, EntriesOfType DEF LeaveFind
  <2>2. ASSUME NEW q \in queues, PurgeLoad(q) PROVE TypeOK'
    BY <1>7, <2>2, EntriesOfType DEF PurgeLoad
  <2> QED BY <1>1, <1>2, <1>3, <1>4, <1>5, <1>18, <2>1, <2>2 DEF Handler
<1> QED
  BY <1>6, <1>8, <1>9, <1>10, <1>11, <1>12, <1>13, <1>14, <1>15, <1>16, <1>17, <1>18
  DEF Next, HandlerStep, CleanupStep

-----------------------------------------------------------------------------
(* The constraints of the tables.                                          *)

\* What a step does to the rows of queue_entries, for all actions alike: it keeps a
\* subset, changes `help` of one, or inserts the entry that joinQueue has prepared.
EntriesStep ==
  \/ entries' \subseteq entries /\ nextEntry' = nextEntry
  \/ \E e \in entries : \E h \in BOOLEAN :
       entries' = (entries \ {e}) \cup {[e EXCEPT !.help = h]} /\ nextEntry' = nextEntry
  \/ /\ pc["ws"] = "insert"
     /\ \E e \in cur["ws"] :
          /\ ~\E d \in entries : d.queue = e.queue /\ d.user = e.user
          /\ entries' = entries \cup {e} /\ nextEntry' = nextEntry + 1
     /\ UNCHANGED queues

LEMMA EntriesNext == [Next]_vars => EntriesStep
<1> SUFFICES ASSUME [Next]_vars PROVE EntriesStep
  OBVIOUS
<1> USE DEF entryVars, Fault
<1>1. ASSUME UNCHANGED entryVars PROVE EntriesStep
  BY <1>1 DEF EntriesStep
<1>2. ASSUME NEW q \in queues, RemoveQueue(q) PROVE EntriesStep
  BY <1>2 DEF RemoveQueue, EntriesStep
<1>3. ASSUME NEW u \in Users, NEW q \in queues, NEW h \in Helps, UpdateQueueEntry(u, q, h)
      PROVE  EntriesStep
  BY <1>3, BoundsAssumption DEF UpdateQueueEntry, EntriesStep, EntriesOf
<1>4. ASSUME JoinInsert PROVE EntriesStep
  BY <1>4 DEF JoinInsert, EntriesStep, EntriesOf, queueVars
<1>5. ASSUME Delete \/ RemoveAll PROVE EntriesStep
  BY <1>5 DEF Delete, RemoveAll, EntriesStep
<1>6. CASE Handler
  BY <1>1, <1>2, <1>3, <1>6
  DEF Handler, AddQueue, Set, JoinFind, LeaveFind, PurgeLoad, LoadForRemoval
<1>7. CASE HandlerStep \/ CleanupStart \/ CleanupStep
  BY <1>1, <1>4, <1>5, <1>7
  DEF HandlerStep, CleanupStep, CountHelp, CountPresent, InsertEvent, CleanupStart,
      CleanupLoad, ClearAllMotds
<1>8. CASE Failure
  BY <1>1, <1>8 DEF Failure, StatementFails, DeleteFails, CleanupDies, ProcessRestart
<1> QED BY <1>1, <1>6, <1>7, <1>8 DEF Next, vars

\* What a step does to the rows of queues.
QueuesStep ==
  \/ UNCHANGED <<queues, nextQueue>>
  \/ queues' = queues \cup {nextQueue} /\ nextQueue' = nextQueue + 1
     /\ UNCHANGED <<entries, events>>
  \/ \E q \in queues :
       /\ queues' = queues \ {q} /\ nextQueue' = nextQueue
       /\ entries' = entries \ EntriesOf(q)
       /\ events' = {v \in events : v.queue # q}

LEMMA QueuesNext == [Next]_vars => QueuesStep
<1> SUFFICES ASSUME [Next]_vars PROVE QueuesStep
  OBVIOUS
<1> USE DEF queueVars, entryVars, eventVars, Fault
<1>1. ASSUME UNCHANGED <<queues, nextQueue>> PROVE QueuesStep
  BY <1>1 DEF QueuesStep
<1>2. CASE Handler
  BY <1>1, <1>2 DEF Handler, QueuesStep, AddQueue, RemoveQueue, Set, UpdateQueueEntry, JoinFind,
     LeaveFind, PurgeLoad, LoadForRemoval
<1>3. CASE HandlerStep \/ CleanupStart \/ CleanupStep
  BY <1>1, <1>3
  DEF HandlerStep, JoinInsert, Delete, CountHelp, CountPresent, InsertEvent, CleanupStart,
      CleanupStep, CleanupLoad, RemoveAll, ClearAllMotds
<1>4. CASE Failure
  BY <1>1, <1>4 DEF Failure, StatementFails, DeleteFails, CleanupDies, ProcessRestart
<1> QED BY <1>1, <1>2, <1>3, <1>4 DEF Next, vars

\* What a step does to the rows of user_events.
EventsStep ==
  \/ events' \subseteq events /\ nextEvent' = nextEvent
  \/ \E v : /\ events' = events \cup {v} /\ nextEvent' = nextEvent + 1
            /\ v.id = nextEvent /\ v.queue \in queues
            /\ UNCHANGED queues

LEMMA EventsNext == [Next]_vars => EventsStep
<1> SUFFICES ASSUME [Next]_vars PROVE EventsStep
  OBVIOUS
<1> USE DEF queueVars, entryVars, eventVars, Fault
<1>1. ASSUME UNCHANGED eventVars PROVE EventsStep
  BY <1>1 DEF EventsStep
<1>2. ASSUME NEW q \in queues, RemoveQueue(q) PROVE EventsStep
  BY <1>2 DEF RemoveQueue, EventsStep
<1>3. ASSUME NEW t \in Threads, InsertEvent(t) PROVE EventsStep
  <2>1. PICK e \in cur[t] :
          IF e.queue \in queues
          THEN /\ events' = events \cup
                    {[id |-> nextEvent, user |-> e.user, queue |-> e.queue, left |-> left[t]]}
               /\ nextEvent' = nextEvent + 1
          ELSE UNCHANGED eventVars
    BY <1>3 DEF InsertEvent
  <2> DEFINE v == [id |-> nextEvent, user |-> e.user, queue |-> e.queue, left |-> left[t]]
  <2>2. v.id = nextEvent /\ v.queue = e.queue
    OBVIOUS
  <2>3. UNCHANGED queues
    BY <1>3 DEF InsertEvent
  <2> HIDE DEF v
  <2> QED BY <1>1, <2>1, <2>2, <2>3 DEF EventsStep, v
<1>4. CASE Handler
  BY <1>1, <1>2, <1>4 DEF Handler, AddQueue, Set, UpdateQueueEntry, JoinFind,
     LeaveFind, PurgeLoad, LoadForRemoval
<1>5. CASE HandlerStep \/ CleanupStart \/ CleanupStep
  BY <1>1, <1>3, <1>5
  DEF HandlerStep, JoinInsert, Delete, CountHelp, CountPresent, CleanupStart,
      CleanupStep, CleanupLoad, RemoveAll, ClearAllMotds, Threads
<1>6. CASE Failure
  BY <1>1, <1>6 DEF Failure, StatementFails, DeleteFails, CleanupDies, ProcessRestart
<1> QED BY <1>1, <1>4, <1>5, <1>6 DEF Next, vars

LEMMA FiniteNext ==
  ASSUME IsFiniteSet(entries), [Next]_vars
  PROVE  IsFiniteSet(entries)'
<1>1. EntriesStep
  BY EntriesNext
<1>2. ASSUME NEW e PROVE IsFiniteSet((entries \ {e}) \cup {e}) /\ IsFiniteSet(entries \cup {e})
  BY FS_AddElement, FS_RemoveElement
<1>3. CASE entries' \subseteq entries
  BY <1>3, FS_Subset
<1>4. ASSUME NEW e, NEW d, entries' = (entries \ {e}) \cup {d} PROVE IsFiniteSet(entries')
  BY <1>4, FS_AddElement, FS_RemoveElement
<1> QED BY <1>1, <1>2, <1>3, <1>4 DEF EntriesStep

\* A row of queue_entries of the next state keeps user and queue of a row with its id,
\* or is the one that joinQueue inserts.
LEMMA EntryOrigin ==
  ASSUME Inv, [Next]_vars, NEW d \in entries'
  PROVE  \/ \E e \in entries : e.id = d.id /\ e.user = d.user /\ e.queue = d.queue
         \/ /\ d.id = nextEntry /\ nextEntry' = nextEntry + 1
            /\ d.queue \in queues \ Having("locked") /\ UNCHANGED queues
            /\ entries' = entries \cup {d}
            /\ ~\E e \in entries : e.queue = d.queue /\ e.user = d.user
<1>1. EntriesStep
  BY EntriesNext
<1>2. entries \subseteq Entry
  BY DEF Inv, TypeOK
<1>3. ASSUME NEW e \in entries, NEW h \in BOOLEAN,
             entries' = (entries \ {e}) \cup {[e EXCEPT !.help = h]}
      PROVE  \E f \in entries : f.id = d.id /\ f.user = d.user /\ f.queue = d.queue
  BY <1>2, <1>3 DEF Entry
<1>4. ASSUME pc["ws"] = "insert", NEW e \in cur["ws"]
      PROVE  e.id = nextEntry /\ e.queue \in queues \ Having("locked")
  BY <1>4 DEF Inv, JoinReady
<1> QED BY <1>1, <1>3, <1>4 DEF EntriesStep

LEMMA EntryIdsGrow ==
  ASSUME Inv, [Next]_vars
  PROVE  nextEntry \in Nat /\ nextEntry' \in {nextEntry, nextEntry + 1}
<1>1. nextEntry \in Nat
  BY BoundsAssumption DEF Inv, TypeOK
<1> QED BY <1>1, EntriesNext DEF EntriesStep

LEMMA IntegrityNext ==
  ASSUME Inv, [Next]_vars
  PROVE  Integrity'
<1> USE DEF Integrity, FreshIds, ForeignKeys
<1>0. /\ EntriesStep /\ QueuesStep /\ EventsStep
      /\ entries \subseteq Entry /\ Integrity
      /\ nextEvent \in Nat /\ \A v \in events : v.id \in Nat
      /\ nextQueue \in Nat /\ queues \subseteq Nat
  BY EntriesNext, QueuesNext, EventsNext, BoundsAssumption DEF Inv, TypeOK, Event, QueueIds
<1>1. UniqueEntries'
  <2>1. CASE entries' \subseteq entries
    BY <1>0, <2>1 DEF UniqueEntries
  <2>2. ASSUME NEW e \in entries, NEW h \in BOOLEAN,
               entries' = (entries \ {e}) \cup {[e EXCEPT !.help = h]}
        PROVE  UniqueEntries'
    <3> DEFINE f == [e EXCEPT !.help = h]
    <3>1. f.id = e.id /\ f.user = e.user /\ f.queue = e.queue
      BY <1>0 DEF Entry
    <3>2. entries' = (entries \ {e}) \cup {f}
      BY <2>2
    <3> HIDE DEF f
    <3> QED BY <1>0, <3>1, <3>2 DEF UniqueEntries
  <2>3. ASSUME pc["ws"] = "insert", NEW e \in cur["ws"],
               ~\E d \in entries : d.queue = e.queue /\ d.user = e.user,
               entries' = entries \cup {e}
        PROVE  UniqueEntries'
    <3>1. e.id = nextEntry
      BY <2>3 DEF Inv, JoinReady
    <3>2. \A d \in entries : d.id # e.id
      BY <1>0, <3>1, EntryIdsGrow
    <3> QED BY <1>0, <2>3, <3>2 DEF UniqueEntries
  <2> QED BY <1>0, <2>1, <2>2, <2>3 DEF EntriesStep
<1>2. \A e \in entries' : e.id < nextEntry'
  BY <1>0, EntryOrigin, EntryIdsGrow DEF Entry, EntryIds
<1>3. \A e \in entries' : e.queue \in queues'
  <2>1. CASE queues \subseteq queues'
    BY <1>0, <2>1, EntryOrigin
  <2>2. ASSUME NEW q \in queues, queues' = queues \ {q}, entries' = entries \ EntriesOf(q)
        PROVE  \A e \in entries' : e.queue \in queues'
    BY <1>0, <2>2 DEF EntriesOf
  <2> QED BY <1>0, <2>1, <2>2 DEF QueuesStep
<1>4. UniqueEvents'
  BY <1>0 DEF EventsStep, UniqueEvents
<1>5. \A v \in events' : v.id < nextEvent'
  BY <1>0 DEF EventsStep
<1>6. \A v \in events' : v.queue \in queues'
  <2>1. CASE queues \subseteq queues'
    BY <1>0, <2>1 DEF EventsStep
  <2>2. ASSUME NEW q \in queues, queues' = queues \ {q},
               events' = {v \in events : v.queue # q}
        PROVE  \A v \in events' : v.queue \in queues'
    BY <1>0, <2>2
  <2> QED BY <1>0, <2>1, <2>2 DEF QueuesStep
<1>7. \A q \in queues' : q < nextQueue'
  <2>1. CASE queues' \subseteq queues /\ nextQueue' = nextQueue
    BY <1>0, <2>1
  <2>2. CASE queues' = queues \cup {nextQueue} /\ nextQueue' = nextQueue + 1
    BY <1>0, <2>2
  <2> QED BY <1>0, <2>1, <2>2 DEF QueuesStep
<1> QED BY <1>1, <1>2, <1>3, <1>4, <1>5, <1>6, <1>7

LEMMA JoinReadyNext ==
  ASSUME Inv, [Next]_vars
  PROVE  JoinReady'
<1> USE DEF queueVars, entryVars, threadVars, cleanupVars, Request, Fault, Threads, Having
<1>1. TypeOK /\ JoinReady
  BY DEF Inv
<1>2. ASSUME pc'["ws"] # "insert" PROVE JoinReady'
  BY <1>2 DEF JoinReady
<1>3. ASSUME pc'["ws"] = pc["ws"], cur'["ws"] = cur["ws"], UNCHANGED <<queues, nextEntry>>,
             "locked" \in Settings => setting'["locked"] = setting["locked"]
      PROVE  JoinReady'
  BY <1>1, <1>3 DEF JoinReady
<1>4. ASSUME NEW u \in Users, NEW q \in queues, NEW h \in Helps, JoinFind(u, q, h)
      PROVE  JoinReady'
  <2>1. cur'["ws"] = {[id |-> nextEntry, user |-> u, queue |-> q, help |-> h]}
    BY <1>1, <1>4 DEF JoinFind, TypeOK
  <2> QED BY <1>4, <2>1 DEF JoinFind, JoinReady
<1>5. CASE Handler
  <2>1. ASSUME pc["ws"] = "idle", UNCHANGED pc PROVE JoinReady'
    BY <1>2, <2>1
  <2>2. ASSUME NEW E, NEW st \in {"delete", "remove"}, LoadForRemoval(E, st) PROVE JoinReady'
    BY <1>1, <1>2, <2>2 DEF LoadForRemoval, TypeOK
  <2> QED
    BY <1>4, <1>5, <2>1, <2>2
    DEF Handler, AddQueue, RemoveQueue, Set, UpdateQueueEntry, LeaveFind, PurgeLoad
<1>6. CASE HandlerStep
  <2>1. ASSUME Finish("ws") PROVE pc'["ws"] = "idle"
    BY <1>1, <2>1 DEF Finish, TypeOK
  <2>2. CASE JoinInsert
    <3>1. pc'["ws"] \in {"idle", "count"}
      BY <1>1, <2>1, <2>2 DEF JoinInsert, TypeOK
    <3> QED BY <1>2, <3>1
  <2>3. CASE Delete
    <3>1. pc'["ws"] \in {"idle", "count"}
      BY <1>1, <2>1, <2>3 DEF Delete, TypeOK
    <3> QED BY <1>2, <3>1
  <2>4. CASE CountHelp("ws") \/ CountPresent("ws")
    BY <1>1, <1>2, <2>4 DEF CountHelp, CountPresent, TypeOK
  <2>5. CASE InsertEvent("ws")
    <3>1. ASSUME NextEntry("ws") PROVE pc'["ws"] \in {"idle", "count", "load"}
      BY <1>1, <2>1, <3>1 DEF NextEntry, TypeOK
    <3>2. pc'["ws"] \in {"idle", "count", "load"}
      BY <2>1, <2>5, <3>1 DEF InsertEvent
    <3> QED BY <1>2, <3>2
  <2> QED BY <1>6, <2>2, <2>3, <2>4, <2>5 DEF HandlerStep
<1>7. CASE CleanupStart \/ CleanupStep
  <2>1. ASSUME Finish("cleanup") PROVE pc'["ws"] = pc["ws"] /\ cur'["ws"] = cur["ws"]
    BY <1>1, <2>1 DEF Finish, TypeOK
  <2>2. CASE CleanupStart \/ CleanupLoad \/ RemoveAll
    BY <1>1, <1>3, <2>2 DEF CleanupStart, CleanupLoad, RemoveAll, TypeOK
  <2>3. CASE ClearAllMotds
    BY <1>1, <1>3, <2>1, <2>3 DEF ClearAllMotds
  <2>4. CASE CountHelp("cleanup") \/ CountPresent("cleanup")
    BY <1>1, <1>3, <2>4 DEF CountHelp, CountPresent, TypeOK
  <2>5. CASE InsertEvent("cleanup")
    <3>1. ASSUME NextEntry("cleanup") PROVE pc'["ws"] = pc["ws"] /\ cur'["ws"] = cur["ws"]
      BY <1>1, <2>1, <3>1 DEF NextEntry, TypeOK
    <3>2. pc'["ws"] = pc["ws"] /\ cur'["ws"] = cur["ws"]
      BY <2>1, <2>5, <3>1 DEF InsertEvent
    <3> QED BY <1>3, <2>5, <3>2 DEF InsertEvent
  <2> QED BY <1>7, <2>2, <2>3, <2>4, <2>5 DEF CleanupStep
<1>8. CASE Failure
  <2>1. UNCHANGED <<queues, nextEntry, setting>>
    BY <1>8 DEF Failure, StatementFails, DeleteFails, CleanupDies, ProcessRestart
  <2>2. ASSUME NEW t \in Threads, Finish(t)
        PROVE  pc'["ws"] = "idle" \/ (pc'["ws"] = pc["ws"] /\ cur'["ws"] = cur["ws"])
    BY <1>1, <2>2 DEF Finish, TypeOK
  <2>3. pc'["ws"] \in {"idle", "count"} \/ (pc'["ws"] = pc["ws"] /\ cur'["ws"] = cur["ws"])
    BY <1>1, <1>8, <2>2
    DEF Failure, StatementFails, DeleteFails, CleanupDies, ProcessRestart, TypeOK
  <2> QED BY <1>2, <1>3, <2>1, <2>3
<1>9. CASE UNCHANGED vars
  BY <1>3, <1>9 DEF vars
<1> QED BY <1>5, <1>6, <1>7, <1>8, <1>9 DEF Next

LEMMA InvNext == Inv /\ [Next]_vars => Inv'
<1> SUFFICES ASSUME Inv, [Next]_vars PROVE Inv'
  OBVIOUS
<1>1. TypeOK'
  BY TypeNext DEF Inv
<1>2. IsFiniteSet(entries)'
  BY FiniteNext DEF Inv
<1> QED BY <1>1, <1>2, IntegrityNext, JoinReadyNext DEF Inv

LEMMA Invariance == Spec => []Inv
BY InitInv, InvNext, PTL DEF Spec

\* The types are right in every state.
THEOREM TypeCorrect == Spec => []TypeOK
<1>1. Inv => TypeOK
  BY DEF Inv
<1> QED BY <1>1, Invariance, PTL

\* The tables satisfy their constraints however the threads' statements interleave.
THEOREM IntegrityCorrect == Spec => []Integrity
<1>1. Inv => Integrity
  BY DEF Inv
<1> QED BY <1>1, Invariance, PTL

\* Nobody enters a queue while it stays locked.
THEOREM LockedQueueFrozenCorrect == Spec => LockedQueueFrozen
<1> DEFINE Frozen ==
      \A q \in Having("locked") \cap Having("locked")' : UsersIn(q)' \subseteq UsersIn(q)
<1>1. ASSUME Inv, [Next]_vars PROVE [Frozen]_vars
  <2> SUFFICES ASSUME NEW q \in Having("locked") \cap Having("locked")',
                      NEW d \in entries', d.queue = q
               PROVE  \E e \in entries : e.queue = q /\ e.user = d.user
    BY DEF UsersIn, EntriesOf
  <2> QED BY <1>1, EntryOrigin
<1> QED BY <1>1, Invariance, PTL DEF Spec, LockedQueueFrozen

-----------------------------------------------------------------------------
(* The counts of an event.                                                 *)

\* Nothing has gone wrong while only one thread is at work.
Alone == quiet => pc["ws"] = "idle" \/ ~CleanupRuns

\* A thread deals with one entry, and what it has counted is still so.
Counted(t) ==
  pc[t] \in {"present", "event"} =>
    \A e \in cur[t] :
      /\ \A d \in cur[t] : d = e
      /\ amount[t].help = Cardinality(Wanting(e.queue, TRUE))
      /\ pc[t] = "event" => amount[t].present = Cardinality(Wanting(e.queue, FALSE))

CountInv == Alone /\ (quiet => \A t \in Threads : Counted(t))

\* A thread that a step leaves where it is
Stays(t) == pc'[t] = pc[t] /\ cur'[t] = cur[t] /\ amount'[t] = amount[t]

LEMMA FinishStep ==
  ASSUME TypeOK, NEW t \in Threads, Finish(t)
  PROVE  pc'[t] = "idle" /\ \A s \in Threads \ {t} : Stays(s)
  BY DEF Finish, TypeOK, Stays

LEMMA NextEntryStep ==
  ASSUME TypeOK, NEW t \in Threads, NextEntry(t)
  PROVE  pc'[t] \in {"idle", "load", "count"} /\ \A s \in Threads \ {t} : Stays(s)
<1>1. CASE todo[t] = {} /\ t = "ws"
  BY <1>1, FinishStep DEF NextEntry
<1>2. CASE ~(todo[t] = {} /\ t = "ws")
  BY <1>2 DEF NextEntry, TypeOK, Stays
<1>. QED  BY <1>1, <1>2

\* What a step does to the threads: one of them moves, or a request is taken up.
ThreadsStep ==
  \/ \A t \in Threads : Stays(t) /\ entries' = entries /\ (quiet' => quiet)
  \/ /\ pc["ws"] = "idle" /\ (quiet' => quiet /\ ~CleanupRuns)
     /\ pc'["ws"] \notin {"present", "event"} /\ pc'["cleanup"] = pc["cleanup"]
  \/ /\ pc["cleanup"] = "idle" /\ (quiet' => quiet /\ pc["ws"] = "idle")
     /\ pc'["cleanup"] = "load" /\ Stays("ws") /\ entries' = entries
  \/ \E t \in Threads :
       /\ pc[t] \notin {"idle", "dead"} /\ quiet' = quiet
       /\ \A s \in Threads \ {t} : Stays(s)
       /\ pc'[t] \notin {"present", "event"} \/ CountHelp(t) \/ CountPresent(t)
  \/ quiet' = FALSE

LEMMA ThreadsNext == ASSUME TypeOK, [Next]_vars PROVE ThreadsStep
<1>. USE DEF entryVars, threadVars, cleanupVars, Request, Threads
<1>1. CASE Handler
  <2>1. ASSUME NEW u \in Users, NEW q \in queues, NEW h \in Helps, JoinFind(u, q, h)
        PROVE  ThreadsStep
    BY <2>1 DEF JoinFind, TypeOK, ThreadsStep
  <2>2. ASSUME NEW E, NEW st \in {"delete", "remove"}, LoadForRemoval(E, st) PROVE ThreadsStep
    BY <2>2 DEF LoadForRemoval, TypeOK, ThreadsStep
  <2>3. ASSUME Request, UNCHANGED pc PROVE ThreadsStep
    BY <2>3 DEF ThreadsStep
  <2>. QED  BY <1>1, <2>1, <2>2, <2>3 DEF Handler, AddQueue, RemoveQueue, Set, UpdateQueueEntry,
            LeaveFind, PurgeLoad
<1>2. CASE JoinInsert
  <2>1. /\ pc["ws"] = "insert" /\ quiet' = quiet
        /\ Finish("ws") \/ (pc' = [pc EXCEPT !["ws"] = "count"] /\ cur' = [cur EXCEPT !["ws"] = {}]
                           /\ amount' = amount)
    BY <1>2 DEF JoinInsert
  <2>2. pc'["ws"] \in {"idle", "count"} /\ Stays("cleanup")
    BY <2>1, FinishStep DEF TypeOK, Stays
  <2>. QED  BY <2>1, <2>2 DEF ThreadsStep
<1>3. CASE Delete
  <2>1. /\ pc["ws"] \in {"delete", "remove"} /\ quiet' = quiet
        /\ Finish("ws") \/ (pc' = [pc EXCEPT !["ws"] = "count"] /\ UNCHANGED <<cur, amount>>)
    BY <1>3 DEF Delete
  <2>2. pc'["ws"] \in {"idle", "count"} /\ Stays("cleanup")
    BY <2>1, FinishStep DEF TypeOK, Stays
  <2>. QED  BY <2>1, <2>2 DEF ThreadsStep
<1>4. ASSUME NEW t \in Threads, CountHelp(t) \/ CountPresent(t) PROVE ThreadsStep
  <2>1. pc[t] \in {"count", "present"} /\ quiet' = quiet /\ \A s \in Threads \ {t} : Stays(s)
    BY <1>4 DEF CountHelp, CountPresent, TypeOK, Stays
  <2>. QED  BY <1>4, <2>1 DEF ThreadsStep
<1>5. ASSUME NEW t \in Threads, InsertEvent(t) PROVE ThreadsStep
  <2>1. pc[t] = "event" /\ quiet' = quiet /\ (NextEntry(t) \/ Finish(t))
    BY <1>5 DEF InsertEvent
  <2>2. pc'[t] \in {"idle", "load", "count"} /\ \A s \in Threads \ {t} : Stays(s)
    BY <2>1, FinishStep, NextEntryStep
  <2>. QED  BY <2>1, <2>2 DEF ThreadsStep
<1>6. CASE CleanupStart
  BY <1>6 DEF CleanupStart, TypeOK, ThreadsStep, Stays
<1>7. CASE CleanupLoad \/ RemoveAll
  <2>1. /\ pc["cleanup"] = "load" /\ quiet' = quiet /\ UNCHANGED <<cur, amount>>
        /\ \E st \in {"load", "count", "motds"} : pc' = [pc EXCEPT !["cleanup"] = st]
    BY <1>7 DEF CleanupLoad, RemoveAll
  <2>2. pc'["cleanup"] \in {"load", "count", "motds"} /\ Stays("ws")
    BY <2>1 DEF TypeOK, Stays
  <2>. QED  BY <2>1, <2>2 DEF ThreadsStep
<1>8. CASE ClearAllMotds
  <2>1. pc["cleanup"] = "motds" /\ quiet' = quiet /\ Finish("cleanup")
    BY <1>8 DEF ClearAllMotds
  <2>2. pc'["cleanup"] = "idle" /\ Stays("ws")
    BY <2>1, FinishStep
  <2>. QED  BY <2>1, <2>2 DEF ThreadsStep
<1>9. CASE Failure
  BY <1>9 DEF Failure, StatementFails, DeleteFails, CleanupDies, ProcessRestart, Fault, ThreadsStep
<1>10. CASE UNCHANGED vars
  BY <1>10 DEF vars, ThreadsStep, Stays
<1>. QED  BY <1>1, <1>2, <1>3, <1>4, <1>5, <1>6, <1>7, <1>8, <1>9, <1>10
          DEF Next, HandlerStep, CleanupStep

LEMMA CountStep ==
  ASSUME TypeOK, NEW t \in Threads, CountHelp(t) \/ CountPresent(t), Counted(t)
  PROVE  Counted(t)'
<1>. USE DEF entryVars
<1>1. entries' = entries /\ amount \in [Threads -> [help : Nat, present : Nat]]
      /\ pc \in [Threads -> PC["ws"] \cup PC["cleanup"]] /\ cur \in [Threads -> SUBSET Entry]
  BY DEF CountHelp, CountPresent, TypeOK
<1>2. \A q, h : Wanting(q, h)' = Wanting(q, h)
  BY <1>1 DEF Wanting, EntriesOf
<1>3. CASE CountHelp(t)
  <2>1. PICK e \in todo[t] :
          /\ cur' = [cur EXCEPT ![t] = {e}]
          /\ amount' = [amount EXCEPT ![t].help = Cardinality(Wanting(e.queue, TRUE))]
    BY <1>3 DEF CountHelp
  <2>2. pc'[t] = "present"
    BY <1>1, <1>3 DEF CountHelp
  <2>3. cur'[t] = {e} /\ amount'[t].help = Cardinality(Wanting(e.queue, TRUE))
    BY <1>1, <2>1
  <2>. QED  BY <1>2, <2>2, <2>3 DEF Counted
<1>4. CASE CountPresent(t)
  <2>1. PICK e \in cur[t] :
          amount' = [amount EXCEPT ![t].present = Cardinality(Wanting(e.queue, FALSE))]
    BY <1>4 DEF CountPresent
  <2>2. pc[t] = "present" /\ cur' = cur
    BY <1>4 DEF CountPresent
  <2>3. amount'[t].help = amount[t].help
        /\ amount'[t].present = Cardinality(Wanting(e.queue, FALSE))
    BY <1>1, <2>1
  <2>. QED  BY <1>2, <1>4, <2>2, <2>3 DEF Counted
<1>. QED  BY <1>3, <1>4

LEMMA CountNext ==
  ASSUME TypeOK, CountInv, [Next]_vars
  PROVE  CountInv'
<1>1. ThreadsStep
  BY ThreadsNext
<1>2. ASSUME NEW t \in Threads, Stays(t), entries' = entries, Counted(t)
      PROVE  Counted(t)'
  <2>1. \A q, h : Wanting(q, h)' = Wanting(q, h)
    BY <1>2 DEF Wanting, EntriesOf
  <2>. QED  BY <1>2, <2>1 DEF Counted, Stays
<1>3. ASSUME NEW t \in Threads, pc'[t] \notin {"present", "event"} PROVE Counted(t)'
  BY <1>3 DEF Counted
<1>4. SUFFICES ASSUME quiet' PROVE (pc["ws"] = "idle" \/ ~CleanupRuns)' /\ \A t \in Threads : Counted(t)'
  BY DEF CountInv, Alone
<1>5. CASE \A t \in Threads : Stays(t) /\ entries' = entries /\ (quiet' => quiet)
  BY <1>2, <1>4, <1>5 DEF CountInv, Alone, Stays, CleanupRuns, Threads
<1>6. CASE /\ pc["ws"] = "idle" /\ (quiet' => quiet /\ ~CleanupRuns)
           /\ pc'["ws"] \notin {"present", "event"} /\ pc'["cleanup"] = pc["cleanup"]
  BY <1>3, <1>4, <1>6 DEF CleanupRuns, Threads
<1>7. CASE /\ pc["cleanup"] = "idle" /\ (quiet' => quiet /\ pc["ws"] = "idle")
           /\ pc'["cleanup"] = "load" /\ Stays("ws") /\ entries' = entries
  BY <1>3, <1>4, <1>7 DEF Stays, CleanupRuns, Threads
<1>8. ASSUME NEW t \in Threads, pc[t] \notin {"idle", "dead"}, quiet' = quiet,
             \A s \in Threads \ {t} : Stays(s),
             pc'[t] \notin {"present", "event"} \/ CountHelp(t) \/ CountPresent(t)
      PROVE  (pc["ws"] = "idle" \/ ~CleanupRuns)' /\ \A s \in Threads : Counted(s)'
  <2>1. pc["ws"] = "idle" \/ ~CleanupRuns
    BY <1>4, <1>8 DEF CountInv, Alone
  <2>2. \A s \in Threads \ {t} : pc'[s] = pc[s] /\ pc[s] \in {"idle", "dead"}
    BY <1>8, <2>1 DEF Stays, CleanupRuns, Threads
  <2>3. pc["ws"] # "dead"
    BY DEF TypeOK, Threads, PC
  <2>4. Counted(t)'
    BY <1>3, <1>4, <1>8, CountStep DEF CountInv
  <2>5. (pc["ws"] = "idle" \/ ~CleanupRuns)'
    BY <2>2, <2>3 DEF CleanupRuns, Threads
  <2>. QED  BY <1>3, <2>2, <2>4, <2>5
<1>. QED  BY <1>1, <1>4, <1>5, <1>6, <1>7, <1>8 DEF ThreadsStep

\* The counts in an event are exact as long as the threads take turns, although two
\* statements read them and a third writes them.
THEOREM CountsExactCorrect == Spec => []CountsExact
<1>1. Init => CountInv
  BY DEF Init, CountInv, Alone, Counted, CleanupRuns, Threads
<1>2. TypeOK /\ CountInv => CountsExact
  <2>. SUFFICES ASSUME TypeOK, CountInv, quiet, NEW t \in Threads, pc[t] = "event", NEW e \in cur[t]
                PROVE  amount[t] = [help    |-> Cardinality(Wanting(e.queue, TRUE)),
                                    present |-> Cardinality(Wanting(e.queue, FALSE))]
    BY DEF CountsExact
  <2>1. amount[t] \in [help : Nat, present : Nat]
    BY DEF TypeOK
  <2>2. /\ amount[t].help = Cardinality(Wanting(e.queue, TRUE))
        /\ amount[t].present = Cardinality(Wanting(e.queue, FALSE))
    BY DEF CountInv, Counted
  <2>. QED  BY <2>1, <2>2
<1>3. TypeOK /\ CountInv /\ [Next]_vars => CountInv'
  BY CountNext
<1>. QED  BY <1>1, <1>2, <1>3, TypeCorrect, PTL DEF Spec

-----------------------------------------------------------------------------
(* The joins in the log.                                                   *)

\* The entry of a joinQueue that is inserted and whose event is not yet written
Owed ==
  IF pc["ws"] \in {"count", "present", "event"} /\ ~left["ws"] THEN todo["ws"] \cup cur["ws"]
  ELSE {}

\* A handler that inserts writes a join, one that removes and the cleanup write leavings.
LeftInv ==
  /\ pc["ws"] = "insert" => ~left["ws"]
  /\ pc["ws"] \in {"delete", "remove"} => left["ws"]
  /\ CleanupRuns => left["cleanup"]

OwedInv ==
  /\ \A d, e \in Owed : d = e
  /\ \A e \in Owed : e.queue \in queues
  /\ Owed # {} /\ pc["ws"] = "count" => cur["ws"] = {}
  /\ Owed # {} /\ pc["ws"] # "count" => todo["ws"] = {}

Logged(e, l) == [id |-> nextEvent, user |-> e.user, queue |-> e.queue, left |-> l]

\* What a step does to the log of joins, to what is owed to it and to the entries counted.
JoinStep ==
  \/ /\ Owed' \in {Owed, {}} /\ UNCHANGED <<events, inserted>>
     /\ faults' = faults + 1
  \/ /\ Owed' = Owed /\ UNCHANGED <<inserted, faults>>
     /\ events' = events \/ \E e \in Entry : events' = events \cup {Logged(e, TRUE)}
  \/ \E e \in Entry :
       /\ Owed = {} /\ Owed' = {e} /\ e.queue \in queues
       /\ inserted' = [inserted EXCEPT ![<<e.user, e.queue>>] = @ + 1]
       /\ UNCHANGED <<events, faults>>
  \/ \E e \in Entry :
       /\ Owed = {e} /\ Owed' = {}
       /\ events' = events \cup {Logged(e, FALSE)}
       /\ UNCHANGED <<inserted, faults>>
  \/ \E q \in QueueIds :
       /\ Owed = {} /\ Owed' = {}
       /\ events' = {v \in events : v.queue # q}
       /\ inserted' = [x \in DOMAIN inserted |-> IF x[2] = q THEN 0 ELSE inserted[x]]
       /\ UNCHANGED faults

LEMMA FinishOwes ==
  ASSUME TypeOK, NEW t \in Threads, Finish(t)
  PROVE  /\ pc'[t] = "idle" /\ ~left'[t]
         /\ \A s \in Threads \ {t} : pc'[s] = pc[s] /\ left'[s] = left[s]
                                    /\ todo'[s] = todo[s] /\ cur'[s] = cur[s]
BY DEF Finish, TypeOK

\* The web socket thread is where it was.
WsStays == pc'["ws"] = pc["ws"] /\ left'["ws"] = left["ws"] /\ todo'["ws"] = todo["ws"]
           /\ cur'["ws"] = cur["ws"]
CleanupStays == pc'["cleanup"] = pc["cleanup"] /\ left'["cleanup"] = left["cleanup"]

LEMMA JoinNext ==
  ASSUME Inv, LeftInv, OwedInv, [Next]_vars
  PROVE  LeftInv' /\ OwedInv' /\ JoinStep
<1>. USE DEF queueVars, entryVars, eventVars, cleanupVars, threadVars, Request, Threads
<1>0. TypeOK /\ JoinReady
  BY DEF Inv
<1>1. ASSUME WsStays, CleanupRuns' => left'["cleanup"], queues' = queues,
             UNCHANGED <<inserted, faults>>,
             events' = events \/ \E e \in Entry : events' = events \cup {Logged(e, TRUE)}
      PROVE  LeftInv' /\ OwedInv' /\ JoinStep
  <2>1. Owed' = Owed
    BY <1>1 DEF Owed, WsStays
  <2>2. LeftInv'
    BY <1>1 DEF LeftInv, WsStays
  <2>3. OwedInv'
    BY <1>1, <2>1 DEF OwedInv, WsStays
  <2>. QED  BY <1>1, <2>1, <2>2, <2>3 DEF JoinStep
<1>2. ASSUME pc["ws"] = "idle", CleanupStays, pc'["ws"] \in {"idle", "insert", "delete", "remove"},
             pc'["ws"] = "insert" => ~left'["ws"], pc'["ws"] \in {"delete", "remove"} => left'["ws"],
             UNCHANGED <<events, inserted, faults>>
      PROVE  LeftInv' /\ OwedInv' /\ JoinStep
  <2>1. Owed = {} /\ Owed' = {}
    BY <1>2 DEF Owed
  <2>. QED  BY <1>2, <2>1 DEF LeftInv, OwedInv, JoinStep, CleanupRuns, CleanupStays
<1>3. ASSUME NEW u \in Users, NEW q \in queues, NEW h \in Helps,
             JoinFind(u, q, h) \/ UpdateQueueEntry(u, q, h)
      PROVE  LeftInv' /\ OwedInv' /\ JoinStep
  <2>1. CASE JoinFind(u, q, h)
    <3>1. /\ pc["ws"] = "idle" /\ CleanupStays /\ pc'["ws"] = "insert" /\ ~left'["ws"]
          /\ UNCHANGED <<events, inserted, faults>>
      BY <1>0, <2>1 DEF JoinFind, TypeOK, CleanupStays
    <3>. QED  BY <1>2, <3>1
  <2>2. CASE UpdateQueueEntry(u, q, h)
    BY <1>2, <2>2 DEF UpdateQueueEntry, CleanupStays
  <2>. QED  BY <1>3, <2>1, <2>2
<1>4. ASSUME NEW E, NEW st \in {"delete", "remove"}, LoadForRemoval(E, st)
      PROVE  LeftInv' /\ OwedInv' /\ JoinStep
  <2>1. /\ pc["ws"] = "idle" /\ CleanupStays /\ pc'["ws"] \in {"delete", "remove"} /\ left'["ws"]
        /\ UNCHANGED <<events, inserted, faults>>
    BY <1>0, <1>4 DEF LoadForRemoval, TypeOK, CleanupStays
  <2>. QED  BY <1>2, <2>1
<1>5. ASSUME NEW q \in queues, RemoveQueue(q) PROVE LeftInv' /\ OwedInv' /\ JoinStep
  <2>1. /\ pc["ws"] = "idle" /\ UNCHANGED <<threadVars, faults>> /\ q \in QueueIds
        /\ events' = {v \in events : v.queue # q}
        /\ inserted' = [x \in DOMAIN inserted |-> IF x[2] = q THEN 0 ELSE inserted[x]]
    BY <1>0, <1>5 DEF RemoveQueue, TypeOK
  <2>2. Owed = {} /\ Owed' = {}
    BY <2>1 DEF Owed
  <2>. QED  BY <2>1, <2>2 DEF LeftInv, OwedInv, JoinStep, CleanupRuns
<1>6. CASE Handler
  <2>1. ASSUME AddQueue \/ \E q \in queues, s \in Settings, status \in BOOLEAN : Set(q, s, status)
        PROVE  LeftInv' /\ OwedInv' /\ JoinStep
    BY <1>2, <2>1 DEF AddQueue, Set, CleanupStays
  <2>. QED  BY <1>3, <1>4, <1>5, <1>6, <2>1 DEF Handler, LeaveFind, PurgeLoad
<1>7. ASSUME pc["ws"] # "event" \/ left["ws"], pc'["ws"] = "idle", CleanupStays, queues' = queues,
             Owed = {}, UNCHANGED <<inserted, faults>>,
             events' = events \/ \E e \in Entry : events' = events \cup {Logged(e, TRUE)}
      PROVE  LeftInv' /\ OwedInv' /\ JoinStep
  <2>1. Owed' = {}
    BY <1>7 DEF Owed
  <2>. QED  BY <1>7, <2>1 DEF LeftInv, OwedInv, JoinStep, CleanupRuns, CleanupStays
<1>8. CASE JoinInsert
  <2>1. PICK e \in cur["ws"] :
          \/ Finish("ws") /\ UNCHANGED entryVars
          \/ /\ inserted' = [inserted EXCEPT ![<<e.user, e.queue>>] = @ + 1]
             /\ todo' = [todo EXCEPT !["ws"] = {e}] /\ cur' = [cur EXCEPT !["ws"] = {}]
             /\ pc' = [pc EXCEPT !["ws"] = "count"] /\ UNCHANGED left
    BY <1>8 DEF JoinInsert
  <2>2. pc["ws"] = "insert" /\ UNCHANGED <<queues, events, faults>>
    BY <1>8 DEF JoinInsert
  <2>3. ~left["ws"] /\ Owed = {} /\ e \in Entry /\ e.queue \in queues
    BY <1>0, <2>2 DEF LeftInv, Owed, JoinReady, TypeOK
  <2>4. CASE Finish("ws") /\ UNCHANGED entryVars
    <3>1. pc'["ws"] = "idle" /\ CleanupStays
      BY <1>0, <2>4, FinishOwes DEF CleanupStays
    <3>. QED  BY <1>7, <2>2, <2>3, <2>4, <3>1
  <2>5. CASE /\ inserted' = [inserted EXCEPT ![<<e.user, e.queue>>] = @ + 1]
             /\ todo' = [todo EXCEPT !["ws"] = {e}] /\ cur' = [cur EXCEPT !["ws"] = {}]
             /\ pc' = [pc EXCEPT !["ws"] = "count"] /\ UNCHANGED left
    <3>1. /\ pc'["ws"] = "count" /\ todo'["ws"] = {e} /\ cur'["ws"] = {} /\ ~left'["ws"]
          /\ CleanupStays
      BY <1>0, <2>3, <2>5 DEF TypeOK, CleanupStays
    <3>2. Owed' = {e}
      BY <3>1 DEF Owed
    <3>3. JoinStep
      BY <2>2, <2>3, <2>5, <3>2 DEF JoinStep
    <3>4. LeftInv' /\ OwedInv'
      BY <2>2, <2>3, <3>1, <3>2 DEF LeftInv, OwedInv, CleanupRuns, CleanupStays
    <3>. QED  BY <3>3, <3>4
  <2>. QED  BY <2>1, <2>4, <2>5
<1>9. CASE Delete
  <2>1. /\ pc["ws"] \in {"delete", "remove"} /\ UNCHANGED <<queues, events, inserted, faults>>
        /\ Finish("ws") \/ (pc' = [pc EXCEPT !["ws"] = "count"] /\ UNCHANGED left)
    BY <1>9 DEF Delete
  <2>2. left["ws"] /\ Owed = {}
    BY <2>1 DEF LeftInv, Owed
  <2>3. CASE Finish("ws")
    <3>1. pc'["ws"] = "idle" /\ CleanupStays
      BY <1>0, <2>3, FinishOwes DEF CleanupStays
    <3>. QED  BY <1>7, <2>1, <2>2, <3>1
  <2>4. CASE pc' = [pc EXCEPT !["ws"] = "count"] /\ UNCHANGED left
    <3>1. pc'["ws"] = "count" /\ left'["ws"] /\ CleanupStays
      BY <1>0, <2>2, <2>4 DEF TypeOK, CleanupStays
    <3>2. Owed' = {}
      BY <3>1 DEF Owed
    <3>. QED  BY <2>1, <2>2, <3>1, <3>2
              DEF LeftInv, OwedInv, JoinStep, CleanupRuns, CleanupStays
  <2>. QED  BY <2>1, <2>3, <2>4
<1>10. CASE CountHelp("ws")
  <2>1. PICK e \in todo["ws"] : cur' = [cur EXCEPT !["ws"] = {e}]
                                /\ todo' = [todo EXCEPT !["ws"] = @ \ {e}]
    BY <1>10 DEF CountHelp
  <2>2. /\ pc["ws"] = "count" /\ pc'["ws"] = "present" /\ CleanupStays
        /\ UNCHANGED <<left, queues, events, inserted, faults>>
        /\ cur'["ws"] = {e} /\ todo'["ws"] = todo["ws"] \ {e}
    BY <1>0, <1>10, <2>1 DEF CountHelp, TypeOK, CleanupStays
  <2>3. CASE left["ws"]
    BY <2>2, <2>3 DEF Owed, LeftInv, OwedInv, JoinStep, CleanupRuns, CleanupStays
  <2>4. CASE ~left["ws"]
    <3>1. Owed = todo["ws"] \cup cur["ws"] /\ Owed = {e} /\ cur["ws"] = {}
      BY <2>2, <2>4 DEF Owed, OwedInv
    <3>2. Owed' = {e} /\ todo'["ws"] = {}
      BY <2>2, <2>4, <3>1 DEF Owed
    <3>. QED  BY <2>2, <2>4, <3>1, <3>2
              DEF LeftInv, OwedInv, JoinStep, CleanupRuns, CleanupStays
  <2>. QED  BY <2>3, <2>4
<1>11. CASE CountPresent("ws")
  <2>1. /\ pc["ws"] = "present" /\ pc'["ws"] = "event" /\ CleanupStays
        /\ UNCHANGED <<left, todo, cur, queues, events, inserted, faults>>
    BY <1>0, <1>11 DEF CountPresent, TypeOK, CleanupStays
  <2>2. Owed' = Owed
    BY <2>1 DEF Owed
  <2>. QED  BY <2>1, <2>2 DEF LeftInv, OwedInv, JoinStep, CleanupRuns, CleanupStays
<1>12. CASE InsertEvent("ws")
  <2>1. PICK e \in cur["ws"] :
          IF e.queue \in queues
          THEN events' = events \cup {Logged(e, left["ws"])} /\ NextEntry("ws")
          ELSE Finish("ws") /\ UNCHANGED eventVars
    BY <1>12 DEF InsertEvent, Logged
  <2>2. /\ pc["ws"] = "event" /\ UNCHANGED <<queues, inserted, faults>> /\ e \in Entry
        /\ left["ws"] \in BOOLEAN
    BY <1>0, <1>12 DEF InsertEvent, TypeOK
  <2>3. CASE left["ws"]
    <3>1. Owed = {}
      BY <2>3 DEF Owed
    <3>2. Logged(e, left["ws"]) = Logged(e, TRUE)
      BY <2>2, <2>3
    <3>3. CASE Finish("ws")
      <4>1. pc'["ws"] = "idle" /\ CleanupStays
        BY <1>0, <3>3, FinishOwes DEF CleanupStays
      <4>. QED  BY <1>7, <2>1, <2>2, <2>3, <3>1, <3>2, <4>1
    <3>4. CASE ~Finish("ws")
      <4>1. /\ NextEntry("ws") /\ events' = events \cup {Logged(e, TRUE)}
        BY <2>1, <3>2, <3>4
      <4>2. pc'["ws"] = "count" /\ left'["ws"] /\ CleanupStays
        BY <1>0, <2>3, <3>4, <4>1 DEF NextEntry, TypeOK, CleanupStays
      <4>3. Owed' = {}
        BY <4>2 DEF Owed
      <4>. QED  BY <2>2, <3>1, <4>1, <4>2, <4>3
                DEF LeftInv, OwedInv, JoinStep, CleanupRuns, CleanupStays
    <3>. QED  BY <3>3, <3>4
  <2>4. CASE ~left["ws"]
    <3>1. Owed = {e} /\ todo["ws"] = {} /\ e.queue \in queues
      BY <2>2, <2>4 DEF Owed, OwedInv
    <3>2. Finish("ws") /\ events' = events \cup {Logged(e, FALSE)}
      <4>1. Logged(e, left["ws"]) = Logged(e, FALSE)
        BY <2>2, <2>4
      <4>. QED  BY <2>1, <3>1, <4>1 DEF NextEntry
    <3>3. pc'["ws"] = "idle" /\ CleanupStays
      BY <1>0, <3>2, FinishOwes DEF CleanupStays
    <3>4. Owed' = {}
      BY <3>3 DEF Owed
    <3>. QED  BY <2>2, <3>1, <3>2, <3>3, <3>4
              DEF LeftInv, OwedInv, JoinStep, CleanupRuns, CleanupStays
  <2>. QED  BY <2>3, <2>4
<1>13. CASE CleanupStart
  <2>1. WsStays /\ left'["cleanup"]
    BY <1>0, <1>13 DEF CleanupStart, TypeOK, WsStays
  <2>. QED  BY <1>1, <1>13, <2>1 DEF CleanupStart
<1>14. CASE CleanupLoad \/ RemoveAll
  <2>1. /\ WsStays /\ CleanupRuns /\ left'["cleanup"] = left["cleanup"]
        /\ UNCHANGED <<queues, inserted, faults, events>>
    BY <1>0, <1>14 DEF CleanupLoad, RemoveAll, TypeOK, WsStays, CleanupRuns
  <2>. QED  BY <1>1, <2>1 DEF LeftInv
<1>15. CASE ClearAllMotds
  <2>1. WsStays /\ pc'["cleanup"] = "idle"
    BY <1>0, <1>15, FinishOwes DEF ClearAllMotds, WsStays
  <2>. QED  BY <1>1, <1>15, <2>1 DEF ClearAllMotds, CleanupRuns
<1>16. CASE CountHelp("cleanup") \/ CountPresent("cleanup")
  <2>1. /\ WsStays /\ CleanupRuns /\ left' = left
        /\ UNCHANGED <<queues, inserted, faults, events>>
    BY <1>0, <1>16 DEF CountHelp, CountPresent, TypeOK, WsStays, CleanupRuns
  <2>. QED  BY <1>1, <2>1 DEF LeftInv
<1>17. CASE InsertEvent("cleanup")
  <2>1. PICK e \in cur["cleanup"] :
          IF e.queue \in queues
          THEN events' = events \cup {Logged(e, left["cleanup"])} /\ NextEntry("cleanup")
          ELSE Finish("cleanup") /\ UNCHANGED eventVars
    BY <1>17 DEF InsertEvent, Logged
  <2>2. /\ pc["cleanup"] = "event" /\ UNCHANGED <<queues, inserted, faults>> /\ e \in Entry
        /\ left["cleanup"] \in BOOLEAN
    BY <1>0, <1>17 DEF InsertEvent, TypeOK
  <2>3. left["cleanup"]
    BY <2>2 DEF LeftInv, CleanupRuns
  <2>4. Logged(e, left["cleanup"]) = Logged(e, TRUE)
    BY <2>2, <2>3
  <2>5. CASE Finish("cleanup")
    <3>1. WsStays /\ pc'["cleanup"] = "idle"
      BY <1>0, <2>5, FinishOwes DEF WsStays
    <3>. QED  BY <1>1, <2>1, <2>2, <2>4, <3>1 DEF CleanupRuns
  <2>6. CASE ~Finish("cleanup")
    <3>1. /\ NextEntry("cleanup") /\ events' = events \cup {Logged(e, TRUE)}
      BY <2>1, <2>4, <2>6
    <3>2. WsStays /\ left'["cleanup"]
      BY <1>0, <2>3, <2>6, <3>1 DEF NextEntry, TypeOK, WsStays
    <3>. QED  BY <1>1, <2>2, <3>1, <3>2
  <2>. QED  BY <2>5, <2>6
<1>18. CASE Failure
  <2>0. UNCHANGED <<queues, events, inserted>> /\ faults' = faults + 1
    BY <1>18 DEF Failure, StatementFails, DeleteFails, CleanupDies, ProcessRestart, Fault
  <2>1. ASSUME Owed' = {} \/ WsStays, LeftInv' PROVE LeftInv' /\ OwedInv' /\ JoinStep
    <3>1. CASE Owed' = {}
      BY <2>0, <2>1, <3>1 DEF OwedInv, JoinStep
    <3>2. CASE WsStays
      <4>1. Owed' = Owed
        BY <3>2 DEF WsStays, Owed
      <4>. QED  BY <2>0, <2>1, <3>2, <4>1 DEF OwedInv, JoinStep, WsStays
    <3>. QED  BY <2>1, <3>1, <3>2
  <2>2. CASE StatementFails("ws") \/ ProcessRestart
    <3>1. pc'["ws"] = "idle" /\ (CleanupStays \/ pc'["cleanup"] = "idle")
      BY <1>0, <2>2, FinishOwes DEF StatementFails, ProcessRestart, CleanupStays
    <3>. QED  BY <2>1, <3>1 DEF Owed, LeftInv, CleanupRuns, CleanupStays
  <2>3. CASE StatementFails("cleanup")
    <3>1. WsStays /\ pc'["cleanup"] = "idle"
      BY <1>0, <2>3, FinishOwes DEF StatementFails, WsStays
    <3>. QED  BY <2>1, <3>1 DEF LeftInv, CleanupRuns, WsStays
  <2>4. CASE DeleteFails
    <3>1. pc["ws"] = "delete" /\ pc'["ws"] = "count" /\ left' = left /\ CleanupStays
      BY <1>0, <2>4 DEF DeleteFails, TypeOK, CleanupStays
    <3>2. left["ws"]
      BY <3>1 DEF LeftInv
    <3>. QED  BY <2>1, <3>1, <3>2 DEF Owed, LeftInv, CleanupRuns, CleanupStays
  <2>5. CASE CleanupDies
    <3>1. WsStays /\ pc'["cleanup"] = "dead"
      BY <1>0, <2>5 DEF CleanupDies, TypeOK, WsStays
    <3>. QED  BY <2>1, <3>1 DEF LeftInv, CleanupRuns, WsStays
  <2>. QED  BY <1>18, <2>2, <2>3, <2>4, <2>5 DEF Failure
<1>19. CASE UNCHANGED vars
  <2>1. WsStays /\ UNCHANGED <<left, pc, queues, inserted, faults, events>>
    BY <1>19 DEF vars, WsStays
  <2>. QED  BY <1>1, <2>1 DEF LeftInv, CleanupRuns
<1>. QED  BY <1>6, <1>8, <1>9, <1>10, <1>11, <1>12, <1>13, <1>14, <1>15, <1>16, <1>17, <1>18, <1>19
          DEF Next, HandlerStep, CleanupStep

Owes(u, q) == IF \E e \in Owed : e.user = u /\ e.queue = q THEN 1 ELSE 0

\* The joins logged and owed are the entries made, but for those that a failure left out.
Balance(u, q) ==
  LET joins == Cardinality(Joins(u, q)) + Owes(u, q)
  IN joins <= inserted[<<u, q>>] /\ (faults = 0 => joins = inserted[<<u, q>>])

JoinCountInv ==
  IsFiniteSet(events) /\ \A u \in Users : \A q \in QueueIds : Balance(u, q)

LEMMA JoinsFinite ==
  ASSUME IsFiniteSet(events), NEW u, NEW q
  PROVE  IsFiniteSet(Joins(u, q)) /\ Cardinality(Joins(u, q)) \in Nat
<1>1. Joins(u, q) \subseteq events
  BY DEF Joins, EventsOf
<1>. QED  BY <1>1, FS_Subset, FS_CardinalityType

LEMMA JoinCountNext ==
  ASSUME Inv, LeftInv, OwedInv, JoinCountInv, [Next]_vars
  PROVE  JoinCountInv'
<1>0. /\ JoinStep /\ faults \in Nat /\ inserted \in [Users \X QueueIds -> Nat]
      /\ IsFiniteSet(events) /\ \A v \in events : v.id < nextEvent
      /\ nextEvent \in Nat /\ \A v \in events : v.id \in Nat
  BY JoinNext, BoundsAssumption DEF Inv, TypeOK, JoinCountInv, Integrity, FreshIds, Event
<1>1. ASSUME NEW e \in Entry, NEW l \in BOOLEAN
      PROVE  /\ Logged(e, l) \notin events /\ Logged(e, l).user = e.user
             /\ Logged(e, l).queue = e.queue /\ Logged(e, l).left = l
  BY <1>0 DEF Logged
<1>2. IsFiniteSet(events)'
  <2>1. CASE events' \subseteq events
    BY <1>0, <2>1, FS_Subset
  <2>2. ASSUME NEW v, events' = events \cup {v} PROVE IsFiniteSet(events)'
    BY <1>0, <2>2, FS_AddElement
  <2>. QED  BY <1>0, <2>1, <2>2 DEF JoinStep
<1>. SUFFICES ASSUME NEW u \in Users, NEW q \in QueueIds PROVE Balance(u, q)'
  BY <1>2 DEF JoinCountInv
<1>. DEFINE n == Cardinality(Joins(u, q))
            i == inserted[<<u, q>>]
            o == Owes(u, q)
<1>3. /\ n \in Nat /\ i \in Nat /\ o \in {0, 1}
      /\ n + o <= i /\ (faults = 0 => n + o = i)
  BY <1>0, JoinsFinite DEF JoinCountInv, Balance, Owes
<1>4. n' \in Nat /\ o' \in {0, 1}
  <2>1. Joins(u, q)' \subseteq events'
    BY DEF Joins, EventsOf
  <2>2. n' \in Nat
    BY <1>2, <2>1, FS_Subset, FS_CardinalityType
  <2>. QED  BY <2>2 DEF Owes
<1>5. CASE Owed' \in {Owed, {}} /\ UNCHANGED <<events, inserted>> /\ faults' = faults + 1
  <2>1. n' = n /\ i' = i /\ o' \in {o, 0}
    BY <1>5 DEF Joins, EventsOf, Owes
  <2>. QED  BY <1>0, <1>3, <1>5, <2>1 DEF Balance
<1>6. CASE /\ Owed' = Owed /\ UNCHANGED <<inserted, faults>>
           /\ events' = events \/ \E e \in Entry : events' = events \cup {Logged(e, TRUE)}
  <2>1. Joins(u, q)' = Joins(u, q)
    BY <1>1, <1>6 DEF Joins, EventsOf
  <2>2. n' = n /\ i' = i /\ o' = o
    BY <1>6, <2>1 DEF Owes
  <2>. QED  BY <1>3, <1>6, <2>2 DEF Balance
<1>7. ASSUME NEW e \in Entry, Owed = {}, Owed' = {e}, e.queue \in queues,
             inserted' = [inserted EXCEPT ![<<e.user, e.queue>>] = @ + 1],
             UNCHANGED <<events, faults>>
      PROVE  Balance(u, q)'
  <2>1. n' = n /\ o = 0
    BY <1>7 DEF Joins, EventsOf, Owes
  <2>2. <<e.user, e.queue>> \in Users \X QueueIds
    BY DEF Entry
  <2>3. CASE e.user = u /\ e.queue = q
    <3>1. i' = i + 1 /\ o' = 1
      BY <1>0, <1>7, <2>3 DEF Owes
    <3>. QED  BY <1>3, <1>7, <2>1, <3>1 DEF Balance
  <2>4. CASE ~(e.user = u /\ e.queue = q)
    <3>1. i' = i /\ o' = 0
      BY <1>0, <1>7, <2>4 DEF Owes
    <3>. QED  BY <1>3, <1>7, <2>1, <3>1 DEF Balance
  <2>. QED  BY <2>3, <2>4
<1>8. ASSUME NEW e \in Entry, Owed = {e}, Owed' = {}, events' = events \cup {Logged(e, FALSE)},
             UNCHANGED <<inserted, faults>>
      PROVE  Balance(u, q)'
  <2>1. o' = 0 /\ i' = i
    BY <1>8 DEF Owes
  <2>2. CASE e.user = u /\ e.queue = q
    <3>1. Joins(u, q)' = Joins(u, q) \cup {Logged(e, FALSE)} /\ Logged(e, FALSE) \notin Joins(u, q)
      BY <1>1, <1>8, <2>2 DEF Joins, EventsOf
    <3>2. n' = n + 1
      BY <1>0, <3>1, JoinsFinite, FS_AddElement
    <3>3. o = 1
      BY <1>8, <2>2 DEF Owes
    <3>. QED  BY <1>3, <1>8, <2>1, <3>2, <3>3 DEF Balance
  <2>3. CASE ~(e.user = u /\ e.queue = q)
    <3>1. Joins(u, q)' = Joins(u, q)
      <4>1. ~(Logged(e, FALSE).user = u /\ Logged(e, FALSE).queue = q)
        BY <1>1, <2>3
      <4>. QED  BY <1>8, <4>1 DEF Joins, EventsOf
    <3>2. n' = n /\ o = 0
      BY <1>8, <2>3, <3>1 DEF Owes
    <3>. QED  BY <1>3, <1>8, <2>1, <3>2 DEF Balance
  <2>. QED  BY <2>2, <2>3
<1>9. ASSUME NEW p \in QueueIds, Owed = {}, Owed' = {}, events' = {v \in events : v.queue # p},
             inserted' = [x \in DOMAIN inserted |-> IF x[2] = p THEN 0 ELSE inserted[x]],
             UNCHANGED faults
      PROVE  Balance(u, q)'
  <2>1. o = 0 /\ o' = 0
    BY <1>9 DEF Owes
  <2>2. CASE q = p
    <3>1. Joins(u, q)' = {}
      BY <1>9, <2>2 DEF Joins, EventsOf
    <3>2. n' = 0 /\ i' = 0
      BY <1>0, <1>9, <2>2, <3>1, FS_EmptySet
    <3>. QED  BY <2>1, <3>2 DEF Balance
  <2>3. CASE q # p
    <3>1. Joins(u, q)' = Joins(u, q)
      BY <1>9, <2>3 DEF Joins, EventsOf
    <3>2. n' = n /\ i' = i
      BY <1>0, <1>9, <2>3, <3>1
    <3>. QED  BY <1>3, <1>9, <2>1, <3>2 DEF Balance
  <2>. QED  BY <2>2, <2>3
<1>. QED  BY <1>0, <1>5, <1>6, <1>7, <1>8, <1>9 DEF JoinStep

\* The joins in the event log never exceed the entries made, and equal them while no
\* statement has failed and no handler is at work.
THEOREM JoinsCountedCorrect == Spec => []JoinsCounted
<1>. DEFINE All == LeftInv /\ OwedInv /\ JoinCountInv
<1>1. Init => All
  <2>. SUFFICES ASSUME Init PROVE All
    OBVIOUS
  <2>1. Owed = {} /\ events = {} /\ IsFiniteSet(events)
    BY FS_EmptySet DEF Init, Owed, Threads
  <2>2. LeftInv /\ OwedInv
    BY <2>1 DEF Init, LeftInv, OwedInv, CleanupRuns, Threads
  <2>3. ASSUME NEW u \in Users, NEW q \in QueueIds PROVE Balance(u, q)
    <3>1. Joins(u, q) = {} /\ Owes(u, q) = 0 /\ inserted[<<u, q>>] = 0
      BY <2>1 DEF Init, Joins, EventsOf, Owes
    <3>. QED  BY <3>1, FS_EmptySet DEF Balance
  <2>. QED  BY <2>1, <2>2, <2>3 DEF JoinCountInv
<1>2. Inv /\ All /\ [Next]_vars => All'
  BY JoinNext, JoinCountNext
<1>3. Inv /\ All => JoinsCounted
  <2>. SUFFICES ASSUME Inv, All, NEW u \in Users, NEW q \in queues
                PROVE  LET joins == Cardinality(Joins(u, q))
                       IN /\ joins <= inserted[<<u, q>>]
                          /\ faults = 0 /\ pc["ws"] = "idle" => joins = inserted[<<u, q>>]
    BY DEF JoinsCounted
  <2>1. q \in QueueIds /\ inserted \in [Users \X QueueIds -> Nat] /\ IsFiniteSet(events)
    BY DEF Inv, TypeOK, JoinCountInv
  <2>2. Cardinality(Joins(u, q)) \in Nat /\ inserted[<<u, q>>] \in Nat /\ Balance(u, q)
    BY <2>1, JoinsFinite DEF JoinCountInv
  <2>3. Owes(u, q) \in {0, 1} /\ (pc["ws"] = "idle" => Owes(u, q) = 0)
    BY DEF Owes, Owed
  <2>. QED  BY <2>2, <2>3 DEF Balance
<1>. QED  BY <1>1, <1>2, <1>3, Invariance, PTL DEF Spec

-----------------------------------------------------------------------------
(* What the cleanup logs.                                                  *)

Same(d, e) == d.id = e.id /\ d.user = e.user /\ d.queue = e.queue

\* A thread holds entries only while it deals with them, and one of them as its current.
ThreadInv(t) ==
  /\ pc[t] \in {"idle", "dead", "load", "motds"} => todo[t] = {} /\ cur[t] = {}
  /\ pc[t] \in {"count", "delete", "remove"} => cur[t] = {}
  /\ \A d, e \in cur[t] : d = e

\* The queue of what a handler is dealing with stays, and an entry that it is about to
\* remove is still the one that it has read.
HandlerInv ==
  /\ pc["ws"] \notin {"idle", "insert"} =>
       \A d \in todo["ws"] \cup cur["ws"] : d.queue \in queues
  /\ pc["ws"] \in {"delete", "remove"} =>
       \A d \in todo["ws"] : \A e \in entries : d.id = e.id => Same(d, e)

SeenInv == \A e \in seen : e.queue < nextQueue

WorkInv == (\A t \in Threads : ThreadInv(t)) /\ HandlerInv /\ SeenInv

WorkStays(t) ==
  pc'[t] = pc[t] /\ todo'[t] = todo[t] /\ cur'[t] = cur[t] /\ left'[t] = left[t]

LEMMA FinishWork ==
  ASSUME TypeOK, NEW t \in Threads, Finish(t)
  PROVE  /\ pc'[t] = "idle" /\ todo'[t] = {} /\ cur'[t] = {}
         /\ \A s \in Threads \ {t} : WorkStays(s)
BY DEF Finish, TypeOK, WorkStays

LEMMA NextEntryWork ==
  ASSUME TypeOK, LeftInv, WorkInv, NEW t \in Threads, pc[t] = "event", NextEntry(t)
  PROVE  /\ \A s \in Threads \ {t} : WorkStays(s)
         /\ \/ pc'[t] = "idle" /\ todo'[t] = {} /\ cur'[t] = {} /\ todo[t] = {}
            \/ pc'[t] = "load" /\ todo'[t] = {} /\ cur'[t] = {} /\ todo[t] = {} /\ t = "cleanup"
            \/ pc'[t] = "count" /\ todo'[t] = todo[t] /\ cur'[t] = {} /\ left'[t] = left[t]
<1>1. CASE todo[t] = {} /\ t = "ws"
  BY <1>1, FinishWork DEF NextEntry
<1>2. CASE ~(todo[t] = {} /\ t = "ws")
  BY <1>2 DEF NextEntry, TypeOK, WorkStays, Threads
<1>. QED  BY <1>1, <1>2

LEMMA SeenNext == ASSUME Inv, SeenInv, [Next]_vars PROVE SeenInv'
<1>. USE DEF cleanupVars, Request, Fault
<1>1. /\ nextQueue \in Nat /\ \A e \in entries : e.queue < nextQueue
      /\ \A e \in seen : e.queue \in Nat
  BY BoundsAssumption DEF Inv, TypeOK, Integrity, FreshIds, ForeignKeys, QueueIds, Entry
<1>11. nextQueue' \in {nextQueue, nextQueue + 1}
  BY QueuesNext DEF QueuesStep
<1>2. CASE UNCHANGED seen \/ seen' = {}
  BY <1>1, <1>11, <1>2 DEF SeenInv
<1>3. CASE CleanupStart
  BY <1>3 DEF CleanupStart, queueVars, SeenInv, Inv, Integrity, FreshIds, ForeignKeys
<1>4. CASE Handler
  BY <1>2, <1>4 DEF Handler, AddQueue, RemoveQueue, Set, UpdateQueueEntry, JoinFind, LeaveFind,
                    PurgeLoad, LoadForRemoval
<1>5. CASE HandlerStep \/ CleanupStep
  BY <1>2, <1>5 DEF HandlerStep, JoinInsert, Delete, CountHelp, CountPresent, InsertEvent,
                    CleanupStep, CleanupLoad, RemoveAll, ClearAllMotds
<1>6. CASE Failure
  BY <1>2, <1>6 DEF Failure, StatementFails, DeleteFails, CleanupDies, ProcessRestart
<1>7. CASE UNCHANGED vars
  BY <1>2, <1>7 DEF vars
<1>. QED  BY <1>3, <1>4, <1>5, <1>6, <1>7 DEF Next

LEMMA WorkNext == ASSUME Inv, LeftInv, WorkInv, [Next]_vars PROVE WorkInv'
<1>. USE DEF queueVars, entryVars, eventVars, cleanupVars, threadVars, Request, Threads
<1>0. TypeOK /\ JoinReady /\ UniqueEntries /\ SeenInv' /\ \A e \in entries : e.queue \in queues
  BY SeenNext DEF Inv, WorkInv, Integrity, ForeignKeys
<1>1. ASSUME NEW t \in Threads, WorkStays(t) PROVE ThreadInv(t)'
  BY <1>1 DEF WorkInv, ThreadInv, WorkStays
<1>2. ASSUME NEW t \in Threads, todo'[t] = {}, cur'[t] = {} PROVE ThreadInv(t)'
  BY <1>2 DEF ThreadInv
<1>3. ASSUME pc'["ws"] \in {"idle", "insert"} PROVE HandlerInv'
  BY <1>3 DEF HandlerInv
<1>4. ASSUME WorkStays("ws"), queues' = queues, entries' \subseteq entries PROVE HandlerInv'
  BY <1>4 DEF WorkInv, HandlerInv, WorkStays
<1>5. CASE Handler
  <2>1. ASSUME NEW u \in Users, NEW q \in queues, NEW h \in Helps, JoinFind(u, q, h) PROVE WorkInv'
    <3>1. WorkStays("cleanup") /\ pc'["ws"] = "insert" /\ \A d, e \in cur'["ws"] : d = e
      BY <1>0, <2>1 DEF JoinFind, TypeOK, WorkStays
    <3>2. ThreadInv("ws")'
      BY <3>1 DEF ThreadInv
    <3>. QED  BY <1>0, <1>1, <1>3, <3>1, <3>2 DEF WorkInv
  <2>2. ASSUME NEW E \in SUBSET entries, NEW st \in {"delete", "remove"}, LoadForRemoval(E, st)
        PROVE  WorkInv'
    <3>1. /\ WorkStays("cleanup") /\ pc["ws"] = "idle" /\ pc'["ws"] \in {"delete", "remove"}
          /\ todo'["ws"] = E /\ cur'["ws"] = cur["ws"] /\ UNCHANGED <<queues, entries>>
      BY <1>0, <2>2 DEF LoadForRemoval, TypeOK, WorkStays
    <3>2. cur'["ws"] = {}
      BY <3>1 DEF WorkInv, ThreadInv
    <3>3. ThreadInv("ws")'
      BY <3>1, <3>2 DEF ThreadInv
    <3>4. HandlerInv'
      BY <1>0, <3>1, <3>2 DEF HandlerInv, UniqueEntries, Same
    <3>. QED  BY <1>0, <1>1, <3>1, <3>3, <3>4 DEF WorkInv
  <2>3. ASSUME pc["ws"] = "idle", UNCHANGED threadVars PROVE WorkInv'
    BY <1>0, <1>1, <1>3, <2>3 DEF WorkInv, WorkStays
  <2>4. ASSUME NEW q PROVE EntriesOf(q) \subseteq entries /\ \A e \in EntriesOf(q) : {e} \subseteq entries
    BY DEF EntriesOf
  <2>. QED  BY <1>5, <2>1, <2>2, <2>3, <2>4
            DEF Handler, AddQueue, RemoveQueue, Set, UpdateQueueEntry, LeaveFind, PurgeLoad
<1>6. ASSUME NEW t \in Threads, Finish(t), queues' = queues, entries' \subseteq entries PROVE WorkInv'
  <2>1. /\ pc'[t] = "idle" /\ todo'[t] = {} /\ cur'[t] = {}
        /\ \A s \in Threads \ {t} : WorkStays(s)
    BY <1>0, <1>6, FinishWork
  <2>2. HandlerInv'
    BY <1>3, <1>4, <1>6, <2>1
  <2>. QED  BY <1>0, <1>1, <1>2, <2>1, <2>2 DEF WorkInv
<1>7. CASE JoinInsert
  <2>1. PICK e \in cur["ws"] :
          \/ Finish("ws") /\ UNCHANGED entryVars
          \/ /\ todo' = [todo EXCEPT !["ws"] = {e}] /\ cur' = [cur EXCEPT !["ws"] = {}]
             /\ pc' = [pc EXCEPT !["ws"] = "count"] /\ UNCHANGED left
    BY <1>7 DEF JoinInsert
  <2>2. pc["ws"] = "insert" /\ queues' = queues /\ e.queue \in queues
    BY <1>0, <1>7 DEF JoinInsert, JoinReady
  <2>3. CASE /\ todo' = [todo EXCEPT !["ws"] = {e}] /\ cur' = [cur EXCEPT !["ws"] = {}]
             /\ pc' = [pc EXCEPT !["ws"] = "count"] /\ UNCHANGED left
    <3>1. /\ WorkStays("cleanup") /\ pc'["ws"] = "count" /\ todo'["ws"] = {e} /\ cur'["ws"] = {}
      BY <1>0, <2>3 DEF TypeOK, WorkStays
    <3>2. ThreadInv("ws")' /\ HandlerInv'
      BY <2>2, <3>1 DEF ThreadInv, HandlerInv
    <3>. QED  BY <1>0, <1>1, <3>1, <3>2 DEF WorkInv
  <2>. QED  BY <1>6, <2>1, <2>2, <2>3
<1>8. CASE Delete
  <2>1. /\ pc["ws"] \in {"delete", "remove"} /\ queues' = queues /\ entries' \subseteq entries
        /\ Finish("ws") \/ (pc' = [pc EXCEPT !["ws"] = "count"] /\ UNCHANGED <<todo, cur, left>>)
    BY <1>8 DEF Delete
  <2>2. CASE pc' = [pc EXCEPT !["ws"] = "count"] /\ UNCHANGED <<todo, cur, left>>
    <3>1. WorkStays("cleanup") /\ pc'["ws"] = "count"
      BY <1>0, <2>2 DEF TypeOK, WorkStays
    <3>2. ThreadInv("ws")' /\ HandlerInv'
      BY <2>1, <2>2, <3>1 DEF ThreadInv, HandlerInv, WorkInv
    <3>. QED  BY <1>0, <1>1, <3>1, <3>2 DEF WorkInv
  <2>. QED  BY <1>6, <2>1, <2>2
<1>9. ASSUME NEW t \in Threads, CountHelp(t) PROVE WorkInv'
  <2>1. PICK e \in todo[t] : cur' = [cur EXCEPT ![t] = {e}] /\ todo' = [todo EXCEPT ![t] = @ \ {e}]
    BY <1>9 DEF CountHelp
  <2>2. /\ pc[t] = "count" /\ pc'[t] = "present" /\ cur'[t] = {e} /\ todo'[t] = todo[t] \ {e}
        /\ \A s \in Threads \ {t} : WorkStays(s) /\ UNCHANGED <<queues, entries>>
    BY <1>0, <1>9, <2>1 DEF CountHelp, TypeOK, WorkStays
  <2>3. UNCHANGED <<queues, entries>>
    BY <1>9 DEF CountHelp
  <2>4. ThreadInv(t)'
    BY <2>2 DEF ThreadInv
  <2>5. HandlerInv'
    <3>1. CASE t = "ws"
      BY <2>2, <2>3, <3>1 DEF WorkInv, HandlerInv
    <3>2. CASE t = "cleanup"
      BY <1>4, <2>2, <2>3, <3>2
    <3>. QED  BY <3>1, <3>2
  <2>. QED  BY <1>0, <1>1, <2>2, <2>4, <2>5 DEF WorkInv
<1>10. ASSUME NEW t \in Threads, CountPresent(t) PROVE WorkInv'
  <2>1. /\ pc[t] = "present" /\ pc'[t] = "event" /\ UNCHANGED <<todo, cur, queues, entries>>
        /\ \A s \in Threads \ {t} : WorkStays(s)
    BY <1>0, <1>10 DEF CountPresent, TypeOK, WorkStays
  <2>2. ThreadInv(t)'
    BY <2>1 DEF ThreadInv, WorkInv
  <2>3. HandlerInv'
    <3>1. CASE t = "ws"
      BY <2>1, <3>1 DEF WorkInv, HandlerInv
    <3>2. CASE t = "cleanup"
      BY <1>4, <2>1, <3>2
    <3>. QED  BY <3>1, <3>2
  <2>. QED  BY <1>0, <1>1, <2>1, <2>2, <2>3 DEF WorkInv
<1>11. ASSUME NEW t \in Threads, InsertEvent(t) PROVE WorkInv'
  <2>1. pc[t] = "event" /\ UNCHANGED <<queues, entries>> /\ (NextEntry(t) \/ Finish(t))
    BY <1>11 DEF InsertEvent
  <2>2. CASE NextEntry(t)
    <3>1. /\ \A s \in Threads \ {t} : WorkStays(s)
          /\ \/ pc'[t] = "idle" /\ todo'[t] = {} /\ cur'[t] = {} /\ todo[t] = {}
             \/ pc'[t] = "load" /\ todo'[t] = {} /\ cur'[t] = {} /\ todo[t] = {} /\ t = "cleanup"
             \/ pc'[t] = "count" /\ todo'[t] = todo[t] /\ cur'[t] = {} /\ left'[t] = left[t]
      BY <1>0, <2>1, <2>2, NextEntryWork
    <3>2. ThreadInv(t)'
      BY <3>1 DEF ThreadInv
    <3>3. HandlerInv'
      <4>1. CASE t = "ws"
        BY <2>1, <3>1, <4>1 DEF WorkInv, HandlerInv
      <4>2. CASE t = "cleanup"
        BY <1>4, <2>1, <3>1, <4>2
      <4>. QED  BY <4>1, <4>2
    <3>. QED  BY <1>0, <1>1, <3>1, <3>2, <3>3 DEF WorkInv
  <2>. QED  BY <1>6, <2>1, <2>2
<1>12. CASE CleanupStart
  <2>1. WorkStays("ws") /\ UNCHANGED <<todo, cur, queues, entries>> /\ pc["cleanup"] = "idle"
    BY <1>0, <1>12 DEF CleanupStart, TypeOK, WorkStays
  <2>2. ThreadInv("cleanup")'
    BY <1>2, <2>1 DEF WorkInv, ThreadInv
  <2>. QED  BY <1>0, <1>1, <1>4, <2>1, <2>2 DEF WorkInv
<1>13. CASE CleanupLoad
  <2>1. PICK q \in qs : /\ todo' = [todo EXCEPT !["cleanup"] = EntriesOf(q)]
                        /\ pc' = [pc EXCEPT !["cleanup"] = IF EntriesOf(q) = {} THEN "load" ELSE "count"]
    BY <1>13 DEF CleanupLoad
  <2>2. /\ WorkStays("ws") /\ UNCHANGED <<cur, queues, entries>> /\ pc["cleanup"] = "load"
        /\ todo'["cleanup"] = EntriesOf(q)
        /\ pc'["cleanup"] = IF EntriesOf(q) = {} THEN "load" ELSE "count"
    BY <1>0, <1>13, <2>1 DEF CleanupLoad, TypeOK, WorkStays
  <2>3. ThreadInv("cleanup")'
    BY <2>2 DEF WorkInv, ThreadInv
  <2>. QED  BY <1>0, <1>1, <1>4, <2>2, <2>3 DEF WorkInv
<1>14. CASE RemoveAll
  <2>1. /\ WorkStays("ws") /\ UNCHANGED <<todo, cur, queues>> /\ pc["cleanup"] = "load"
        /\ entries' \subseteq entries
    BY <1>0, <1>14 DEF RemoveAll, TypeOK, WorkStays
  <2>2. ThreadInv("cleanup")'
    BY <1>2, <2>1 DEF WorkInv, ThreadInv
  <2>. QED  BY <1>0, <1>1, <1>4, <2>1, <2>2 DEF WorkInv
<1>15. CASE ClearAllMotds
  BY <1>6, <1>15 DEF ClearAllMotds
<1>16. CASE Failure
  <2>0. UNCHANGED <<queues, entries>>
    BY <1>16 DEF Failure, StatementFails, DeleteFails, CleanupDies, ProcessRestart, Fault
  <2>1. ASSUME NEW t \in Threads, StatementFails(t) PROVE WorkInv'
    BY <1>6, <2>0, <2>1 DEF StatementFails
  <2>2. CASE DeleteFails
    <3>1. /\ WorkStays("cleanup") /\ pc["ws"] = "delete" /\ pc'["ws"] = "count"
          /\ UNCHANGED <<todo, cur>>
      BY <1>0, <2>2 DEF DeleteFails, TypeOK, WorkStays
    <3>2. ThreadInv("ws")' /\ HandlerInv'
      BY <2>0, <3>1 DEF ThreadInv, HandlerInv, WorkInv
    <3>. QED  BY <1>0, <1>1, <3>1, <3>2 DEF WorkInv
  <2>3. CASE CleanupDies
    <3>1. WorkStays("ws") /\ UNCHANGED <<todo, cur>> /\ pc["cleanup"] = "idle"
      BY <1>0, <2>3 DEF CleanupDies, TypeOK, WorkStays
    <3>2. ThreadInv("cleanup")'
      BY <1>2, <3>1 DEF WorkInv, ThreadInv
    <3>. QED  BY <1>0, <1>1, <1>4, <2>0, <3>1, <3>2 DEF WorkInv
  <2>4. CASE ProcessRestart
    <3>1. \A t \in Threads : pc'[t] = "idle" /\ todo'[t] = {} /\ cur'[t] = {}
      BY <2>4 DEF ProcessRestart
    <3>. QED  BY <1>0, <1>2, <1>3, <3>1 DEF WorkInv
  <2>. QED  BY <1>16, <2>1, <2>2, <2>3, <2>4 DEF Failure
<1>17. CASE UNCHANGED vars
  <2>1. (\A t \in Threads : WorkStays(t)) /\ UNCHANGED <<queues, entries>>
    BY <1>17 DEF vars, WorkStays
  <2>. QED  BY <1>0, <1>1, <1>4, <2>1 DEF WorkInv
<1>. QED  BY <1>5, <1>7, <1>8, <1>9, <1>10, <1>11, <1>12, <1>13, <1>14, <1>15, <1>16, <1>17
          DEF Next, HandlerStep, CleanupStep

LoggedSince(e) == \E v \in events : v.user = e.user /\ v.queue = e.queue /\ v.left /\ v.id >= since
ByHandler(e) == left["ws"] /\ \E d \in todo["ws"] \cup cur["ws"] : Same(d, e)
ByCleanup(e) == \E d \in todo["cleanup"] \cup cur["cleanup"] : Same(d, e)
ToVisit(e) == e.queue \in qs /\ \E d \in entries : Same(d, e)

\* Where an entry is that the cleanup found when it started.
Kept(e) ==
  LoggedSince(e) \/ ByHandler(e) \/ (pc["cleanup"] # "motds" /\ (ByCleanup(e) \/ ToVisit(e)))

LogInv ==
  faults = 0 /\ CleanupRuns => since <= nextEvent /\ \A e \in seen : e.queue \in queues => Kept(e)

LEMMA LogNext == ASSUME Inv, LeftInv, WorkInv, LogInv, [Next]_vars PROVE LogInv'
<1>. USE DEF queueVars, entryVars, eventVars, cleanupVars, threadVars, Request, Threads
<1>0. /\ TypeOK /\ UniqueEntries /\ SeenInv /\ faults \in Nat /\ nextEvent \in Nat /\ since \in Nat
      /\ \A e \in entries : e.queue \in queues
      /\ \A e \in seen : e.queue \in Nat /\ e.queue < nextQueue
  BY BoundsAssumption DEF Inv, TypeOK, WorkInv, Integrity, ForeignKeys, SeenInv, Entry, QueueIds
<1>1. SUFFICES ASSUME faults' = 0, CleanupRuns'
               PROVE  since' <= nextEvent' /\ \A e \in seen' : e.queue \in queues' => Kept(e)'
  BY DEF LogInv
<1>2. CASE CleanupStart
  <2>1. since' = nextEvent /\ nextEvent' = nextEvent /\ seen' = entries /\ entries' = entries
        /\ qs' = queues /\ queues' = queues /\ pc'["cleanup"] = "load"
    BY <1>0, <1>2 DEF CleanupStart, TypeOK
  <2>2. ASSUME NEW e \in entries PROVE ToVisit(e)'
    BY <1>0, <2>1, <2>2 DEF ToVisit, Same
  <2>. QED  BY <1>0, <2>1, <2>2 DEF Kept
<1>3. CASE Failure
  BY <1>0, <1>1, <1>3 DEF Failure, StatementFails, DeleteFails, CleanupDies, ProcessRestart, Fault
<1>4. ASSUME CleanupRuns, UNCHANGED <<seen, since, faults>>, nextEvent' \in {nextEvent, nextEvent + 1},
             \A e \in seen : e.queue \in queues' => e.queue \in queues /\ (Kept(e) => Kept(e)')
      PROVE  since' <= nextEvent' /\ \A e \in seen' : e.queue \in queues' => Kept(e)'
  <2>1. since <= nextEvent /\ \A e \in seen : e.queue \in queues => Kept(e)
    BY <1>1, <1>4 DEF LogInv
  <2>. QED  BY <1>0, <1>4, <2>1
<1>5. ASSUME WorkStays("cleanup"), UNCHANGED <<qs, seen, since, faults>>,
             nextEvent' \in {nextEvent, nextEvent + 1},
             \A e \in seen : e.queue \in queues' =>
               /\ e.queue \in queues
               /\ LoggedSince(e) => LoggedSince(e)'
               /\ ByHandler(e) => LoggedSince(e)' \/ ByHandler(e)'
               /\ ToVisit(e) => ToVisit(e)' \/ ByHandler(e)'
      PROVE  since' <= nextEvent' /\ \A e \in seen' : e.queue \in queues' => Kept(e)'
  <2>1. CleanupRuns
    BY <1>1, <1>5 DEF WorkStays, CleanupRuns
  <2>2. \A e : ByCleanup(e)' = ByCleanup(e)
    BY <1>5 DEF WorkStays, ByCleanup
  <2>3. \A e \in seen : e.queue \in queues' => e.queue \in queues /\ (Kept(e) => Kept(e)')
    BY <1>5, <2>2 DEF Kept, WorkStays
  <2>. QED  BY <1>4, <1>5, <2>1, <2>3
<1>6. ASSUME WorkStays("ws"), CleanupRuns, queues' = queues, events \subseteq events',
             UNCHANGED <<seen, since, faults>>, nextEvent' \in {nextEvent, nextEvent + 1},
             \A e \in seen : e.queue \in queues /\ pc["cleanup"] # "motds"
                               /\ (ByCleanup(e) \/ ToVisit(e)) =>
               LoggedSince(e)' \/ (pc'["cleanup"] # "motds" /\ (ByCleanup(e)' \/ ToVisit(e)'))
      PROVE  since' <= nextEvent' /\ \A e \in seen' : e.queue \in queues' => Kept(e)'
  <2>1. \A e : (ByHandler(e) => ByHandler(e)') /\ (LoggedSince(e) => LoggedSince(e)')
    BY <1>6 DEF WorkStays, ByHandler, LoggedSince
  <2>2. \A e \in seen : e.queue \in queues' => e.queue \in queues /\ (Kept(e) => Kept(e)')
    BY <1>6, <2>1 DEF Kept
  <2>. QED  BY <1>4, <1>6, <2>2
\* A request is taken up: no handler is at work.
<1>7. ASSUME pc["ws"] = "idle", WorkStays("cleanup"), UNCHANGED <<qs, seen, since, faults, nextEvent>>,
             \A e \in seen : e.queue \in queues' =>
               /\ e.queue \in queues
               /\ LoggedSince(e) => LoggedSince(e)'
               /\ ToVisit(e) => ToVisit(e)'
      PROVE  since' <= nextEvent' /\ \A e \in seen' : e.queue \in queues' => Kept(e)'
  <2>1. \A e : ~ByHandler(e)
    BY <1>7 DEF WorkInv, ThreadInv, ByHandler
  <2>. QED  BY <1>5, <1>7, <2>1
<1>8. CASE Handler
  <2>1. pc["ws"] = "idle" /\ WorkStays("cleanup") /\ UNCHANGED <<qs, seen, since, faults, nextEvent>>
    BY <1>0, <1>8 DEF Handler, AddQueue, RemoveQueue, Set, UpdateQueueEntry, JoinFind, LeaveFind,
                      PurgeLoad, LoadForRemoval, TypeOK, WorkStays
  <2>2. ASSUME UNCHANGED <<queues, entries, events>> PROVE \A e \in seen : e.queue \in queues' =>
               /\ e.queue \in queues
               /\ LoggedSince(e) => LoggedSince(e)'
               /\ ToVisit(e) => ToVisit(e)'
    BY <2>1, <2>2 DEF LoggedSince, ToVisit
  <2>3. CASE AddQueue
    <3>1. queues' = queues \cup {nextQueue} /\ UNCHANGED <<entries, events>>
      BY <2>3 DEF AddQueue
    <3>2. \A e \in seen : e.queue # nextQueue
      BY <1>0
    <3>. QED  BY <1>7, <2>1, <3>1, <3>2 DEF LoggedSince, ToVisit
  <2>4. ASSUME NEW q \in queues, RemoveQueue(q)
        PROVE  \A e \in seen : e.queue \in queues' =>
               /\ e.queue \in queues
               /\ LoggedSince(e) => LoggedSince(e)'
               /\ ToVisit(e) => ToVisit(e)'
    <3>1. /\ queues' = queues \ {q} /\ entries' = entries \ EntriesOf(q)
          /\ events' = {v \in events : v.queue # q}
      BY <2>4 DEF RemoveQueue
    <3>. QED  BY <2>1, <3>1 DEF LoggedSince, ToVisit, EntriesOf, Same
  <2>5. ASSUME NEW u \in Users, NEW q \in queues, NEW h \in Helps, UpdateQueueEntry(u, q, h)
        PROVE  \A e \in seen : e.queue \in queues' =>
               /\ e.queue \in queues
               /\ LoggedSince(e) => LoggedSince(e)'
               /\ ToVisit(e) => ToVisit(e)'
    <3>1. PICK d \in entries : entries' = (entries \ {d}) \cup {[d EXCEPT !.help = h]}
      BY <2>5 DEF UpdateQueueEntry, EntriesOf
    <3>2. UNCHANGED <<queues, events>>
      BY <2>5 DEF UpdateQueueEntry
    <3>3. Same([d EXCEPT !.help = h], d)
      BY <1>0 DEF TypeOK, Entry, Same
    <3>4. ASSUME NEW e \in seen, ToVisit(e) PROVE ToVisit(e)'
      <4>1. PICK c \in entries : Same(c, e)
        BY <3>4 DEF ToVisit
      <4>2. \E b \in entries' : Same(b, e)
        BY <3>1, <3>3, <4>1 DEF Same
      <4>. QED  BY <2>1, <3>4, <4>2 DEF ToVisit
    <3>. QED  BY <2>1, <3>2, <3>4 DEF LoggedSince
  <2>6. CASE UNCHANGED <<queues, entries, events>>
    BY <1>7, <2>1, <2>2, <2>6
  <2>. QED  BY <1>7, <1>8, <2>1, <2>3, <2>4, <2>5, <2>6
            DEF Handler, Set, JoinFind, LeaveFind, PurgeLoad, LoadForRemoval
<1>9. CASE JoinInsert
  <2>1. /\ pc["ws"] = "insert" /\ UNCHANGED <<queues, events, nextEvent, qs, seen, since, faults>>
        /\ entries \subseteq entries'
    BY <1>9 DEF JoinInsert
  <2>2. WorkStays("cleanup")
    BY <1>0, <1>9, FinishWork DEF JoinInsert, TypeOK, WorkStays
  <2>3. \A e : ~ByHandler(e)
    BY <2>1 DEF LeftInv, ByHandler
  <2>4. \A e : (LoggedSince(e) => LoggedSince(e)') /\ (ToVisit(e) => ToVisit(e)')
    BY <2>1 DEF LoggedSince, ToVisit
  <2>. QED  BY <1>5, <2>1, <2>2, <2>3, <2>4
<1>10. CASE Delete
  <2>1. /\ pc["ws"] \in {"delete", "remove"}
        /\ UNCHANGED <<queues, events, nextEvent, qs, seen, since, faults>>
        /\ entries' = {e \in entries : \A d \in todo["ws"] : d.id # e.id}
        /\ IF todo["ws"] = {} THEN Finish("ws")
           ELSE pc' = [pc EXCEPT !["ws"] = "count"] /\ UNCHANGED <<todo, cur, left>>
    BY <1>10 DEF Delete
  <2>2. WorkStays("cleanup")
    BY <1>0, <2>1, FinishWork DEF TypeOK, WorkStays
  <2>3. \A e : LoggedSince(e) => LoggedSince(e)'
    BY <2>1 DEF LoggedSince
  <2>4. ASSUME NEW e, ByHandler(e) PROVE ByHandler(e)'
    <3>1. todo["ws"] # {}
      BY <2>1, <2>4 DEF ByHandler, WorkInv, ThreadInv
    <3>. QED  BY <2>1, <2>4, <3>1 DEF ByHandler
  <2>5. ASSUME NEW e, ToVisit(e) PROVE ToVisit(e)' \/ ByHandler(e)'
    <3>1. PICK d \in entries : Same(d, e)
      BY <2>5 DEF ToVisit
    <3>2. CASE \A c \in todo["ws"] : c.id # d.id
      BY <2>1, <2>5, <3>1, <3>2 DEF ToVisit
    <3>3. ASSUME NEW c \in todo["ws"], c.id = d.id PROVE ByHandler(e)'
      <4>1. Same(c, e)
        BY <2>1, <3>1, <3>3 DEF WorkInv, HandlerInv, Same
      <4>2. todo' = todo /\ cur' = cur /\ left' = left /\ left["ws"]
        BY <2>1, <3>3 DEF LeftInv
      <4>. QED  BY <4>1, <4>2 DEF ByHandler
    <3>. QED  BY <3>2, <3>3
  <2>. QED  BY <1>5, <2>1, <2>2, <2>3, <2>4, <2>5
<1>11. CASE CountHelp("ws") \/ CountPresent("ws")
  <2>1. /\ WorkStays("cleanup") /\ left' = left
        /\ UNCHANGED <<queues, entries, events, nextEvent, qs, seen, since, faults>>
    BY <1>0, <1>11 DEF CountHelp, CountPresent, TypeOK, WorkStays
  <2>2. todo["ws"] \cup cur["ws"] \subseteq todo'["ws"] \cup cur'["ws"]
    <3>1. CASE CountPresent("ws")
      BY <3>1 DEF CountPresent
    <3>2. CASE CountHelp("ws")
      <4>1. PICK e \in todo["ws"] : cur' = [cur EXCEPT !["ws"] = {e}]
                                    /\ todo' = [todo EXCEPT !["ws"] = @ \ {e}]
        BY <3>2 DEF CountHelp
      <4>2. cur["ws"] = {} /\ cur'["ws"] = {e} /\ todo'["ws"] = todo["ws"] \ {e}
        BY <1>0, <3>2, <4>1 DEF CountHelp, TypeOK, WorkInv, ThreadInv
      <4>. QED  BY <4>2
    <3>. QED  BY <1>11, <3>1, <3>2
  <2>3. \A e : /\ LoggedSince(e) => LoggedSince(e)'
               /\ ByHandler(e) => ByHandler(e)'
               /\ ToVisit(e) => ToVisit(e)'
    BY <2>1, <2>2 DEF LoggedSince, ByHandler, ToVisit
  <2>. QED  BY <1>5, <2>1, <2>3
<1>12. CASE InsertEvent("ws")
  <2>1. PICK d \in cur["ws"] :
          IF d.queue \in queues
          THEN /\ events' = events \cup {Logged(d, left["ws"])}
               /\ nextEvent' = nextEvent + 1 /\ NextEntry("ws")
          ELSE Finish("ws") /\ UNCHANGED eventVars
    BY <1>12 DEF InsertEvent, Logged
  <2>2. /\ pc["ws"] = "event" /\ UNCHANGED <<queues, entries, qs, seen, since, faults>>
        /\ left["ws"] \in BOOLEAN /\ cur["ws"] = {d} /\ d.queue \in queues
    BY <1>0, <1>12 DEF InsertEvent, TypeOK, WorkInv, ThreadInv, HandlerInv
  <2>3. /\ events' = events \cup {Logged(d, left["ws"])} /\ nextEvent' = nextEvent + 1
        /\ NextEntry("ws")
    BY <2>1, <2>2
  <2>4. /\ WorkStays("cleanup")
        /\ todo["ws"] = {} \/ (todo'["ws"] = todo["ws"] /\ left'["ws"] = left["ws"])
    BY <1>0, <2>2, <2>3, NextEntryWork
  <2>5. \A e : (LoggedSince(e) => LoggedSince(e)') /\ (ToVisit(e) => ToVisit(e)')
    BY <2>2, <2>3 DEF LoggedSince, ToVisit
  <2>6. since <= nextEvent
    BY <1>1, <2>2, <2>4 DEF LogInv, WorkStays, CleanupRuns
  <2>7. ASSUME NEW e, ByHandler(e) PROVE LoggedSince(e)' \/ ByHandler(e)'
    <3>1. PICK c \in todo["ws"] \cup cur["ws"] : Same(c, e)
      BY <2>7 DEF ByHandler
    <3>2. CASE c \in todo["ws"]
      BY <2>4, <2>7, <3>1, <3>2 DEF ByHandler
    <3>3. CASE c = d
      <4>. DEFINE v == Logged(d, left["ws"])
      <4>1. v \in events' /\ v.user = e.user /\ v.queue = e.queue /\ v.left = left["ws"]
            /\ v.id = nextEvent /\ left["ws"]
        BY <2>3, <2>7, <3>1, <3>3 DEF Logged, Same, ByHandler
      <4>. HIDE DEF v
      <4>. QED  BY <2>2, <2>6, <4>1 DEF LoggedSince
    <3>. QED  BY <2>2, <3>1, <3>2, <3>3
  <2>. QED  BY <1>5, <2>2, <2>3, <2>4, <2>5, <2>7
<1>13. CASE CleanupLoad
  <2>1. PICK q \in qs :
          /\ qs' = qs \ {q} /\ todo' = [todo EXCEPT !["cleanup"] = EntriesOf(q)]
          /\ pc' = [pc EXCEPT !["cleanup"] = IF EntriesOf(q) = {} THEN "load" ELSE "count"]
    BY <1>13 DEF CleanupLoad
  <2>2. /\ pc["cleanup"] = "load" /\ pc'["cleanup"] \in {"load", "count"} /\ WorkStays("ws")
        /\ todo'["cleanup"] = EntriesOf(q)
        /\ UNCHANGED <<queues, entries, events, nextEvent, seen, since, faults>>
    BY <1>0, <1>13, <2>1 DEF CleanupLoad, TypeOK, WorkStays
  <2>3. \A e : ~ByCleanup(e)
    BY <2>2 DEF ByCleanup, WorkInv, ThreadInv
  <2>4. ASSUME NEW e, ToVisit(e) PROVE ByCleanup(e)' \/ ToVisit(e)'
    BY <2>1, <2>2, <2>4 DEF ToVisit, ByCleanup, EntriesOf, Same
  <2>. QED  BY <1>6, <2>2, <2>3, <2>4 DEF CleanupRuns
<1>14. CASE RemoveAll
  <2>1. /\ pc["cleanup"] = "load" /\ qs = {} /\ WorkStays("ws")
        /\ UNCHANGED <<queues, events, nextEvent, seen, since, faults>>
    BY <1>0, <1>14 DEF RemoveAll, TypeOK, WorkStays
  <2>2. \A e : ~ByCleanup(e) /\ ~ToVisit(e)
    BY <2>1 DEF ByCleanup, ToVisit, WorkInv, ThreadInv
  <2>. QED  BY <1>6, <2>1, <2>2 DEF CleanupRuns
<1>15. CASE ClearAllMotds
  <2>1. pc'["cleanup"] = "idle"
    BY <1>0, <1>15, FinishWork DEF ClearAllMotds
  <2>. QED  BY <1>1, <2>1 DEF CleanupRuns
<1>16. CASE CountHelp("cleanup") \/ CountPresent("cleanup")
  <2>1. /\ WorkStays("ws") /\ CleanupRuns /\ pc'["cleanup"] # "motds"
        /\ UNCHANGED <<queues, entries, events, nextEvent, qs, seen, since, faults>>
    BY <1>0, <1>16 DEF CountHelp, CountPresent, TypeOK, WorkStays, CleanupRuns
  <2>2. todo["cleanup"] \cup cur["cleanup"] \subseteq todo'["cleanup"] \cup cur'["cleanup"]
    <3>1. CASE CountPresent("cleanup")
      BY <3>1 DEF CountPresent
    <3>2. CASE CountHelp("cleanup")
      <4>1. PICK e \in todo["cleanup"] : cur' = [cur EXCEPT !["cleanup"] = {e}]
                                         /\ todo' = [todo EXCEPT !["cleanup"] = @ \ {e}]
        BY <3>2 DEF CountHelp
      <4>2. cur["cleanup"] = {} /\ cur'["cleanup"] = {e} /\ todo'["cleanup"] = todo["cleanup"] \ {e}
        BY <1>0, <3>2, <4>1 DEF CountHelp, TypeOK, WorkInv, ThreadInv
      <4>. QED  BY <4>2
    <3>. QED  BY <1>16, <3>1, <3>2
  <2>3. \A e : (ByCleanup(e) => ByCleanup(e)') /\ (ToVisit(e) => ToVisit(e)')
    BY <2>1, <2>2 DEF ByCleanup, ToVisit
  <2>. QED  BY <1>6, <2>1, <2>3
<1>17. CASE InsertEvent("cleanup")
  <2>1. PICK d \in cur["cleanup"] :
          IF d.queue \in queues
          THEN /\ events' = events \cup {Logged(d, left["cleanup"])}
               /\ nextEvent' = nextEvent + 1 /\ NextEntry("cleanup")
          ELSE Finish("cleanup") /\ UNCHANGED eventVars
    BY <1>17 DEF InsertEvent, Logged
  <2>2. /\ pc["cleanup"] = "event" /\ UNCHANGED <<queues, entries, qs, seen, since, faults>>
        /\ left["cleanup"] /\ cur["cleanup"] = {d} /\ CleanupRuns
    BY <1>0, <1>17 DEF InsertEvent, WorkInv, ThreadInv, LeftInv, CleanupRuns
  <2>3. ~Finish("cleanup")
    BY <1>0, <1>1, FinishWork DEF CleanupRuns
  <2>4. /\ events' = events \cup {Logged(d, left["cleanup"])} /\ nextEvent' = nextEvent + 1
        /\ NextEntry("cleanup")
    BY <2>1, <2>3
  <2>5. /\ WorkStays("ws") /\ pc'["cleanup"] # "motds"
        /\ todo["cleanup"] = {} \/ todo'["cleanup"] = todo["cleanup"]
    BY <1>0, <2>2, <2>4, NextEntryWork
  <2>6. since <= nextEvent
    BY <1>1, <2>2 DEF LogInv
  <2>7. ASSUME NEW e, ByCleanup(e) PROVE LoggedSince(e)' \/ ByCleanup(e)'
    <3>1. PICK c \in todo["cleanup"] \cup cur["cleanup"] : Same(c, e)
      BY <2>7 DEF ByCleanup
    <3>2. CASE c \in todo["cleanup"]
      BY <2>5, <3>1, <3>2 DEF ByCleanup
    <3>3. CASE c = d
      <4>. DEFINE v == Logged(d, left["cleanup"])
      <4>1. v \in events' /\ v.user = e.user /\ v.queue = e.queue /\ v.left = left["cleanup"]
            /\ v.id = nextEvent
        BY <2>4, <3>1, <3>3 DEF Logged, Same
      <4>. HIDE DEF v
      <4>. QED  BY <2>2, <2>6, <4>1 DEF LoggedSince
    <3>. QED  BY <2>2, <3>1, <3>2, <3>3
  <2>8. \A e : ToVisit(e) => ToVisit(e)'
    BY <2>2 DEF ToVisit
  <2>. QED  BY <1>6, <2>2, <2>4, <2>5, <2>7, <2>8
<1>18. CASE UNCHANGED vars
  <2>1. /\ WorkStays("cleanup") /\ UNCHANGED <<left, todo, cur, queues, entries, events>>
        /\ UNCHANGED <<nextEvent, qs, seen, since, faults>>
    BY <1>18 DEF vars, WorkStays
  <2>2. \A e : /\ LoggedSince(e) => LoggedSince(e)'
               /\ ByHandler(e) => ByHandler(e)'
               /\ ToVisit(e) => ToVisit(e)'
    BY <2>1 DEF LoggedSince, ByHandler, ToVisit
  <2>. QED  BY <1>5, <2>1, <2>2
<1>. QED  BY <1>2, <1>3, <1>8, <1>9, <1>10, <1>11, <1>12, <1>13, <1>14, <1>15, <1>16, <1>17, <1>18
          DEF Next, HandlerStep, CleanupStep

\* Whoever a cleanup found queueing has been logged as leaving when it has removed the
\* entries, or is about to be by the handler that is at work.
THEOREM CleanupLogsCorrect == Spec => []CleanupLogs
<1>. DEFINE All == LeftInv /\ OwedInv /\ WorkInv /\ LogInv
<1>1. Init => All
  <2>. SUFFICES ASSUME Init PROVE All
    OBVIOUS
  <2>1. Owed = {}
    BY DEF Init, Owed, Threads
  <2>. QED  BY <2>1 DEF Init, LeftInv, OwedInv, WorkInv, ThreadInv, HandlerInv, SeenInv, LogInv,
                        CleanupRuns, Threads
<1>2. Inv /\ All /\ [Next]_vars => All'
  BY JoinNext, WorkNext, LogNext
<1>3. Inv /\ All => CleanupLogs
  <2>. SUFFICES ASSUME Inv, All, pc["cleanup"] = "motds", faults = 0,
                       NEW e \in seen, e.queue \in queues
                PROVE  \/ \E v \in EventsOf(e.user, e.queue) : v.left /\ v.id >= since
                       \/ left["ws"] /\ \E d \in todo["ws"] \cup cur["ws"] : d.id = e.id
    BY DEF CleanupLogs
  <2>1. LoggedSince(e) \/ ByHandler(e)
    BY DEF LogInv, CleanupRuns, Kept
  <2>. QED  BY <2>1 DEF LoggedSince, ByHandler, EventsOf, Same
<1>. QED  BY <1>1, <1>2, <1>3, Invariance, PTL DEF Spec
=============================================================================
