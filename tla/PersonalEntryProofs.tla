------------------------- MODULE PersonalEntryProofs -------------------------
(***************************************************************************)
(* Proofs about PersonalEntry, for any number of tabs, texts and inputs.   *)
(* TabInv says of a user's only tab that the requests and events on their  *)
(* way, and the call held back, are about the present stay; Agreement says *)
(* of every tab where its events lead, and that the form is what it saw.   *)
(* ExchangeShrinks is about sums over queues and tabs; what a sum does     *)
(* when a member goes, comes or changes is proved from Partial, by the     *)
(* least number that would be an exception (NatInductionInSet).            *)
(***************************************************************************)
EXTENDS PersonalEntry, SequenceTheorems, WellFoundedInduction, TLAPS

Asked == [path : {"joinQueue", "updateQueueEntry", "setHelpStatus", "leaveQueue"},
          fields : Fields, since : Nat \cup BOOLEAN \cup {None}]

\* Of the requests on their way, joins and updates are complete.
Requests ==
  {r \in Asked :
     /\ r.path = "joinQueue" => Complete(r.fields) /\ r.since \in BOOLEAN
     /\ r.path = "updateQueueEntry" => Complete(r.fields) /\ r.since \in Nat}

Updates == {r \in Requests : r.path = "updateQueueEntry"}

Told == [path : {"joinQueue", "updateQueueEntry", "leaveQueue", "others"}, row : Rows \cup {None}]

Events == {e \in Told : e.path \in {"joinQueue", "updateQueueEntry"} => e.row \in Rows}

Types ==
  /\ \A t \in Open : located[t] \in Places \cup {Empty}
  /\ entry \in Rows \cup {None}
  /\ shown \in [Open -> Rows \cup {None}]
  /\ form \in [Open -> Fields]
  /\ pending \in [Open -> Updates \cup {None}]
  /\ requests \in [Open -> Seq(Requests)]
  /\ events \in [Open -> Seq(Events)]
  /\ inputs \in Nat

-----------------------------------------------------------------------------
(* Types.                                                                  *)

LEMMA FormOfType ==
  ASSUME NEW p \in Places \cup {Empty}, NEW r \in Rows \cup {None}
  PROVE  /\ FormOf(p, r) \in Fields
         /\ r # None => FormOf(p, r).help = r.help /\ FormOf(p, r).comment = r.comment
         /\ r = None => FormOf(p, r).comment = Empty
BY DEF FormOf, NoFields, Fields, Rows

LEMMA CorrectionsType ==
  ASSUME NEW p \in Places \cup {Empty}, NEW r \in Rows \cup {None}
  PROVE  /\ Corrections(p, r) \in Seq(Requests)
         /\ p = Empty \/ r = None => Corrections(p, r) = <<>>
         /\ \A i \in DOMAIN Corrections(p, r) :
              /\ Corrections(p, r)[i].path = "updateQueueEntry"
              /\ Corrections(p, r)[i].since = r.since
<1>1. CASE p # Empty /\ r # None /\ r.location # p
  <2>. DEFINE f == FormOf(p, r)  g == [f EXCEPT !.help = TRUE]
              a == Request("updateQueueEntry", f, r.since)
              b == Request("updateQueueEntry", g, r.since)
  <2>1. f \in Fields /\ g \in Fields
    <3>1. f \in Fields
      BY FormOfType
    <3>. HIDE DEF f
    <3>. QED  BY <3>1 DEF Fields
  <2>2. Complete(f) /\ Complete(g)
    BY <1>1, PersonalEntryAssumption DEF FormOf, Rows, Complete
  <2>. HIDE DEF f, g
  <2>3. r.since \in Nat
    BY <1>1 DEF Rows
  <2>4. a \in Requests /\ b \in Requests
    BY <2>1, <2>2, <2>3 DEF Requests, Asked, Request
  <2>5. /\ a.path = "updateQueueEntry" /\ a.since = r.since
        /\ b.path = "updateQueueEntry" /\ b.since = r.since
    BY DEF Request
  <2>6. Corrections(p, r) = <<a, b>>
    BY <1>1 DEF Corrections, f, g
  <2>. HIDE DEF a, b
  <2>. QED  BY <1>1, <2>4, <2>5, <2>6
<1>2. CASE ~(p # Empty /\ r # None /\ r.location # p)
  <2>1. Corrections(p, r) = <<>>
    BY <1>2 DEF Corrections
  <2>. QED  BY <2>1
<1>. QED  BY <1>1, <1>2

LEMMA InitType == Init => Types
<1>. SUFFICES ASSUME Init PROVE Types
  OBVIOUS
<1>1. \A t \in Open : located[t] \in Places \cup {Empty}
  <2>1. PICK n \in 1 .. MaxTabs : located \in [1 .. n -> Places \cup {Empty}]
    BY DEF Init
  <2>. QED  BY <2>1 DEF Open
<1>2. entry \in Rows \cup {None}
  <2>1. ASSUME NEW f \in Fields, Complete(f) PROVE Row(f, 0, FALSE) \in Rows
    BY <2>1 DEF Fields, Complete, Row, Rows
  <2>. QED  BY <2>1 DEF Init
<1>3. shown \in [Open -> Rows \cup {None}]
  BY <1>2 DEF Init
<1>. HIDE DEF Open
<1>4. form \in [Open -> Fields]
  BY <1>1, <1>2, FormOfType DEF Init
<1>5. requests \in [Open -> Seq(Requests)]
  BY <1>1, <1>2, CorrectionsType DEF Init
<1>6. /\ pending \in [Open -> Updates \cup {None}] /\ events \in [Open -> Seq(Events)]
      /\ inputs \in Nat
  BY DEF Init
<1>. QED  BY <1>1, <1>2, <1>3, <1>4, <1>5, <1>6 DEF Types

LEMMA SendType ==
  ASSUME Types, NEW t \in Open, NEW r \in Requests, Send(t, r)
  PROVE  requests' \in [Open -> Seq(Requests)]
<1>1. requests \in [Open -> Seq(Requests)]
  BY DEF Types
<1>2. Append(requests[t], r) \in Seq(Requests)
  BY <1>1
<1>. QED  BY <1>1, <1>2 DEF Send

LEMMA SendLaterType ==
  ASSUME Types, NEW t \in Open, NEW f \in Fields, SendLater(t, f)
  PROVE  pending' \in [Open -> Updates \cup {None}]
<1>1. /\ pending \in [Open -> Updates \cup {None}]
      /\ shown[t] # None => shown[t].since \in Nat
  BY DEF Types, Rows
<1>. DEFINE r == Request("updateQueueEntry", f, shown[t].since)
<1>2. ASSUME shown[t] # None, Complete(f) PROVE r \in Updates
  BY <1>1, <1>2 DEF Updates, Requests, Asked, Request
<1>3. pending' = [pending EXCEPT ![t] = IF shown[t] # None /\ Complete(f) THEN r ELSE None]
  BY DEF SendLater
<1>. HIDE DEF r
<1>. QED  BY <1>1, <1>2, <1>3

LEMMA AnnounceType ==
  ASSUME Types, NEW e \in Events, Announce(e)
  PROVE  events' \in [Open -> Seq(Events)]
<1>1. events \in [Open -> Seq(Events)]
  BY DEF Types
<1>2. \A t \in Open : Append(events[t], e) \in Seq(Events)
  BY <1>1
<1>. QED  BY <1>1, <1>2 DEF Announce

\* What the server does with the entry: it changes the row, or takes it away, or nothing.
LEMMA ServerType ==
  ASSUME Types
  PROVE  /\ \A r \in Requests : r.path = "joinQueue" /\ JoinQueue(r) =>
               entry' \in Rows \cup {None} /\ events' \in [Open -> Seq(Events)]
         /\ \A r \in Requests : r.path = "updateQueueEntry" /\ UpdateQueueEntry(r) =>
               entry' \in Rows \cup {None} /\ events' \in [Open -> Seq(Events)]
         /\ SetHelpStatus \/ LeaveQueue =>
               entry' \in Rows \cup {None} /\ events' \in [Open -> Seq(Events)]
<1>0. entry \in Rows \cup {None} /\ events \in [Open -> Seq(Events)] /\ inputs \in Nat
  BY DEF Types
<1>1. ASSUME Fail PROVE entry' \in Rows \cup {None} /\ events' \in [Open -> Seq(Events)]
  BY <1>0, <1>1 DEF Fail
<1>2. ASSUME NEW e \in Rows, Change(e)
      PROVE  entry' \in Rows \cup {None} /\ events' \in [Open -> Seq(Events)]
  <2>1. Event("updateQueueEntry", e) \in Events
    BY DEF Events, Told, Event
  <2>. QED  BY <1>2, <2>1, AnnounceType DEF Change
<1>3. ASSUME NEW r \in Requests, r.path = "joinQueue", JoinQueue(r)
      PROVE  entry' \in Rows \cup {None} /\ events' \in [Open -> Seq(Events)]
  <2>1. r.fields \in Fields /\ Complete(r.fields) /\ r.since \in BOOLEAN
    BY <1>3 DEF Requests, Asked
  <2>2. Row(r.fields, inputs, r.since) \in Rows
    BY <1>0, <2>1 DEF Row, Rows, Fields, Complete
  <2>3. CASE Fail
    BY <1>1, <2>3
  <2>4. CASE entry' = Row(r.fields, inputs, r.since) /\ Announce(Event("joinQueue", entry'))
    <3>1. Event("joinQueue", entry') \in Events
      BY <2>2, <2>4 DEF Events, Told, Event
    <3>. QED  BY <2>2, <2>4, <3>1, AnnounceType
  <2>. QED  BY <1>3, <2>3, <2>4 DEF JoinQueue
<1>4. ASSUME NEW r \in Requests, r.path = "updateQueueEntry", UpdateQueueEntry(r)
      PROVE  entry' \in Rows \cup {None} /\ events' \in [Open -> Seq(Events)]
  <2>1. r.fields \in Fields /\ Complete(r.fields)
    BY <1>4 DEF Requests, Asked
  <2>2. CASE entry = None
    BY <1>1, <1>4, <2>2 DEF UpdateQueueEntry
  <2>3. CASE entry # None
    <3>. DEFINE e == [entry EXCEPT !.comment = r.fields.comment,
                                   !.location = r.fields.location, !.help = r.fields.help]
    <3>1. e \in Rows
      BY <1>0, <2>1, <2>3 DEF Rows, Fields, Complete
    <3>2. Change(e)
      BY <1>4, <2>3 DEF UpdateQueueEntry
    <3>. HIDE DEF e
    <3>. QED  BY <1>2, <3>1, <3>2
  <2>. QED  BY <2>2, <2>3
<1>5. ASSUME SetHelpStatus
      PROVE  entry' \in Rows \cup {None} /\ events' \in [Open -> Seq(Events)]
  BY <1>0, <1>1, <1>2, <1>5 DEF SetHelpStatus
<1>6. ASSUME LeaveQueue
      PROVE  entry' \in Rows \cup {None} /\ events' \in [Open -> Seq(Events)]
  <2>1. Event("leaveQueue", None) \in Events
    BY DEF Events, Told, Event
  <2>. QED  BY <1>1, <1>6, <2>1, AnnounceType DEF LeaveQueue
<1>. QED  BY <1>3, <1>4, <1>5, <1>6

LEMMA ReceiveType ==
  ASSUME Types, NEW t \in Open, Receive(t)
  PROVE  /\ shown' \in [Open -> Rows \cup {None}] /\ form' \in [Open -> Fields]
         /\ requests' \in [Open -> Seq(Requests)] /\ events' \in [Open -> Seq(Events)]
<1>0. /\ shown \in [Open -> Rows \cup {None}] /\ form \in [Open -> Fields]
      /\ requests \in [Open -> Seq(Requests)] /\ events \in [Open -> Seq(Events)]
      /\ located[t] \in Places \cup {Empty}
  BY DEF Types
<1>1. events[t] \in Seq(Events) /\ events[t] # <<>>
  BY <1>0 DEF Receive
<1>2. Head(events[t]) \in Events /\ Tail(events[t]) \in Seq(Events)
  BY <1>1
<1>3. Reduce(shown[t], Head(events[t])) \in Rows \cup {None}
  BY <1>0, <1>2 DEF Reduce, Events, Told
<1>4. /\ shown' = [shown EXCEPT ![t] = Reduce(shown[t], Head(events[t]))]
      /\ events' = [events EXCEPT ![t] = Tail(events[t])]
  BY DEF Receive
<1>5. shown' \in [Open -> Rows \cup {None}] /\ events' \in [Open -> Seq(Events)]
  BY <1>0, <1>2, <1>3, <1>4
<1>6. shown'[t] \in Rows \cup {None}
  BY <1>5
<1>7. FormOf(located[t], shown'[t]) \in Fields
      /\ Corrections(located[t], shown'[t]) \in Seq(Requests)
  BY <1>0, <1>6, FormOfType, CorrectionsType
<1>8. requests[t] \o Corrections(located[t], shown'[t]) \in Seq(Requests)
  BY <1>0, <1>7
<1>9. form' \in [Open -> Fields] /\ requests' \in [Open -> Seq(Requests)]
  BY <1>0, <1>7, <1>8 DEF Receive
<1>. QED  BY <1>5, <1>9

LEMMA TabStepType ==
  ASSUME Types, NEW t \in Open, TabStep(t)
  PROVE  Types'
<1>0. /\ \A u \in Open : located[u] \in Places \cup {Empty}
      /\ entry \in Rows \cup {None} /\ shown \in [Open -> Rows \cup {None}]
      /\ form \in [Open -> Fields] /\ pending \in [Open -> Updates \cup {None}]
      /\ requests \in [Open -> Seq(Requests)] /\ events \in [Open -> Seq(Events)]
      /\ inputs \in Nat
  BY DEF Types
<1>. DEFINE Goal == /\ located' = located
                    /\ entry' \in Rows \cup {None} /\ shown' \in [Open -> Rows \cup {None}]
                    /\ form' \in [Open -> Fields] /\ pending' \in [Open -> Updates \cup {None}]
                    /\ requests' \in [Open -> Seq(Requests)] /\ events' \in [Open -> Seq(Events)]
                    /\ inputs' \in Nat
<1>. SUFFICES Goal
  BY <1>0 DEF Types, Open
<1>1. ASSUME Input PROVE inputs' \in Nat
  BY <1>0, <1>1 DEF Input
<1>2. ASSUME NEW f \in Fields, form' = [form EXCEPT ![t] = f] PROVE form' \in [Open -> Fields]
  BY <1>0, <1>2
<1>3. ASSUME NEW c \in Comments \cup {Empty}, ChangeComment(t, c) PROVE Goal
  <2>. DEFINE f == [form[t] EXCEPT !.comment = c]
  <2>1. form[t] \in Fields
    BY <1>0
  <2>2. f \in Fields
    BY <2>1 DEF Fields
  <2>3. form' = [form EXCEPT ![t] = f]
    BY <1>3 DEF ChangeComment
  <2>4. form' \in [Open -> Fields] /\ form'[t] \in Fields
    BY <1>2, <2>2, <2>3
  <2>5. pending' \in [Open -> Updates \cup {None}]
    BY <1>3, <2>4, SendLaterType DEF ChangeComment
  <2>. QED  BY <1>0, <1>1, <1>3, <2>4, <2>5 DEF ChangeComment
<1>4. ASSUME NEW p \in Places \cup {Empty}, ChangeLocation(t, p) PROVE Goal
  <2>. DEFINE f == [form[t] EXCEPT !.location = p]
  <2>1. form[t] \in Fields
    BY <1>0
  <2>2. f \in Fields
    BY <2>1 DEF Fields
  <2>3. form' = [form EXCEPT ![t] = f]
    BY <1>4 DEF ChangeLocation
  <2>4. form' \in [Open -> Fields] /\ form'[t] \in Fields
    BY <1>2, <2>2, <2>3
  <2>5. pending' \in [Open -> Updates \cup {None}]
    BY <1>4, <2>4, SendLaterType DEF ChangeLocation
  <2>. QED  BY <1>0, <1>1, <1>4, <2>4, <2>5 DEF ChangeLocation
<1>5. CASE ChangeHelp(t)
  <2>. DEFINE f == [form[t] EXCEPT !.help = ~form[t].help]
  <2>1. form[t] \in Fields
    BY <1>0
  <2>2. f \in Fields
    BY <2>1 DEF Fields
  <2>3. form' = [form EXCEPT ![t] = f]
    BY <1>5 DEF ChangeHelp
  <2>4. form' \in [Open -> Fields]
    BY <1>2, <2>2, <2>3
  <2>. QED  BY <1>0, <1>1, <1>5, <2>4 DEF ChangeHelp
<1>6. CASE EnterQueue(t)
  <2>1. form[t] \in Fields /\ Complete(form[t]) /\ Joining(t) \in BOOLEAN
    BY <1>0, <1>6 DEF EnterQueue, Joining
  <2>2. Request("joinQueue", form[t], Joining(t)) \in Requests
    BY <2>1 DEF Requests, Asked, Request
  <2>3. requests' \in [Open -> Seq(Requests)]
    BY <1>6, <2>2, SendType DEF EnterQueue
  <2>. QED  BY <1>0, <1>1, <1>6, <2>3 DEF EnterQueue
<1>7. ASSUME NEW path \in {"setHelpStatus", "leaveQueue"}, Press(t, path) PROVE Goal
  <2>1. Request(path, NoFields, None) \in Requests
    BY DEF Requests, Asked, Request, NoFields, Fields
  <2>2. requests' \in [Open -> Seq(Requests)]
    BY <1>7, <2>1, SendType DEF Press
  <2>. QED  BY <1>0, <1>1, <1>7, <2>2 DEF Press
<1>8. CASE Debounced(t)
  <2>1. pending[t] \in Requests
    BY <1>0, <1>8 DEF Debounced, Updates
  <2>2. requests' \in [Open -> Seq(Requests)]
    BY <1>8, <2>1, SendType DEF Debounced
  <2>. QED  BY <1>0, <1>8, <2>2 DEF Debounced
<1>9. CASE Receive(t)
  <2>1. UNCHANGED <<located, entry, pending, inputs>>
    BY <1>9 DEF Receive
  <2>. QED  BY <1>0, <1>9, <2>1, ReceiveType
<1>10. CASE Handle(t)
  <2>1. requests[t] \in Seq(Requests) /\ requests[t] # <<>>
    BY <1>0, <1>10 DEF Handle
  <2>2. Head(requests[t]) \in Requests /\ Tail(requests[t]) \in Seq(Requests)
    BY <2>1
  <2>3. entry' \in Rows \cup {None} /\ events' \in [Open -> Seq(Events)]
    BY <1>10, <2>2, ServerType DEF Handle
  <2>4. requests' = [requests EXCEPT ![t] = Tail(requests[t])]
        /\ UNCHANGED <<located, shown, form, pending, inputs>>
    BY <1>10 DEF Handle
  <2>5. requests' \in [Open -> Seq(Requests)]
    BY <1>0, <2>2, <2>4
  <2>. QED  BY <1>0, <2>3, <2>4, <2>5
<1>11. CASE ReceiveHelp(t) \/ Leave(t)
  BY <1>7, <1>11 DEF ReceiveHelp, Leave
<1>. QED  BY <1>3, <1>4, <1>5, <1>6, <1>8, <1>9, <1>10, <1>11 DEF TabStep

LEMMA StepType == Types /\ [Next]_vars => Types'
<1>. SUFFICES ASSUME Types, [Next]_vars PROVE Types'
  OBVIOUS
<1>1. ASSUME NEW t \in Open, TabStep(t) PROVE Types'
  BY <1>1, TabStepType
<1>2. CASE Kick \/ SetUserHelpStatus
  <2>1. entry' \in Rows \cup {None} /\ events' \in [Open -> Seq(Events)]
    BY <1>2, ServerType DEF Kick, SetUserHelpStatus
  <2>2. inputs' \in Nat /\ UNCHANGED <<located, shown, form, pending, requests>>
    BY <1>2 DEF Types, Kick, SetUserHelpStatus, Input
  <2>. QED  BY <2>1, <2>2 DEF Types, Open
<1>3. CASE OthersEntry
  <2>1. Event("others", None) \in Events
    BY DEF Events, Told, Event
  <2>2. events' \in [Open -> Seq(Events)]
    BY <1>3, <2>1, AnnounceType DEF OthersEntry
  <2>3. inputs' \in Nat /\ UNCHANGED <<located, entry, shown, form, pending, requests>>
    BY <1>3 DEF Types, OthersEntry, Input
  <2>. QED  BY <2>2, <2>3 DEF Types, Open
<1>4. CASE UNCHANGED vars
  BY <1>4 DEF Types, Open, vars
<1>. QED  BY <1>1, <1>2, <1>3, <1>4 DEF Next

\* The tabs that are open stay the same.
Located == located \in UNION {[1 .. n -> Places \cup {Empty}] : n \in 1 .. MaxTabs}

LEMMA StepLocated == [Next]_vars => located' = located
<1>1. ASSUME NEW t \in Open, TabStep(t) PROVE located' = located
  <2>1. ASSUME NEW c, ChangeComment(t, c) PROVE located' = located
    BY <2>1 DEF ChangeComment
  <2>2. ASSUME NEW p, ChangeLocation(t, p) PROVE located' = located
    BY <2>2 DEF ChangeLocation
  <2>. QED  BY <1>1, <2>1, <2>2 DEF TabStep, ChangeHelp, EnterQueue, ReceiveHelp, Leave, Press,
               Debounced, Receive, Handle
<1>. QED  BY <1>1 DEF Next, Kick, SetUserHelpStatus, OthersEntry, vars

\* The types hold for any number of tabs: whatever is typed while events arrive, a join or
\* an update on its way, or held back, is complete (enterQueue and changeComment of the form).
THEOREM TypeCorrect == Spec => []TypeOK
<1>1. Init => Types /\ Located
  BY InitType DEF Init, Located
<1>2. Types /\ Located /\ [Next]_vars => (Types /\ Located)'
  BY StepType, StepLocated DEF Located
<1>3. Types /\ Located => TypeOK
  <2>. SUFFICES ASSUME Types, Located PROVE TypeOK
    OBVIOUS
  <2>1. \A t \in Open : pending[t] = None \/ Complete(pending[t].fields)
    BY DEF Types, Updates, Requests
  <2>2. \A t \in Open : \A i \in DOMAIN requests[t] :
          requests[t][i].path \in {"joinQueue", "updateQueueEntry"} => Complete(requests[t][i].fields)
    <3>. SUFFICES ASSUME NEW t \in Open, NEW i \in DOMAIN requests[t]
                  PROVE  requests[t][i].path \in {"joinQueue", "updateQueueEntry"} => Complete(requests[t][i].fields)
      OBVIOUS
    <3>1. requests[t] \in Seq(Requests)
      BY DEF Types
    <3>2. requests[t][i] \in Requests
      BY <3>1
    <3>. QED  BY <3>2 DEF Requests
  <2>. QED  BY <2>1, <2>2 DEF Types, Located, TypeOK
<1>. QED  BY <1>1, <1>2, <1>3, PTL DEF Spec

-----------------------------------------------------------------------------
(* One tab: what is on its way, and the stay it belongs to.                *)

Fresh(r) == r.path = "joinQueue" /\ r.since = FALSE

NoJoin(s) == \A i \in DOMAIN s : s[i].path # "joinQueue"

\* While a join that is not early is on its way, the tab has nothing else to do with a stay:
\* it shows no entry, holds nothing back, and has sent no update behind it.
JoinInv(R, E, sh, p) ==
  \A j \in DOMAIN R : Fresh(R[j]) =>
    /\ sh = None /\ p = None /\ NoJoin(E)
    /\ \A i \in DOMAIN R : /\ i < j => R[i].path # "joinQueue"
                           /\ i > j => R[i].path # "updateQueueEntry"

RowFits(r, e, place) == r.since = e.since /\ (place = Empty => r.help = e.help)

RequestFits(r, e, place) == r.since = e.since /\ (place = Empty => r.fields.help = e.help)

\* Of an entry that is not early, everything that is on its way in either direction, and
\* that will have an effect, is about the present stay.
StayInv(R, E, sh, p, e, place) ==
  e # None /\ e.early = FALSE =>
    /\ sh # None => RowFits(sh, e, place)
    /\ p # None => RequestFits(p, e, place)
    /\ \A i \in DOMAIN R : R[i].path = "updateQueueEntry" => RequestFits(R[i], e, place)
    /\ \A k \in DOMAIN E : E[k].path = "joinQueue" => RowFits(E[k].row, e, place)
    /\ \A k \in DOMAIN E :
         /\ E[k].path = "updateQueueEntry"
         /\ sh # None \/ \E j \in DOMAIN E : j < k /\ E[j].path = "joinQueue"
         => RowFits(E[k].row, e, place)

\* The form of a user who is not queued any more lacks the comment until it is typed anew,
\* which cancels what was held back.
FormInv(f, sh, p) ==
  /\ sh = None /\ p # None => ~Complete(f)
  /\ sh # None => f.help = sh.help

TabInv(t) ==
  /\ FormInv(form[t], shown[t], pending[t])
  /\ JoinInv(requests[t], events[t], shown[t], pending[t])
  /\ StayInv(requests[t], events[t], shown[t], pending[t], entry, located[t])

LEMMA JoinTail ==
  ASSUME NEW R \in Seq(Requests), R # <<>>, NEW E, NEW sh, NEW p, JoinInv(R, E, sh, p)
  PROVE  JoinInv(Tail(R), E, sh, p)
<1>1. /\ Len(R) \in Nat /\ DOMAIN R = 1 .. Len(R) /\ DOMAIN Tail(R) = 1 .. Len(R) - 1
      /\ \A i \in 1 .. Len(R) - 1 : Tail(R)[i] = R[i + 1] /\ i + 1 \in DOMAIN R
  BY HeadTailProperties
<1>2. ASSUME NEW j \in DOMAIN Tail(R), Fresh(Tail(R)[j])
      PROVE  /\ sh = None /\ p = None /\ NoJoin(E)
             /\ \A i \in DOMAIN Tail(R) : /\ i < j => Tail(R)[i].path # "joinQueue"
                                          /\ i > j => Tail(R)[i].path # "updateQueueEntry"
  <2>1. Fresh(R[j + 1]) /\ j + 1 \in DOMAIN R
    BY <1>1, <1>2
  <2>2. ASSUME NEW i \in DOMAIN Tail(R)
        PROVE  (i < j => i + 1 < j + 1) /\ (i > j => i + 1 > j + 1) /\ i + 1 \in DOMAIN R
    BY <1>1
  <2>. QED  BY <1>1, <2>1, <2>2 DEF JoinInv
<1>. QED  BY <1>2 DEF JoinInv

LEMMA JoinSend ==
  ASSUME NEW R \in Seq(Requests), NEW E, NEW sh, NEW p, JoinInv(R, E, sh, p),
         NEW r \in Requests,
         Fresh(r) => sh = None /\ p = None /\ NoJoin(E) /\ NoJoin(R),
         r.path = "updateQueueEntry" => \A j \in DOMAIN R : ~Fresh(R[j])
  PROVE  JoinInv(Append(R, r), E, sh, p)
<1>1. /\ Len(R) \in Nat /\ DOMAIN R = 1 .. Len(R) /\ DOMAIN Append(R, r) = 1 .. Len(R) + 1
      /\ \A i \in 1 .. Len(R) : Append(R, r)[i] = R[i]
      /\ Append(R, r)[Len(R) + 1] = r
  BY AppendProperties
<1>2. ASSUME NEW j \in 1 .. Len(R) + 1, Fresh(Append(R, r)[j])
      PROVE  /\ sh = None /\ p = None /\ NoJoin(E)
             /\ \A i \in 1 .. Len(R) + 1 :
                  /\ i < j => Append(R, r)[i].path # "joinQueue"
                  /\ i > j => Append(R, r)[i].path # "updateQueueEntry"
  <2>1. CASE j \in 1 .. Len(R)
    <3>1. Fresh(R[j])
      BY <1>1, <1>2, <2>1
    <3>2. /\ sh = None /\ p = None /\ NoJoin(E)
          /\ \A i \in 1 .. Len(R) : /\ i < j => R[i].path # "joinQueue"
                                    /\ i > j => R[i].path # "updateQueueEntry"
      BY <1>1, <2>1, <3>1 DEF JoinInv
    <3>3. r.path # "updateQueueEntry"
      BY <1>1, <2>1, <3>1
    <3>. QED  BY <1>1, <2>1, <3>2, <3>3
  <2>2. CASE j = Len(R) + 1
    <3>1. Fresh(r)
      BY <1>1, <1>2, <2>2
    <3>2. \A i \in 1 .. Len(R) : R[i].path # "joinQueue"
      BY <1>1, <3>1 DEF NoJoin
    <3>. QED  BY <1>1, <2>2, <3>1, <3>2
  <2>. QED  BY <1>1, <2>1, <2>2
<1>. QED  BY <1>1, <1>2 DEF JoinInv

LEMMA JoinTell ==
  ASSUME NEW R, NEW E \in Seq(Events), NEW sh, NEW p, JoinInv(R, E, sh, p), NEW u \in Events,
         u.path = "joinQueue" => \A j \in DOMAIN R : ~Fresh(R[j])
  PROVE  JoinInv(R, Append(E, u), sh, p)
<1>1. /\ Len(E) \in Nat /\ DOMAIN E = 1 .. Len(E) /\ DOMAIN Append(E, u) = 1 .. Len(E) + 1
      /\ \A i \in 1 .. Len(E) : Append(E, u)[i] = E[i]
      /\ Append(E, u)[Len(E) + 1] = u
  BY AppendProperties
<1>2. NoJoin(E) /\ u.path # "joinQueue" => NoJoin(Append(E, u))
  BY <1>1 DEF NoJoin
<1>. QED  BY <1>2 DEF JoinInv

LEMMA StayTail ==
  ASSUME NEW R \in Seq(Requests), R # <<>>, NEW E, NEW sh, NEW p, NEW e, NEW place,
         StayInv(R, E, sh, p, e, place)
  PROVE  StayInv(Tail(R), E, sh, p, e, place)
<1>1. /\ Len(R) \in Nat /\ DOMAIN R = 1 .. Len(R) /\ DOMAIN Tail(R) = 1 .. Len(R) - 1
      /\ \A i \in 1 .. Len(R) - 1 : Tail(R)[i] = R[i + 1] /\ i + 1 \in DOMAIN R
  BY HeadTailProperties
<1>2. ASSUME e # None, e.early = FALSE, NEW i \in DOMAIN Tail(R), Tail(R)[i].path = "updateQueueEntry"
      PROVE  RequestFits(Tail(R)[i], e, place)
  <2>1. i + 1 \in DOMAIN R /\ Tail(R)[i] = R[i + 1]
    BY <1>1
  <2>. QED  BY <1>2, <2>1 DEF StayInv
<1>. QED  BY <1>2 DEF StayInv

LEMMA StaySend ==
  ASSUME NEW R \in Seq(Requests), NEW E, NEW sh, NEW p, NEW e, NEW place,
         StayInv(R, E, sh, p, e, place), NEW r \in Requests,
         e # None /\ e.early = FALSE /\ r.path = "updateQueueEntry" => RequestFits(r, e, place)
  PROVE  StayInv(Append(R, r), E, sh, p, e, place)
<1>1. /\ Len(R) \in Nat /\ DOMAIN R = 1 .. Len(R) /\ DOMAIN Append(R, r) = 1 .. Len(R) + 1
      /\ \A i \in 1 .. Len(R) : Append(R, r)[i] = R[i]
      /\ Append(R, r)[Len(R) + 1] = r
  BY AppendProperties
<1>2. ASSUME e # None, e.early = FALSE, NEW i \in DOMAIN Append(R, r),
             Append(R, r)[i].path = "updateQueueEntry"
      PROVE  RequestFits(Append(R, r)[i], e, place)
  <2>1. CASE i \in 1 .. Len(R)
    <3>1. Append(R, r)[i] = R[i] /\ i \in DOMAIN R
      BY <1>1, <2>1
    <3>. QED  BY <1>2, <3>1 DEF StayInv
  <2>2. CASE i = Len(R) + 1
    BY <1>1, <1>2, <2>2
  <2>. QED  BY <1>1, <2>1, <2>2
<1>. QED  BY <1>2 DEF StayInv

LEMMA StayTell ==
  ASSUME NEW R, NEW E \in Seq(Events), NEW sh, NEW p, NEW e, NEW place,
         StayInv(R, E, sh, p, e, place), NEW u \in Events,
         e # None /\ e.early = FALSE /\ u.path \in {"joinQueue", "updateQueueEntry"}
           => RowFits(u.row, e, place)
  PROVE  StayInv(R, Append(E, u), sh, p, e, place)
<1>. DEFINE N == Append(E, u)
<1>1. /\ Len(E) \in Nat /\ DOMAIN E = 1 .. Len(E) /\ DOMAIN N = 1 .. Len(E) + 1
      /\ \A i \in 1 .. Len(E) : N[i] = E[i]
      /\ N[Len(E) + 1] = u
  BY AppendProperties
<1>. HIDE DEF N
<1>. SUFFICES ASSUME e # None, e.early = FALSE
              PROVE  /\ \A k \in DOMAIN N : N[k].path = "joinQueue" => RowFits(N[k].row, e, place)
                     /\ \A k \in DOMAIN N :
                          /\ N[k].path = "updateQueueEntry"
                          /\ sh # None \/ \E j \in DOMAIN N : j < k /\ N[j].path = "joinQueue"
                          => RowFits(N[k].row, e, place)
  BY DEF StayInv, N
<1>2. ASSUME NEW k \in DOMAIN N, N[k].path = "joinQueue" PROVE RowFits(N[k].row, e, place)
  <2>1. CASE k \in 1 .. Len(E)
    BY <1>1, <1>2, <2>1 DEF StayInv
  <2>2. CASE k = Len(E) + 1
    BY <1>1, <1>2, <2>2
  <2>. QED  BY <1>1, <2>1, <2>2
<1>3. ASSUME NEW k \in DOMAIN N, N[k].path = "updateQueueEntry",
             sh # None \/ \E j \in DOMAIN N : j < k /\ N[j].path = "joinQueue"
      PROVE  RowFits(N[k].row, e, place)
  <2>1. CASE k \in 1 .. Len(E)
    <3>1. sh # None \/ \E j \in DOMAIN E : j < k /\ E[j].path = "joinQueue"
      BY <1>1, <1>3, <2>1
    <3>2. N[k] = E[k] /\ k \in DOMAIN E
      BY <1>1, <2>1
    <3>. QED  BY <1>3, <3>1, <3>2 DEF StayInv
  <2>2. CASE k = Len(E) + 1
    BY <1>1, <1>3, <2>2
  <2>. QED  BY <1>1, <2>1, <2>2
<1>. QED  BY <1>2, <1>3

\* An update of the entry changes neither the stay nor what the tab may not change.
LEMMA StayUpdate ==
  ASSUME NEW R, NEW E, NEW sh, NEW p, NEW e, NEW d, NEW place, StayInv(R, E, sh, p, e, place),
         e # None, d.since = e.since, d.early = e.early,
         e.early = FALSE /\ place = Empty => d.help = e.help
  PROVE  StayInv(R, E, sh, p, d, place)
BY DEF StayInv, RowFits, RequestFits

LEMMA ReceiveFits ==
  ASSUME NEW R, NEW E \in Seq(Events), E # <<>>, NEW sh \in Rows \cup {None}, NEW p, NEW e,
         NEW place, StayInv(R, E, sh, p, e, place)
  PROVE  StayInv(R, Tail(E), Reduce(sh, Head(E)), p, e, place)
<1>. DEFINE N == Tail(E)  new == Reduce(sh, Head(E))
<1>1. /\ Len(E) \in Nat /\ Len(E) > 0 /\ DOMAIN E = 1 .. Len(E) /\ DOMAIN N = 1 .. Len(E) - 1
      /\ \A i \in 1 .. Len(E) - 1 : N[i] = E[i + 1] /\ i + 1 \in DOMAIN E
      /\ Head(E) = E[1] /\ 1 \in DOMAIN E /\ E[1] \in Events
  BY HeadTailProperties
<1>2. new # None => sh # None \/ E[1].path = "joinQueue"
  BY <1>1 DEF Reduce, Events, Told
<1>3. ASSUME e # None, e.early = FALSE, new # None PROVE RowFits(new, e, place)
  <2>1. CASE new = sh
    BY <1>3, <2>1 DEF StayInv
  <2>2. CASE new # sh
    <3>1. /\ new = E[1].row
          /\ E[1].path = "joinQueue" \/ (E[1].path = "updateQueueEntry" /\ sh # None)
      BY <1>1, <1>3, <2>2 DEF Reduce, Events, Told
    <3>. QED  BY <1>1, <1>3, <3>1 DEF StayInv
  <2>. QED  BY <2>1, <2>2
<1>. HIDE DEF N, new
<1>4. ASSUME e # None, e.early = FALSE, NEW k \in DOMAIN N, N[k].path = "joinQueue"
      PROVE  RowFits(N[k].row, e, place)
  BY <1>1, <1>4 DEF StayInv
<1>5. ASSUME e # None, e.early = FALSE, NEW k \in DOMAIN N, N[k].path = "updateQueueEntry",
             new # None \/ \E j \in DOMAIN N : j < k /\ N[j].path = "joinQueue"
      PROVE  RowFits(N[k].row, e, place)
  <2>1. N[k] = E[k + 1] /\ k + 1 \in DOMAIN E
    BY <1>1
  <2>2. sh # None \/ \E j \in DOMAIN E : j < k + 1 /\ E[j].path = "joinQueue"
    <3>1. CASE new # None
      <4>1. 1 < k + 1 /\ 1 \in DOMAIN E
        BY <1>1
      <4>. QED  BY <1>2, <3>1, <4>1
    <3>2. ASSUME NEW j \in DOMAIN N, j < k, N[j].path = "joinQueue"
          PROVE  \E i \in DOMAIN E : i < k + 1 /\ E[i].path = "joinQueue"
      <4>1. j + 1 \in DOMAIN E /\ j + 1 < k + 1 /\ E[j + 1].path = "joinQueue"
        BY <1>1, <3>2
      <4>. QED  BY <4>1
    <3>. QED  BY <1>5, <3>1, <3>2
  <2>. QED  BY <1>5, <2>1, <2>2 DEF StayInv
<1>6. StayInv(R, N, new, p, e, place)
  BY <1>3, <1>4, <1>5 DEF StayInv
<1>. QED  BY <1>6 DEF N, new

\* The corrections that follow an event are about the entry that is shown.
LEMMA StayCorrect ==
  ASSUME NEW R \in Seq(Requests), NEW E, NEW sh \in Rows \cup {None}, NEW p, NEW e,
         NEW place \in Places \cup {Empty}, StayInv(R, E, sh, p, e, place)
  PROVE  StayInv(R \o Corrections(place, sh), E, sh, p, e, place)
<1>. DEFINE C == Corrections(place, sh)  N == R \o C
<1>1. /\ C \in Seq(Requests) /\ (place = Empty \/ sh = None => C = <<>>)
      /\ \A i \in DOMAIN C : C[i].path = "updateQueueEntry" /\ C[i].since = sh.since
  BY CorrectionsType
<1>. HIDE DEF C
<1>2. /\ Len(R) \in Nat /\ Len(C) \in Nat /\ DOMAIN R = 1 .. Len(R) /\ DOMAIN C = 1 .. Len(C)
      /\ DOMAIN N = 1 .. Len(R) + Len(C)
      /\ \A i \in 1 .. Len(R) + Len(C) : N[i] = IF i <= Len(R) THEN R[i] ELSE C[i - Len(R)]
  BY <1>1, ConcatProperties
<1>. HIDE DEF N
<1>3. ASSUME e # None, e.early = FALSE, NEW i \in DOMAIN N, N[i].path = "updateQueueEntry"
      PROVE  RequestFits(N[i], e, place)
  <2>1. CASE i <= Len(R)
    BY <1>2, <1>3, <2>1 DEF StayInv
  <2>2. CASE i > Len(R)
    <3>1. i - Len(R) \in DOMAIN C /\ N[i] = C[i - Len(R)]
      BY <1>2, <2>2
    <3>2. sh # None /\ place # Empty
      BY <1>1, <3>1
    <3>3. sh.since = e.since
      BY <1>3, <3>2 DEF StayInv, RowFits
    <3>. QED  BY <1>1, <3>1, <3>2, <3>3 DEF RequestFits
  <2>. QED  BY <1>2, <2>1, <2>2
<1>4. StayInv(N, E, sh, p, e, place)
  BY <1>3 DEF StayInv
<1>. QED  BY <1>4 DEF N, C

-----------------------------------------------------------------------------
(* The server and the tab.                                                 *)

\* What the server does with an entry that is there, while R is on its way.
LEMMA ServerKeeps ==
  ASSUME Types, NEW t \in Open, NEW R,
         JoinInv(R, events[t], shown[t], pending[t]),
         StayInv(R, events[t], shown[t], pending[t], entry, located[t])
  PROVE  /\ Fail \/ LeaveQueue \/ SetHelpStatus =>
              /\ JoinInv(R, events'[t], shown[t], pending[t])
              /\ StayInv(R, events'[t], shown[t], pending[t], entry', located[t])
         /\ \A e \in Rows :
              /\ Change(e) /\ entry # None /\ e.since = entry.since /\ e.early = entry.early
              /\ entry.early = FALSE /\ located[t] = Empty => e.help = entry.help
              => /\ JoinInv(R, events'[t], shown[t], pending[t])
                 /\ StayInv(R, events'[t], shown[t], pending[t], entry', located[t])
<1>0. entry \in Rows \cup {None} /\ events \in [Open -> Seq(Events)] /\ events[t] \in Seq(Events)
  BY DEF Types
<1>. DEFINE Goal == /\ JoinInv(R, events'[t], shown[t], pending[t])
                    /\ StayInv(R, events'[t], shown[t], pending[t], entry', located[t])
<1>1. CASE Fail
  BY <1>1 DEF Fail
<1>2. ASSUME NEW e \in Rows, Change(e), entry # None, e.since = entry.since, e.early = entry.early,
             entry.early = FALSE /\ located[t] = Empty => e.help = entry.help
      PROVE  Goal
  <2>. DEFINE u == Event("updateQueueEntry", e)
  <2>1. u \in Events /\ u.path = "updateQueueEntry" /\ u.row = e
    BY DEF Events, Told, Event
  <2>2. entry' = e /\ events'[t] = Append(events[t], u)
    BY <1>0, <1>2 DEF Change, Announce
  <2>. HIDE DEF u
  <2>3. StayInv(R, events[t], shown[t], pending[t], e, located[t])
    BY <1>2, StayUpdate
  <2>4. RowFits(u.row, e, located[t])
    BY <2>1 DEF RowFits
  <2>5. StayInv(R, Append(events[t], u), shown[t], pending[t], e, located[t])
    BY <1>0, <2>1, <2>3, <2>4, StayTell
  <2>6. JoinInv(R, Append(events[t], u), shown[t], pending[t])
    BY <1>0, <2>1, JoinTell
  <2>. QED  BY <2>2, <2>5, <2>6
<1>3. CASE SetHelpStatus
  BY <1>0, <1>1, <1>2, <1>3 DEF SetHelpStatus
<1>4. CASE LeaveQueue
  <2>. DEFINE u == Event("leaveQueue", None)
  <2>1. CASE entry = None
    BY <1>1, <1>4, <2>1 DEF LeaveQueue
  <2>2. CASE entry # None
    <3>1. u \in Events /\ u.path = "leaveQueue"
      BY DEF Events, Told, Event
    <3>2. entry' = None /\ events'[t] = Append(events[t], u)
      BY <1>0, <1>4, <2>2 DEF LeaveQueue, Announce
    <3>. HIDE DEF u
    <3>3. JoinInv(R, Append(events[t], u), shown[t], pending[t])
      BY <1>0, <3>1, JoinTell
    <3>4. StayInv(R, events'[t], shown[t], pending[t], None, located[t])
      BY DEF StayInv
    <3>. QED  BY <3>2, <3>3, <3>4
  <2>. QED  BY <2>1, <2>2
<1>. QED  BY <1>1, <1>2, <1>3, <1>4

LEMMA HandleKeeps ==
  ASSUME Types, NEW t \in Open, TabInv(t), Handle(t)
  PROVE  TabInv(t)'
<1>. DEFINE R == requests[t]  E == events[t]  sh == shown[t]  p == pending[t]  r == Head(R)
            place == located[t]
<1>0. /\ R \in Seq(Requests) /\ R # <<>> /\ E \in Seq(Events) /\ sh \in Rows \cup {None}
      /\ entry \in Rows \cup {None} /\ r \in Requests /\ Tail(R) \in Seq(Requests)
      /\ events \in [Open -> Seq(Events)] /\ requests \in [Open -> Seq(Requests)]
      /\ inputs \in Nat
  BY HeadTailProperties DEF Types, Handle
<1>1. requests'[t] = Tail(R) /\ UNCHANGED <<located, shown, form, pending, inputs>>
  BY <1>0 DEF Handle
<1>2. JoinInv(R, E, sh, p) /\ StayInv(R, E, sh, p, entry, place)
  BY DEF TabInv
<1>3. JoinInv(Tail(R), E, sh, p) /\ StayInv(Tail(R), E, sh, p, entry, place)
  BY <1>0, <1>2, JoinTail, StayTail
<1>. DEFINE Goal == /\ JoinInv(Tail(R), events'[t], sh, p)
                    /\ StayInv(Tail(R), events'[t], sh, p, entry', place)
<1>. SUFFICES Goal
  BY <1>1 DEF TabInv
<1>4. /\ Len(R) \in Nat /\ DOMAIN R = 1 .. Len(R) /\ 1 \in DOMAIN R /\ r = R[1]
      /\ DOMAIN Tail(R) = 1 .. Len(R) - 1
      /\ \A i \in DOMAIN Tail(R) : Tail(R)[i] = R[i + 1] /\ i + 1 \in DOMAIN R /\ i + 1 > 1
  BY <1>0, HeadTailProperties
<1>. HIDE DEF R, E, sh, p, r, place
<1>5. CASE r.path = "joinQueue" /\ JoinQueue(r)
  <2>. DEFINE new == Row(r.fields, inputs, r.since)  u == Event("joinQueue", new)
  <2>1. CASE Fail
    BY <1>3, <2>1, ServerKeeps DEF R, E, sh, p, place
  <2>2. CASE entry = None /\ entry' = new /\ Announce(Event("joinQueue", entry'))
    <3>1. new \in Rows /\ new.early = r.since
      <4>1. r.fields \in Fields /\ Complete(r.fields) /\ r.since \in BOOLEAN
        BY <1>0, <1>5 DEF Requests, Asked
      <4>. QED  BY <1>0, <4>1 DEF Row, Rows, Fields, Complete
    <3>2. u \in Events /\ u.path = "joinQueue" /\ u.row = new
      BY <3>1 DEF Events, Told, Event
    <3>3. events'[t] = Append(E, u)
      BY <1>0, <2>2 DEF Announce, E
    <3>. HIDE DEF new, u
    <3>4. \A j \in DOMAIN Tail(R) : ~Fresh(Tail(R)[j])
      BY <1>2, <1>4, <1>5 DEF JoinInv
    <3>5. JoinInv(Tail(R), Append(E, u), sh, p)
      BY <1>0, <1>3, <3>2, <3>4, JoinTell
    <3>6. StayInv(Tail(R), E, sh, p, new, place)
      <4>1. CASE r.since = FALSE
        <5>1. Fresh(r)
          BY <1>5, <4>1 DEF Fresh
        <5>2. /\ sh = None /\ p = None /\ NoJoin(E)
              /\ \A i \in DOMAIN Tail(R) : Tail(R)[i].path # "updateQueueEntry"
          BY <1>2, <1>4, <5>1 DEF JoinInv
        <5>. QED  BY <5>2 DEF StayInv, NoJoin
      <4>2. CASE r.since # FALSE
        BY <3>1, <4>2 DEF StayInv
      <4>. QED  BY <4>1, <4>2
    <3>7. RowFits(u.row, new, place)
      BY <3>2 DEF RowFits
    <3>8. StayInv(Tail(R), Append(E, u), sh, p, new, place)
      BY <1>0, <3>2, <3>6, <3>7, StayTell
    <3>. QED  BY <2>2, <3>3, <3>5, <3>8
  <2>. QED  BY <1>5, <2>1, <2>2 DEF JoinQueue
<1>6. CASE r.path = "updateQueueEntry" /\ UpdateQueueEntry(r)
  <2>1. CASE entry = None
    <3>1. Fail
      BY <1>6, <2>1 DEF UpdateQueueEntry
    <3>. QED  BY <1>3, <3>1, ServerKeeps DEF R, E, sh, p, place
  <2>2. CASE entry # None
    <3>. DEFINE e == [entry EXCEPT !.comment = r.fields.comment,
                                   !.location = r.fields.location, !.help = r.fields.help]
    <3>1. r.fields \in Fields /\ Complete(r.fields)
      BY <1>0, <1>6 DEF Requests, Asked
    <3>2. e \in Rows /\ e.since = entry.since /\ e.early = entry.early /\ e.help = r.fields.help
      BY <1>0, <2>2, <3>1 DEF Rows, Fields, Complete
    <3>3. Change(e)
      BY <1>6, <2>2 DEF UpdateQueueEntry
    <3>. HIDE DEF e
    <3>4. entry.early = FALSE /\ place = Empty => r.fields.help = entry.help
      BY <1>2, <1>4, <1>6, <2>2 DEF StayInv, RequestFits
    <3>. QED  BY <1>3, <2>2, <3>2, <3>3, <3>4, ServerKeeps DEF R, E, sh, p, place
  <2>. QED  BY <2>1, <2>2
<1>7. CASE SetHelpStatus \/ LeaveQueue
  BY <1>3, <1>7, ServerKeeps DEF R, E, sh, p, place
<1>. QED  BY <1>5, <1>6, <1>7 DEF Handle, r, R

\* The debounce holds a call back, and what it held back before is gone.
LEMMA LaterKeeps ==
  ASSUME Types, NEW t \in Open, TabInv(t), NEW f \in Fields, f.help = form[t].help,
         form' = [form EXCEPT ![t] = f], SendLater(t, f),
         UNCHANGED <<located, entry, shown, requests, events>>
  PROVE  TabInv(t)'
<1>. DEFINE r == Request("updateQueueEntry", f, shown[t].since)
            new == IF shown[t] # None /\ Complete(f) THEN r ELSE None
<1>1. form'[t] = f /\ pending'[t] = new
  BY DEF Types, SendLater
<1>2. /\ FormInv(form[t], shown[t], pending[t])
      /\ JoinInv(requests[t], events[t], shown[t], pending[t])
      /\ StayInv(requests[t], events[t], shown[t], pending[t], entry, located[t])
  BY DEF TabInv
<1>3. r.since = shown[t].since /\ r.fields = f
  BY DEF Request
<1>. HIDE DEF r
<1>4. new # None => shown[t] # None /\ new = r
  OBVIOUS
<1>. HIDE DEF new
<1>5. FormInv(f, shown[t], new)
  BY <1>2, <1>4 DEF FormInv
<1>6. JoinInv(requests[t], events[t], shown[t], new)
  BY <1>2, <1>4 DEF JoinInv
<1>7. ASSUME entry # None, entry.early = FALSE, new # None PROVE RequestFits(new, entry, located[t])
  <2>1. RowFits(shown[t], entry, located[t]) /\ f.help = shown[t].help
    BY <1>2, <1>4, <1>7 DEF StayInv, FormInv
  <2>. QED  BY <1>3, <1>4, <1>7, <2>1 DEF RowFits, RequestFits
<1>8. StayInv(requests[t], events[t], shown[t], new, entry, located[t])
  BY <1>2, <1>7 DEF StayInv
<1>. QED  BY <1>1, <1>5, <1>6, <1>8 DEF TabInv

LEMMA TypingKeeps ==
  ASSUME Types, NEW t \in Open, TabInv(t)
  PROVE  /\ \A c \in Comments \cup {Empty} : ChangeComment(t, c) => TabInv(t)'
         /\ \A p \in Places \cup {Empty} : ChangeLocation(t, p) => TabInv(t)'
         /\ ChangeHelp(t) => TabInv(t)'
<1>0. form \in [Open -> Fields] /\ form[t] \in Fields
  BY DEF Types
<1>1. ASSUME NEW c \in Comments \cup {Empty}, ChangeComment(t, c) PROVE TabInv(t)'
  <2>. DEFINE f == [form[t] EXCEPT !.comment = c]
  <2>1. f \in Fields /\ f.help = form[t].help
    BY <1>0 DEF Fields
  <2>2. form' = [form EXCEPT ![t] = f]
    BY <1>1 DEF ChangeComment
  <2>3. form'[t] = f
    BY <1>0, <2>2
  <2>. HIDE DEF f
  <2>4. SendLater(t, f) /\ UNCHANGED <<located, entry, shown, requests, events>>
    BY <1>1, <2>3 DEF ChangeComment
  <2>. QED  BY <2>1, <2>2, <2>4, LaterKeeps
<1>2. ASSUME NEW p \in Places \cup {Empty}, ChangeLocation(t, p) PROVE TabInv(t)'
  <2>. DEFINE f == [form[t] EXCEPT !.location = p]
  <2>1. f \in Fields /\ f.help = form[t].help
    BY <1>0 DEF Fields
  <2>2. form' = [form EXCEPT ![t] = f]
    BY <1>2 DEF ChangeLocation
  <2>3. form'[t] = f
    BY <1>0, <2>2
  <2>. HIDE DEF f
  <2>4. SendLater(t, f) /\ UNCHANGED <<located, entry, shown, requests, events>>
    BY <1>2, <2>3 DEF ChangeLocation
  <2>. QED  BY <2>1, <2>2, <2>4, LaterKeeps
<1>3. ASSUME ChangeHelp(t) PROVE TabInv(t)'
  <2>. DEFINE f == [form[t] EXCEPT !.help = ~form[t].help]
  <2>1. f.comment = form[t].comment /\ f.location = form[t].location
    BY <1>0 DEF Fields
  <2>2. form'[t] = f
    BY <1>0, <1>3 DEF ChangeHelp
  <2>. HIDE DEF f
  <2>3. shown[t] = None /\ UNCHANGED <<located, entry, shown, pending, requests, events>>
    BY <1>3 DEF ChangeHelp
  <2>4. FormInv(f, shown[t], pending[t])
    BY <2>1, <2>3 DEF TabInv, FormInv, Complete
  <2>. QED  BY <2>2, <2>3, <2>4 DEF TabInv
<1>. QED  BY <1>1, <1>2, <1>3

LEMMA SendKeeps ==
  ASSUME Types, NEW t \in Open, TabInv(t), NEW r \in Requests, Send(t, r),
         Fresh(r) => shown[t] = None /\ pending[t] = None /\ NoJoin(events[t]) /\ NoJoin(requests[t]),
         r.path = "updateQueueEntry" => r = pending[t] /\ r # None,
         pending'[t] \in {pending[t], None}, UNCHANGED <<located, entry, shown, form, events>>
  PROVE  TabInv(t)'
<1>0. requests \in [Open -> Seq(Requests)] /\ requests[t] \in Seq(Requests)
  BY DEF Types
<1>1. requests'[t] = Append(requests[t], r)
  BY <1>0 DEF Send
<1>2. /\ FormInv(form[t], shown[t], pending[t])
      /\ JoinInv(requests[t], events[t], shown[t], pending[t])
      /\ StayInv(requests[t], events[t], shown[t], pending[t], entry, located[t])
  BY DEF TabInv
<1>3. r.path = "updateQueueEntry" => \A j \in DOMAIN requests[t] : ~Fresh(requests[t][j])
  BY <1>2 DEF JoinInv
<1>4. entry # None /\ entry.early = FALSE /\ r.path = "updateQueueEntry"
        => RequestFits(r, entry, located[t])
  BY <1>2 DEF StayInv
<1>5. JoinInv(Append(requests[t], r), events[t], shown[t], pending[t])
  BY <1>0, <1>2, <1>3, JoinSend
<1>6. StayInv(Append(requests[t], r), events[t], shown[t], pending[t], entry, located[t])
  BY <1>0, <1>2, <1>4, StaySend
<1>7. FormInv(form[t], shown[t], pending'[t])
  BY <1>2 DEF FormInv
<1>8. JoinInv(Append(requests[t], r), events[t], shown[t], pending'[t])
  BY <1>5 DEF JoinInv
<1>9. StayInv(Append(requests[t], r), events[t], shown[t], pending'[t], entry, located[t])
  BY <1>6 DEF StayInv
<1>. QED  BY <1>1, <1>7, <1>8, <1>9 DEF TabInv

LEMMA SendingKeeps ==
  ASSUME Types, NEW t \in Open, TabInv(t),
         EnterQueue(t) \/ ReceiveHelp(t) \/ Leave(t) \/ Debounced(t)
  PROVE  TabInv(t)'
<1>0. /\ form[t] \in Fields /\ pending \in [Open -> Updates \cup {None}]
      /\ requests[t] \in Seq(Requests) /\ events[t] \in Seq(Events)
  BY DEF Types
<1>1. CASE EnterQueue(t)
  <2>. DEFINE r == Request("joinQueue", form[t], Joining(t))
  <2>1. Complete(form[t]) /\ shown[t] = None /\ Joining(t) \in BOOLEAN
    BY <1>1 DEF EnterQueue, Joining
  <2>2. r \in Requests /\ r.path = "joinQueue" /\ r.since = Joining(t)
    BY <1>0, <2>1 DEF Requests, Asked, Request
  <2>3. pending[t] = None
    BY <2>1 DEF TabInv, FormInv
  <2>4. ~Joining(t) => NoJoin(events[t]) /\ NoJoin(requests[t])
    BY DEF Joining, NoJoin
  <2>5. Send(t, r) /\ UNCHANGED <<located, entry, shown, form, pending, events>>
    BY <1>1 DEF EnterQueue
  <2>. HIDE DEF r
  <2>. QED  BY <2>1, <2>2, <2>3, <2>4, <2>5, SendKeeps DEF Fresh
<1>2. ASSUME NEW path \in {"setHelpStatus", "leaveQueue"}, Press(t, path) PROVE TabInv(t)'
  <2>. DEFINE r == Request(path, NoFields, None)
  <2>1. r \in Requests /\ r.path = path
    BY DEF Requests, Asked, Request, NoFields, Fields
  <2>2. Send(t, r) /\ UNCHANGED <<located, entry, shown, form, pending, events>>
    BY <1>2 DEF Press
  <2>. HIDE DEF r
  <2>. QED  BY <2>1, <2>2, SendKeeps DEF Fresh
<1>3. CASE Debounced(t)
  <2>1. pending[t] # None /\ pending'[t] = None /\ Send(t, pending[t])
        /\ UNCHANGED <<located, entry, shown, form, events>>
    BY <1>0, <1>3 DEF Debounced
  <2>2. pending[t] \in Requests /\ pending[t].path = "updateQueueEntry"
    BY <1>0, <2>1 DEF Updates
  <2>. QED  BY <2>1, <2>2, SendKeeps DEF Fresh
<1>. QED  BY <1>1, <1>2, <1>3 DEF ReceiveHelp, Leave

\* An event of a join finds no join on its way, hence a tab that sees its entry appear
\* has asked for nothing more.
LEMMA ReceiveKeeps ==
  ASSUME Types, NEW t \in Open, TabInv(t), Receive(t)
  PROVE  TabInv(t)'
<1>. DEFINE R == requests[t]  E == events[t]  sh == shown[t]  p == pending[t]
            place == located[t]  new == Reduce(sh, Head(E))  C == Corrections(place, new)
<1>0. /\ R \in Seq(Requests) /\ E \in Seq(Events) /\ E # <<>> /\ sh \in Rows \cup {None}
      /\ place \in Places \cup {Empty} /\ shown \in [Open -> Rows \cup {None}]
      /\ events \in [Open -> Seq(Events)] /\ requests \in [Open -> Seq(Requests)]
      /\ form \in [Open -> Fields]
  BY DEF Types, Receive
<1>1. /\ Len(E) \in Nat /\ DOMAIN E = 1 .. Len(E) /\ 1 \in DOMAIN E /\ Head(E) = E[1]
      /\ E[1] \in Events /\ DOMAIN Tail(E) = 1 .. Len(E) - 1
      /\ \A i \in DOMAIN Tail(E) : Tail(E)[i] = E[i + 1] /\ i + 1 \in DOMAIN E
  BY <1>0, HeadTailProperties
<1>2. events'[t] = Tail(E) /\ shown'[t] = new /\ UNCHANGED <<located, entry, pending, inputs>>
  BY <1>0 DEF Receive
<1>3. new \in Rows \cup {None}
  BY <1>0, <1>1 DEF Reduce, Events, Told
<1>4. FormInv(form[t], sh, p) /\ JoinInv(R, E, sh, p) /\ StayInv(R, E, sh, p, entry, place)
  BY DEF TabInv
<1>5. StayInv(R, Tail(E), new, p, entry, place)
  BY <1>0, <1>4, ReceiveFits
<1>6. NoJoin(E) => NoJoin(Tail(E)) /\ (sh = None => new = None)
  BY <1>1 DEF NoJoin, Reduce, Events, Told
<1>7. /\ C \in Seq(Requests) /\ \A i \in DOMAIN C : C[i].path = "updateQueueEntry"
      /\ FormOf(place, new).comment = (IF new = None THEN Empty ELSE new.comment)
      /\ new # None => FormOf(place, new).help = new.help
  BY <1>0, <1>3, CorrectionsType, FormOfType
<1>8. CASE sh = None /\ new = None
  <2>1. UNCHANGED <<form, requests>>
    BY <1>2, <1>8 DEF Receive
  <2>2. JoinInv(R, Tail(E), new, p)
    BY <1>4, <1>6, <1>8 DEF JoinInv
  <2>. QED  BY <1>2, <1>4, <1>5, <1>8, <2>1, <2>2 DEF TabInv
<1>9. CASE ~(sh = None /\ new = None)
  <2>1. form'[t] = FormOf(place, new) /\ requests'[t] = R \o C
    BY <1>0, <1>2, <1>9 DEF Receive
  <2>2. FormInv(FormOf(place, new), new, p)
    BY <1>7 DEF FormInv, Complete
  <2>3. StayInv(R \o C, Tail(E), new, p, entry, place)
    BY <1>0, <1>3, <1>5, StayCorrect
  <2>4. \A j \in DOMAIN R : ~Fresh(R[j])
    BY <1>4, <1>6, <1>9 DEF JoinInv
  <2>5. JoinInv(R \o C, Tail(E), new, p)
    <3>. HIDE DEF R, C
    <3>1. /\ DOMAIN R = 1 .. Len(R) /\ DOMAIN C = 1 .. Len(C) /\ Len(R) \in Nat /\ Len(C) \in Nat
          /\ DOMAIN (R \o C) = 1 .. Len(R) + Len(C)
          /\ \A i \in 1 .. Len(R) + Len(C) :
               (R \o C)[i] = IF i <= Len(R) THEN R[i] ELSE C[i - Len(R)]
      BY <1>0, <1>7, ConcatProperties
    <3>2. ASSUME NEW j \in DOMAIN (R \o C), Fresh((R \o C)[j]) PROVE FALSE
      <4>1. CASE j <= Len(R)
        BY <2>4, <3>1, <3>2, <4>1
      <4>2. CASE j > Len(R)
        <5>1. j - Len(R) \in DOMAIN C /\ (R \o C)[j] = C[j - Len(R)]
          BY <3>1, <4>2
        <5>. QED  BY <1>7, <3>2, <5>1 DEF Fresh
      <4>. QED  BY <3>1, <4>1, <4>2
    <3>. QED  BY <3>2 DEF JoinInv
  <2>. QED  BY <1>2, <2>1, <2>2, <2>3, <2>5 DEF TabInv
<1>. QED  BY <1>8, <1>9

LEMMA TabStepKeeps ==
  ASSUME Types, NEW t \in Open, TabInv(t), TabStep(t)
  PROVE  TabInv(t)'
BY TypingKeeps, SendingKeeps, ReceiveKeeps, HandleKeeps DEF TabStep

\* What assistants and others do to a tab
LEMMA OthersKeep ==
  ASSUME Types, NEW t \in Open, TabInv(t), Kick \/ SetUserHelpStatus \/ OthersEntry
  PROVE  TabInv(t)'
<1>0. events \in [Open -> Seq(Events)] /\ events[t] \in Seq(Events)
  BY DEF Types
<1>1. UNCHANGED <<located, shown, form, pending, requests>>
  BY DEF Kick, SetUserHelpStatus, OthersEntry
<1>2. /\ FormInv(form[t], shown[t], pending[t])
      /\ JoinInv(requests[t], events[t], shown[t], pending[t])
      /\ StayInv(requests[t], events[t], shown[t], pending[t], entry, located[t])
  BY DEF TabInv
<1>3. CASE LeaveQueue \/ SetHelpStatus
  <2>1. /\ JoinInv(requests[t], events'[t], shown[t], pending[t])
        /\ StayInv(requests[t], events'[t], shown[t], pending[t], entry', located[t])
    BY <1>2, <1>3, ServerKeeps
  <2>. QED  BY <1>1, <1>2, <2>1 DEF TabInv
<1>4. CASE OthersEntry
  <2>. DEFINE u == Event("others", None)
  <2>1. u \in Events /\ u.path = "others"
    BY DEF Events, Told, Event
  <2>2. events'[t] = Append(events[t], u) /\ entry' = entry
    BY <1>0, <1>4 DEF OthersEntry, Announce
  <2>. HIDE DEF u
  <2>3. JoinInv(requests[t], Append(events[t], u), shown[t], pending[t])
    BY <1>0, <1>2, <2>1, JoinTell
  <2>4. StayInv(requests[t], Append(events[t], u), shown[t], pending[t], entry, located[t])
    BY <1>0, <1>2, <2>1, StayTell
  <2>. QED  BY <1>1, <1>2, <2>2, <2>3, <2>4 DEF TabInv
<1>. QED  BY <1>3, <1>4 DEF Kick, SetUserHelpStatus

-----------------------------------------------------------------------------
(* A user with one tab.                                                    *)

Alone == \A t \in Open : Open = {t} => TabInv(t)

Inv == Types /\ Located /\ Alone

LEMMA InitInv == Init => Inv
<1>. SUFFICES ASSUME Init PROVE Inv
  OBVIOUS
<1>1. Types /\ Located
  BY InitType DEF Init, Located
<1>2. ASSUME NEW t \in Open PROVE TabInv(t)
  <2>. DEFINE place == located[t]  C == Corrections(place, entry)
  <2>1. place \in Places \cup {Empty} /\ entry \in Rows \cup {None}
    BY <1>1 DEF Types
  <2>2. /\ shown[t] = entry /\ form[t] = FormOf(place, entry) /\ pending[t] = None
        /\ requests[t] = C /\ events[t] = <<>>
    BY DEF Init
  <2>3. FormInv(form[t], shown[t], pending[t])
    BY <2>1, <2>2, FormOfType DEF FormInv
  <2>4. \A i \in DOMAIN C : C[i].path = "updateQueueEntry"
    BY <2>1, CorrectionsType
  <2>5. JoinInv(C, <<>>, entry, None)
    BY <2>4 DEF JoinInv, Fresh
  <2>6. StayInv(<<>>, <<>>, entry, None, entry, place)
    BY DEF StayInv, RowFits
  <2>7. StayInv(<<>> \o C, <<>>, entry, None, entry, place)
    <3>. HIDE DEF place, C
    <3>1. <<>> \in Seq(Requests)
      OBVIOUS
    <3>2. StayInv(<<>> \o Corrections(place, entry), <<>>, entry, None, entry, place)
      BY <2>1, <2>6, <3>1, StayCorrect
    <3>. QED  BY <3>2 DEF C
  <2>8. <<>> \o C = C
    BY <2>1, CorrectionsType, ConcatEmptySeq
  <2>. QED  BY <2>2, <2>3, <2>5, <2>7, <2>8 DEF TabInv
<1>. QED  BY <1>1, <1>2 DEF Inv, Alone

LEMMA StepInv == Inv /\ [Next]_vars => Inv'
<1>. SUFFICES ASSUME Inv, [Next]_vars PROVE Inv'
  OBVIOUS
<1>1. (Types /\ Located)' /\ located' = located
  BY StepType, StepLocated DEF Inv, Located
<1>2. ASSUME NEW t \in Open, Open = {t} PROVE TabInv(t)'
  <2>1. Types /\ TabInv(t)
    BY <1>2 DEF Inv, Alone
  <2>2. ASSUME NEW u \in Open, TabStep(u) PROVE TabInv(t)'
    <3>1. TabStep(t)
      BY <1>2, <2>2
    <3>. QED  BY <2>1, <3>1, TabStepKeeps
  <2>3. CASE UNCHANGED vars
    BY <2>1, <2>3 DEF vars, TabInv
  <2>. QED  BY <2>1, <2>2, <2>3, OthersKeep DEF Next
<1>3. Open' = Open
  BY <1>1 DEF Open
<1>. QED  BY <1>1, <1>2, <1>3 DEF Inv, Alone

\* However many texts are typed, however long the debounce holds one back, and whatever
\* assistants do in the meantime: an update is handled in the stay it was typed in, if the
\* user has one tab and did not press join twice (the debounce of the form, and its cancelling).
THEOREM UpdatesMeetTheirStayCorrect == Spec => []UpdatesMeetTheirStay
<1>1. Inv => UpdatesMeetTheirStay
  <2>. SUFFICES ASSUME Inv, NEW t \in Open, Open = {t}, entry # None, ~entry.early,
                       requests[t] # <<>>, Head(requests[t]).path = "updateQueueEntry"
                PROVE  Head(requests[t]).since = entry.since
    BY DEF UpdatesMeetTheirStay
  <2>1. requests[t] \in Seq(Requests) /\ entry \in Rows
    BY DEF Inv, Types
  <2>2. 1 \in DOMAIN requests[t] /\ Head(requests[t]) = requests[t][1]
    BY <2>1, HeadTailProperties
  <2>3. entry.early = FALSE
    BY <2>1 DEF Rows
  <2>4. StayInv(requests[t], events[t], shown[t], pending[t], entry, located[t])
    BY DEF Inv, Alone, TabInv
  <2>. QED  BY <2>2, <2>3, <2>4 DEF StayInv, RequestFits
<1>. QED  BY <1>1, InitInv, StepInv, PTL DEF Spec

\* Whatever is on its way, a step leaves alone what a user queues for: only an update writes
\* that column, and it carries the value of the entry the tab saw (update_queue_entry).
THEOREM HelpKeptCorrect == Spec => HelpKept
<1>. DEFINE Kept == \A t \in Open :
              Open = {t} /\ located[t] = Empty /\ entry # None /\ entry' # None /\ ~entry.early
                => entry'.help = entry.help
<1>1. Inv /\ [Next]_vars => [Kept]_vars
  <2>. SUFFICES ASSUME Inv, Next, NEW t \in Open, Open = {t}, located[t] = Empty,
                       entry # None, entry' # None, ~entry.early
                PROVE  entry'.help = entry.help
    OBVIOUS
  <2>1. requests[t] \in Seq(Requests) /\ entry \in Rows
    BY DEF Inv, Types
  <2>2. StayInv(requests[t], events[t], shown[t], pending[t], entry, located[t])
    BY DEF Inv, Alone, TabInv
  <2>3. entry.early = FALSE
    BY <2>1 DEF Rows
  <2>4. ASSUME Fail \/ SetHelpStatus \/ LeaveQueue PROVE entry'.help = entry.help
    BY <2>4 DEF Fail, SetHelpStatus, LeaveQueue, Change
  <2>5. CASE Handle(t)
    <3>. DEFINE r == Head(requests[t])
    <3>1. requests[t] # <<>>
      BY <2>5 DEF Handle
    <3>2. 1 \in DOMAIN requests[t] /\ r = requests[t][1]
      BY <2>1, <3>1, HeadTailProperties
    <3>3. CASE r.path = "updateQueueEntry" /\ UpdateQueueEntry(r)
      <4>1. r.fields.help = entry.help
        BY <2>2, <2>3, <3>2, <3>3 DEF StayInv, RequestFits
      <4>2. entry' = [entry EXCEPT !.comment = r.fields.comment,
                        !.location = r.fields.location, !.help = r.fields.help]
        BY <3>3 DEF UpdateQueueEntry, Change
      <4>3. entry'.help = r.fields.help
        BY <2>1, <4>2 DEF Rows
      <4>. QED  BY <4>1, <4>3
    <3>. QED  BY <2>4, <2>5, <3>3 DEF Handle, JoinQueue
  <2>6. CASE \E u \in Open : TabStep(u)
    <3>1. TabStep(t)
      BY <2>6
    <3>2. ~Handle(t) => entry' = entry
      <4>1. ASSUME NEW c, ChangeComment(t, c) PROVE entry' = entry
        BY <4>1 DEF ChangeComment
      <4>2. ASSUME NEW p, ChangeLocation(t, p) PROVE entry' = entry
        BY <4>2 DEF ChangeLocation
      <4>. QED  BY <3>1, <4>1, <4>2 DEF TabStep, ChangeHelp, EnterQueue, ReceiveHelp, Leave, Press,
                   Debounced, Receive
    <3>. QED  BY <2>5, <3>2
  <2>. QED  BY <2>4, <2>6 DEF Next, Kick, SetUserHelpStatus, OthersEntry
<1>2. Spec => [][Kept]_vars
  BY <1>1, InitInv, StepInv, PTL DEF Spec
<1>. QED  BY <1>2 DEF HelpKept

-----------------------------------------------------------------------------
(* The form and the entry, in any number of tabs.                          *)

Values == Rows \cup {None}

\* The events E make entry b out of entry a in the tab's store.
Becomes(a, E, b) ==
  \E f \in [0 .. Len(E) -> Values] :
    /\ f[0] = a /\ f[Len(E)] = b
    /\ \A i \in 1 .. Len(E) : f[i] = Reduce(f[i - 1], E[i])

NoUpdate(R) == \A i \in DOMAIN R : R[i].path # "updateQueueEntry"

\* When nothing is underway that will overwrite the form, it says what the tab was told.
Agrees(f, sh, p, R, E) ==
  E = <<>> /\ NoUpdate(R) /\ p = None /\ sh # None /\ Complete(f) => f = FieldsOf(sh)

Agreement ==
  \A t \in Open : /\ Becomes(shown[t], events[t], entry)
                  /\ Agrees(form[t], shown[t], pending[t], requests[t], events[t])

LEMMA BecomesSame ==
  ASSUME NEW a \in Values
  PROVE  Becomes(a, <<>>, a)
<1>. DEFINE f == [i \in 0 .. Len(<<>>) |-> a]
<1>1. f \in [0 .. Len(<<>>) -> Values] /\ f[0] = a /\ f[Len(<<>>)] = a
  OBVIOUS
<1>2. \A i \in 1 .. Len(<<>>) : f[i] = Reduce(f[i - 1], <<>>[i])
  OBVIOUS
<1>. QED  BY <1>1, <1>2 DEF Becomes

LEMMA BecomesTell ==
  ASSUME NEW a, NEW E \in Seq(Events), NEW b, Becomes(a, E, b), NEW u \in Events,
         Reduce(b, u) \in Values
  PROVE  Becomes(a, Append(E, u), Reduce(b, u))
<1>1. PICK f \in [0 .. Len(E) -> Values] :
        /\ f[0] = a /\ f[Len(E)] = b
        /\ \A i \in 1 .. Len(E) : f[i] = Reduce(f[i - 1], E[i])
  BY DEF Becomes
<1>. DEFINE N == Append(E, u)
            g == [i \in 0 .. Len(E) + 1 |-> IF i <= Len(E) THEN f[i] ELSE Reduce(b, u)]
<1>2. /\ Len(E) \in Nat /\ Len(N) = Len(E) + 1 /\ N[Len(E) + 1] = u
      /\ \A i \in 1 .. Len(E) : N[i] = E[i]
  BY AppendProperties
<1>3. g \in [0 .. Len(E) + 1 -> Values] /\ g[0] = a /\ g[Len(E) + 1] = Reduce(b, u)
  BY <1>1, <1>2
<1>4. ASSUME NEW i \in 1 .. Len(E) + 1 PROVE g[i] = Reduce(g[i - 1], N[i])
  <2>1. CASE i \in 1 .. Len(E)
    <3>1. g[i] = f[i] /\ g[i - 1] = f[i - 1] /\ N[i] = E[i]
      BY <1>2, <2>1
    <3>. QED  BY <1>1, <2>1, <3>1
  <2>2. CASE i = Len(E) + 1
    <3>1. g[i - 1] = b
      BY <1>1, <1>2, <2>2
    <3>2. g[i] = Reduce(b, u) /\ N[i] = u
      BY <1>2, <1>3, <2>2
    <3>. QED  BY <3>1, <3>2
  <2>. QED  BY <1>2, <2>1, <2>2
<1>. HIDE DEF N, g
<1>5. Becomes(a, N, Reduce(b, u))
  BY <1>2, <1>3, <1>4 DEF Becomes
<1>. QED  BY <1>5 DEF N

LEMMA BecomesRest ==
  ASSUME NEW a, NEW E \in Seq(Events), E # <<>>, NEW b, Becomes(a, E, b)
  PROVE  Becomes(Reduce(a, Head(E)), Tail(E), b)
<1>1. PICK f \in [0 .. Len(E) -> Values] :
        /\ f[0] = a /\ f[Len(E)] = b
        /\ \A i \in 1 .. Len(E) : f[i] = Reduce(f[i - 1], E[i])
  BY DEF Becomes
<1>. DEFINE T == Tail(E)  g == [i \in 0 .. Len(T) |-> f[i + 1]]
<1>2. /\ Len(E) \in Nat /\ Len(E) > 0 /\ Len(T) = Len(E) - 1 /\ Head(E) = E[1]
      /\ \A i \in 1 .. Len(T) : T[i] = E[i + 1]
  BY HeadTailProperties
<1>3. g \in [0 .. Len(T) -> Values]
  <2>. SUFFICES ASSUME NEW i \in 0 .. Len(T) PROVE g[i] \in Values
    OBVIOUS
  <2>1. i + 1 \in 0 .. Len(E)
    BY <1>2
  <2>. QED  BY <2>1
<1>4. g[0] = Reduce(a, Head(E)) /\ g[Len(T)] = b
  <2>1. g[0] = f[1] /\ g[Len(T)] = f[Len(E)] /\ 1 \in 1 .. Len(E)
    BY <1>2
  <2>2. f[1] = Reduce(f[1 - 1], E[1])
    BY <1>1, <2>1
  <2>. QED  BY <1>1, <1>2, <2>1, <2>2
<1>5. ASSUME NEW i \in 1 .. Len(T) PROVE g[i] = Reduce(g[i - 1], T[i])
  <2>1. g[i] = f[i + 1] /\ g[i - 1] = f[i] /\ T[i] = E[i + 1] /\ i + 1 \in 1 .. Len(E)
    BY <1>2
  <2>2. f[i + 1] = Reduce(f[i + 1 - 1], E[i + 1])
    BY <1>1, <2>1
  <2>3. i + 1 - 1 = i
    OBVIOUS
  <2>. QED  BY <2>1, <2>2, <2>3
<1>. HIDE DEF T, g
<1>6. Becomes(Reduce(a, Head(E)), T, b)
  BY <1>3, <1>4, <1>5 DEF Becomes
<1>. QED  BY <1>6 DEF T

LEMMA BecomesNothing ==
  ASSUME NEW a, NEW b, Becomes(a, <<>>, b)
  PROVE  a = b
BY DEF Becomes

\* An announcement tells every tab what became of the entry.
LEMMA AnnounceAgrees ==
  ASSUME Types, NEW t \in Open, Becomes(shown[t], events[t], entry), NEW u \in Events,
         Announce(u), entry' = Reduce(entry, u), entry' \in Values
  PROVE  Becomes(shown[t], events'[t], entry') /\ events'[t] # <<>>
<1>1. events[t] \in Seq(Events) /\ events'[t] = Append(events[t], u)
  BY DEF Types, Announce
<1>2. Append(events[t], u) # <<>>
  BY <1>1
<1>. QED  BY <1>1, <1>2, BecomesTell

\* Tab t hears of what a handler does, if it does anything.
Heard(t) == /\ Becomes(shown[t], events'[t], entry')
            /\ events'[t] = events[t] \/ events'[t] # <<>>

LEMMA ServerAgrees ==
  ASSUME Types, NEW t \in Open, Becomes(shown[t], events[t], entry)
  PROVE  /\ Fail \/ SetHelpStatus \/ LeaveQueue => Heard(t)
         /\ \A r \in Requests : r.path = "joinQueue" /\ JoinQueue(r) => Heard(t)
         /\ \A r \in Requests : r.path = "updateQueueEntry" /\ UpdateQueueEntry(r) =>
              Heard(t) /\ (events'[t] # <<>> \/ entry = None)
<1>0. entry \in Values /\ inputs \in Nat
  BY DEF Types, Values
<1>1. ASSUME Fail PROVE Heard(t)
  BY <1>1 DEF Fail, Heard
<1>2. ASSUME NEW e \in Rows, entry # None, Change(e)
      PROVE  Becomes(shown[t], events'[t], entry') /\ events'[t] # <<>>
  <2>. DEFINE u == Event("updateQueueEntry", e)
  <2>1. u \in Events /\ Reduce(entry, u) = e /\ e \in Values
    BY <1>2 DEF Events, Told, Event, Reduce, Values
  <2>2. entry' = e /\ Announce(u)
    BY <1>2 DEF Change
  <2>. HIDE DEF u
  <2>. QED  BY <2>1, <2>2, AnnounceAgrees
<1>3. ASSUME SetHelpStatus PROVE Heard(t)
  BY <1>0, <1>1, <1>2, <1>3 DEF SetHelpStatus, Values, Heard
<1>4. ASSUME LeaveQueue PROVE Heard(t)
  <2>. DEFINE u == Event("leaveQueue", None)
  <2>1. u \in Events /\ Reduce(entry, u) = None /\ None \in Values
    BY DEF Events, Told, Event, Reduce, Values
  <2>2. Fail \/ (entry' = None /\ Announce(u))
    BY <1>4 DEF LeaveQueue
  <2>. HIDE DEF u
  <2>. QED  BY <1>1, <2>1, <2>2, AnnounceAgrees DEF Heard
<1>5. ASSUME NEW r \in Requests, r.path = "joinQueue", JoinQueue(r) PROVE Heard(t)
  <2>. DEFINE new == Row(r.fields, inputs, r.since)  u == Event("joinQueue", new)
  <2>1. r.fields \in Fields /\ Complete(r.fields) /\ r.since \in BOOLEAN
    BY <1>5 DEF Requests, Asked
  <2>2. new \in Rows
    BY <1>0, <2>1 DEF Row, Rows, Fields, Complete
  <2>3. Fail \/ (entry = None /\ entry' = new /\ Announce(u))
    BY <1>5 DEF JoinQueue
  <2>. HIDE DEF new
  <2>4. u \in Events /\ (entry = None => Reduce(entry, u) = new) /\ new \in Values
    BY <2>2 DEF Events, Told, Event, Reduce, Values
  <2>. HIDE DEF u
  <2>. QED  BY <1>1, <2>3, <2>4, AnnounceAgrees DEF Heard
<1>6. ASSUME NEW r \in Requests, r.path = "updateQueueEntry", UpdateQueueEntry(r)
      PROVE  Heard(t) /\ (events'[t] # <<>> \/ entry = None)
  <2>1. CASE entry = None
    BY <1>1, <1>6, <2>1 DEF UpdateQueueEntry
  <2>2. CASE entry # None
    <3>. DEFINE e == [entry EXCEPT !.comment = r.fields.comment,
                                   !.location = r.fields.location, !.help = r.fields.help]
    <3>1. r.fields \in Fields /\ Complete(r.fields)
      BY <1>6 DEF Requests, Asked
    <3>2. e \in Rows
      BY <1>0, <2>2, <3>1 DEF Rows, Fields, Complete, Values
    <3>3. Change(e)
      BY <1>6, <2>2 DEF UpdateQueueEntry
    <3>. HIDE DEF e
    <3>. QED  BY <1>2, <2>2, <3>2, <3>3 DEF Heard
  <2>. QED  BY <2>1, <2>2
<1>. QED  BY <1>1, <1>3, <1>4, <1>5, <1>6

\* Typing: a complete form is held back, an incomplete one is not compared.
LEMMA TypingAgrees ==
  ASSUME Types, NEW u \in Open, NEW f \in Fields, form' = [form EXCEPT ![u] = f],
         SendLater(u, f), UNCHANGED <<located, entry, shown, requests, events>>, Agreement
  PROVE  Agreement'
<1>0. /\ form \in [Open -> Fields] /\ pending \in [Open -> Updates \cup {None}]
      /\ shown \in [Open -> Rows \cup {None}]
  BY DEF Types
<1>1. Open' = Open
  BY DEF Open
<1>2. ASSUME NEW t \in Open
      PROVE  Agrees(form'[t], shown[t], pending'[t], requests[t], events[t])
  <2>1. CASE t # u
    <3>1. form'[t] = form[t] /\ pending'[t] = pending[t]
      BY <1>0, <2>1 DEF SendLater
    <3>. QED  BY <3>1 DEF Agreement
  <2>2. CASE t = u
    <3>. DEFINE r == Request("updateQueueEntry", f, shown[u].since)
    <3>1. ASSUME shown[u] # None PROVE r # None
      <4>1. shown[u].since \in Nat
        BY <1>0, <3>1 DEF Rows
      <4>2. r \in [path : {"updateQueueEntry"}, fields : Fields, since : Nat]
        BY <4>1 DEF Request
      <4>. HIDE DEF r
      <4>. QED  BY <4>2, NoneAssumption
    <3>2. form'[t] = f
      BY <1>0, <2>2
    <3>3. pending'[u] = IF shown[u] # None /\ Complete(f) THEN r ELSE None
      BY <1>0 DEF SendLater
    <3>. HIDE DEF r
    <3>. QED  BY <2>2, <3>1, <3>2, <3>3 DEF Agrees
  <2>. QED  BY <2>1, <2>2
<1>. QED  BY <1>1, <1>2 DEF Agreement

LEMMA SendAgrees ==
  ASSUME Types, NEW u \in Open, NEW r \in Requests, Send(u, r),
         UNCHANGED <<located, entry, shown, form, events>>, Agreement,
         r.path = "updateQueueEntry" \/ UNCHANGED pending,
         \A t \in Open : t # u => pending'[t] = pending[t]
  PROVE  Agreement'
<1>1. Open' = Open
  BY DEF Open
<1>2. ASSUME NEW t \in Open
      PROVE  Agrees(form[t], shown[t], pending'[t], requests'[t], events[t])
  <2>1. CASE t # u
    <3>1. requests'[t] = requests[t]
      BY <2>1 DEF Types, Send
    <3>. QED  BY <2>1, <3>1 DEF Agreement
  <2>2. CASE t = u
    <3>. DEFINE N == Append(requests[t], r)
    <3>1. requests'[t] = N
      BY <2>2 DEF Types, Send
    <3>2. requests[t] \in Seq(Requests)
      BY DEF Types
    <3>3. /\ Len(requests[t]) \in Nat /\ DOMAIN requests[t] = 1 .. Len(requests[t])
          /\ DOMAIN N = 1 .. Len(requests[t]) + 1
          /\ \A i \in 1 .. Len(requests[t]) : N[i] = requests[t][i]
          /\ N[Len(requests[t]) + 1] = r
      BY <3>2, AppendProperties
    <3>. HIDE DEF N
    <3>4. NoUpdate(N) => NoUpdate(requests[t]) /\ r.path # "updateQueueEntry"
      BY <3>3 DEF NoUpdate
    <3>. QED  BY <3>1, <3>4 DEF Agreement, Agrees
  <2>. QED  BY <2>1, <2>2
<1>. QED  BY <1>1, <1>2 DEF Agreement

\* The form that an event leaves behind is that of the entry, or a correction is on its way.
LEMMA FormOrCorrection ==
  ASSUME NEW place \in Places \cup {Empty}, NEW r \in Rows, r # None
  PROVE  FormOf(place, r) = FieldsOf(r) \/ Corrections(place, r) # <<>>
<1>1. CASE place = Empty \/ place = r.location
  BY <1>1 DEF FormOf, FieldsOf
<1>2. CASE place # Empty /\ place # r.location
  <2>. DEFINE a == Request("updateQueueEntry", FormOf(place, r), r.since)
              b == Request("updateQueueEntry", [FormOf(place, r) EXCEPT !.help = TRUE], r.since)
  <2>1. Corrections(place, r) = <<a, b>>
    BY <1>2 DEF Corrections
  <2>. HIDE DEF a, b
  <2>. QED  BY <2>1
<1>. QED  BY <1>1, <1>2

LEMMA ReceiveAgrees ==
  ASSUME Types, NEW u \in Open, Receive(u), Agreement
  PROVE  Agreement'
<1>0. /\ shown \in [Open -> Rows \cup {None}] /\ form \in [Open -> Fields]
      /\ requests \in [Open -> Seq(Requests)] /\ events \in [Open -> Seq(Events)]
      /\ located[u] \in Places \cup {Empty}
  BY DEF Types
<1>1. UNCHANGED <<located, entry, pending>> /\ Open' = Open
  BY DEF Receive, Open
<1>2. \A t \in Open : t # u => /\ shown'[t] = shown[t] /\ form'[t] = form[t]
                               /\ requests'[t] = requests[t] /\ events'[t] = events[t]
  BY <1>0 DEF Receive
<1>. DEFINE E == events[u]  new == Reduce(shown[u], Head(E))
            R == requests[u]  C == Corrections(located[u], new)
<1>3. /\ E \in Seq(Events) /\ E # <<>> /\ R \in Seq(Requests)
      /\ events'[u] = Tail(E) /\ shown'[u] = new
  BY <1>0 DEF Receive
<1>4. Becomes(new, Tail(E), entry)
  BY <1>3, BecomesRest DEF Agreement
<1>5. new \in Rows \cup {None}
  <2>1. Head(E) \in Events
    BY <1>3, HeadTailProperties
  <2>. QED  BY <1>0, <2>1 DEF Reduce, Events, Told
<1>6. Agrees(form'[u], new, pending[u], requests'[u], Tail(E))
  <2>1. CASE new = None
    BY <2>1 DEF Agrees
  <2>2. CASE new # None
    <3>1. form'[u] = FormOf(located[u], new) /\ requests'[u] = R \o C
      BY <1>0, <1>3, <2>2 DEF Receive
    <3>2. C \in Seq(Requests) /\ \A i \in DOMAIN C : C[i].path = "updateQueueEntry"
      BY <1>0, <1>5, CorrectionsType
    <3>3. C # <<>> => ~NoUpdate(R \o C)
      <4>. HIDE DEF R, C
      <4>1. /\ DOMAIN C = 1 .. Len(C) /\ Len(R) \in Nat /\ Len(C) \in Nat
            /\ DOMAIN (R \o C) = 1 .. Len(R) + Len(C)
            /\ \A i \in 1 .. Len(R) + Len(C) :
                 (R \o C)[i] = IF i <= Len(R) THEN R[i] ELSE C[i - Len(R)]
        BY <1>3, <3>2, ConcatProperties
      <4>2. SUFFICES ASSUME C # <<>> PROVE ~NoUpdate(R \o C)
        OBVIOUS
      <4>3. Len(C) > 0
        BY <3>2, <4>1, <4>2
      <4>4. Len(R) + 1 \in DOMAIN (R \o C) /\ (R \o C)[Len(R) + 1] = C[1] /\ 1 \in DOMAIN C
        BY <4>1, <4>3
      <4>. QED  BY <3>2, <4>4 DEF NoUpdate
    <3>4. FormOf(located[u], new) = FieldsOf(new) \/ C # <<>>
      BY <1>0, <1>5, <2>2, FormOrCorrection
    <3>. QED  BY <3>1, <3>3, <3>4 DEF Agrees
  <2>. QED  BY <2>1, <2>2
<1>. QED  BY <1>1, <1>2, <1>3, <1>4, <1>6 DEF Agreement

\* Once an update is handled, an event is on its way to every tab, or the user is not
\* queued any more, which the tabs know or will be told.
LEMMA HandleAgrees ==
  ASSUME Types, NEW u \in Open, Handle(u), Agreement
  PROVE  Agreement'
<1>. DEFINE R == requests[u]  r == Head(R)
<1>0. /\ R \in Seq(Requests) /\ R # <<>> /\ requests \in [Open -> Seq(Requests)]
      /\ requests' = [requests EXCEPT ![u] = Tail(R)]
      /\ UNCHANGED <<located, shown, form, pending, inputs>> /\ Open' = Open
  BY DEF Types, Handle, Open
<1>1. /\ r \in Requests /\ Len(R) \in Nat /\ DOMAIN R = 1 .. Len(R) /\ r = R[1]
      /\ DOMAIN Tail(R) = 1 .. Len(R) - 1 /\ \A i \in 1 .. Len(R) - 1 : Tail(R)[i] = R[i + 1]
  BY <1>0, HeadTailProperties
<1>2. ASSUME NEW t \in Open
      PROVE  /\ Becomes(shown[t], events'[t], entry')
             /\ Agrees(form[t], shown[t], pending[t], requests'[t], events'[t])
  <2>1. /\ Becomes(shown[t], events[t], entry)
        /\ Agrees(form[t], shown[t], pending[t], requests[t], events[t])
    BY DEF Agreement
  <2>2. Heard(t) /\ (r.path = "updateQueueEntry" => events'[t] # <<>> \/ entry = None)
    BY <1>1, <2>1, ServerAgrees DEF Handle
  <2>3. Agrees(form[t], shown[t], pending[t], requests'[t], events'[t])
    <3>1. CASE events'[t] # <<>>
      BY <3>1 DEF Agrees
    <3>2. CASE events'[t] = <<>>
      <4>1. events[t] = <<>>
        BY <2>2, <3>2 DEF Heard
      <4>2. CASE t # u
        BY <1>0, <2>1, <3>2, <4>1, <4>2
      <4>3. CASE t = u /\ r.path = "updateQueueEntry"
        <5>1. entry = None
          BY <2>2, <3>2, <4>3
        <5>2. shown[t] = None
          BY <2>1, <4>1, <5>1, BecomesNothing
        <5>. QED  BY <5>2 DEF Agrees
      <4>4. CASE t = u /\ r.path # "updateQueueEntry"
        <5>1. requests'[t] = Tail(R)
          BY <1>0, <4>4
        <5>. HIDE DEF R
        <5>2. ASSUME NoUpdate(Tail(R)) PROVE NoUpdate(R)
          <6>. SUFFICES ASSUME NEW i \in 1 .. Len(R) PROVE R[i].path # "updateQueueEntry"
            BY <1>1 DEF NoUpdate
          <6>1. CASE i = 1
            BY <1>1, <4>4, <6>1
          <6>2. CASE i # 1
            <7>1. i - 1 \in 1 .. Len(R) - 1 /\ Tail(R)[i - 1] = R[i - 1 + 1] /\ i - 1 + 1 = i
              BY <1>1, <6>2
            <7>. QED  BY <1>1, <5>2, <7>1 DEF NoUpdate
          <6>. QED  BY <6>1, <6>2
        <5>3. Agrees(form[t], shown[t], pending[t], R, events[t])
          BY <2>1, <4>4 DEF R
        <5>. QED  BY <3>2, <4>1, <5>1, <5>2, <5>3 DEF Agrees
      <4>. QED  BY <4>2, <4>3, <4>4
    <3>. QED  BY <3>1, <3>2
  <2>. QED  BY <2>2, <2>3 DEF Heard
<1>. QED  BY <1>0, <1>2 DEF Agreement

LEMMA TabStepAgrees ==
  ASSUME Types, NEW u \in Open, TabStep(u), Agreement
  PROVE  Agreement'
<1>0. form \in [Open -> Fields] /\ form[u] \in Fields /\ pending \in [Open -> Updates \cup {None}]
  BY DEF Types
<1>1. ASSUME NEW c \in Comments \cup {Empty}, ChangeComment(u, c) PROVE Agreement'
  <2>. DEFINE f == [form[u] EXCEPT !.comment = c]
  <2>1. f \in Fields
    BY <1>0 DEF Fields
  <2>2. form' = [form EXCEPT ![u] = f]
    BY <1>1 DEF ChangeComment
  <2>3. form'[u] = f
    BY <1>0, <2>2
  <2>. HIDE DEF f
  <2>4. SendLater(u, f) /\ UNCHANGED <<located, entry, shown, requests, events>>
    BY <1>1, <2>3 DEF ChangeComment
  <2>. QED  BY <2>1, <2>2, <2>4, TypingAgrees
<1>2. ASSUME NEW p \in Places \cup {Empty}, ChangeLocation(u, p) PROVE Agreement'
  <2>. DEFINE f == [form[u] EXCEPT !.location = p]
  <2>1. f \in Fields
    BY <1>0 DEF Fields
  <2>2. form' = [form EXCEPT ![u] = f]
    BY <1>2 DEF ChangeLocation
  <2>3. form'[u] = f
    BY <1>0, <2>2
  <2>. HIDE DEF f
  <2>4. SendLater(u, f) /\ UNCHANGED <<located, entry, shown, requests, events>>
    BY <1>2, <2>3 DEF ChangeLocation
  <2>. QED  BY <2>1, <2>2, <2>4, TypingAgrees
<1>3. CASE ChangeHelp(u)
  <2>1. shown[u] = None /\ UNCHANGED <<located, entry, shown, pending, requests, events>>
    BY <1>3 DEF ChangeHelp
  <2>2. \A t \in Open : t # u => form'[t] = form[t]
    BY <1>0, <1>3 DEF ChangeHelp
  <2>3. \A t \in Open : Agrees(form'[t], shown[t], pending[t], requests[t], events[t])
    BY <2>1, <2>2 DEF Agreement, Agrees
  <2>. QED  BY <2>1, <2>3 DEF Agreement, Open
<1>4. CASE EnterQueue(u)
  <2>. DEFINE r == Request("joinQueue", form[u], Joining(u))
  <2>1. Complete(form[u]) /\ Joining(u) \in BOOLEAN
    BY <1>4 DEF EnterQueue, Joining
  <2>2. r \in Requests
    BY <1>0, <2>1 DEF Requests, Asked, Request
  <2>3. Send(u, r) /\ UNCHANGED <<located, entry, shown, form, pending, events>>
    BY <1>4 DEF EnterQueue
  <2>. HIDE DEF r
  <2>. QED  BY <2>2, <2>3, SendAgrees
<1>5. ASSUME NEW path \in {"setHelpStatus", "leaveQueue"}, Press(u, path) PROVE Agreement'
  <2>. DEFINE r == Request(path, NoFields, None)
  <2>1. r \in Requests
    BY DEF Requests, Asked, Request, NoFields, Fields
  <2>2. Send(u, r) /\ UNCHANGED <<located, entry, shown, form, pending, events>>
    BY <1>5 DEF Press
  <2>. HIDE DEF r
  <2>. QED  BY <2>1, <2>2, SendAgrees
<1>6. CASE Debounced(u)
  <2>1. /\ Send(u, pending[u]) /\ UNCHANGED <<located, entry, shown, form, events>>
        /\ \A t \in Open : t # u => pending'[t] = pending[t]
    BY <1>0, <1>6 DEF Debounced
  <2>2. pending[u] \in Requests /\ pending[u].path = "updateQueueEntry"
    BY <1>0, <1>6 DEF Debounced, Updates
  <2>. QED  BY <2>1, <2>2, SendAgrees
<1>. QED  BY <1>1, <1>2, <1>3, <1>4, <1>5, <1>6, ReceiveAgrees, HandleAgrees
          DEF TabStep, ReceiveHelp, Leave

LEMMA StepAgrees == Types /\ Agreement /\ [Next]_vars => Agreement'
<1>. SUFFICES ASSUME Types, Agreement, [Next]_vars PROVE Agreement'
  OBVIOUS
<1>1. CASE Kick \/ SetUserHelpStatus \/ OthersEntry
  <2>1. UNCHANGED <<located, shown, form, pending, requests>> /\ Open' = Open
    BY <1>1 DEF Kick, SetUserHelpStatus, OthersEntry, Open
  <2>2. ASSUME NEW t \in Open PROVE Heard(t)
    <3>1. Becomes(shown[t], events[t], entry)
      BY DEF Agreement
    <3>2. CASE Kick \/ SetUserHelpStatus
      BY <3>1, <3>2, ServerAgrees DEF Kick, SetUserHelpStatus
    <3>3. CASE OthersEntry
      <4>. DEFINE e == Event("others", None)
      <4>1. e \in Events /\ Reduce(entry, e) = entry
        BY DEF Events, Told, Event, Reduce
      <4>2. Announce(e) /\ entry' = entry /\ entry \in Values
        BY <3>3 DEF OthersEntry, Types, Values
      <4>. HIDE DEF e
      <4>. QED  BY <3>1, <4>1, <4>2, AnnounceAgrees DEF Heard
    <3>. QED  BY <1>1, <3>2, <3>3
  <2>3. \A t \in Open : Agrees(form[t], shown[t], pending[t], requests[t], events'[t])
    BY <2>2 DEF Heard, Agreement, Agrees
  <2>. QED  BY <2>1, <2>2, <2>3 DEF Agreement, Heard
<1>2. CASE UNCHANGED vars
  BY <1>2 DEF vars, Agreement, Open
<1>. QED  BY <1>1, <1>2, TabStepAgrees DEF Next

LEMMA InitAgrees == Init /\ Types => Agreement
<1>. SUFFICES ASSUME Init, Types, NEW t \in Open
              PROVE  /\ Becomes(shown[t], events[t], entry)
                     /\ Agrees(form[t], shown[t], pending[t], requests[t], events[t])
  BY DEF Agreement
<1>1. located[t] \in Places \cup {Empty} /\ entry \in Rows \cup {None} /\ entry \in Values
  BY DEF Types, Values
<1>2. /\ shown[t] = entry /\ form[t] = FormOf(located[t], entry) /\ events[t] = <<>>
      /\ requests[t] = Corrections(located[t], entry)
  BY DEF Init
<1>3. Becomes(shown[t], events[t], entry)
  BY <1>1, <1>2, BecomesSame
<1>4. CASE entry # None
  <2>. DEFINE C == Corrections(located[t], entry)
  <2>1. FormOf(located[t], entry) = FieldsOf(entry) \/ C # <<>>
    BY <1>1, <1>4, FormOrCorrection
  <2>2. C \in Seq(Requests) /\ \A i \in DOMAIN C : C[i].path = "updateQueueEntry"
    BY <1>1, CorrectionsType
  <2>. HIDE DEF C
  <2>3. C # <<>> => 1 \in DOMAIN C
    BY <2>2, HeadTailProperties
  <2>4. C # <<>> => ~NoUpdate(C)
    BY <2>2, <2>3 DEF NoUpdate
  <2>. QED  BY <1>2, <1>3, <2>1, <2>4 DEF Agrees, C
<1>. QED  BY <1>2, <1>3, <1>4 DEF Agrees

\* However many tabs a user types in while others' events overwrite the forms: once nothing is
\* held back or on its way, a complete form is what the entry says (sendPersonalEntry of the
\* form, the effects that read the entry, and onQueueEntryUpdated in the store).
THEOREM FormAgreesCorrect == Spec => []FormAgrees
<1>1. Init => Types /\ Agreement
  BY InitType, InitAgrees
<1>2. Types /\ Agreement /\ [Next]_vars => (Types /\ Agreement)'
  BY StepType, StepAgrees
<1>3. Types /\ Agreement => FormAgrees
  <2>. SUFFICES ASSUME Types, Agreement, Quiet, entry # None, NEW t \in Open, Complete(form[t])
                PROVE  form[t] = FieldsOf(entry)
    BY DEF FormAgrees
  <2>1. pending[t] = None /\ requests[t] = <<>> /\ events[t] = <<>>
    BY DEF Quiet
  <2>2. shown[t] = entry
    BY <2>1, BecomesNothing DEF Agreement
  <2>3. NoUpdate(<<>>)
    BY DEF NoUpdate
  <2>. QED  BY <2>1, <2>2, <2>3 DEF Agreement, Agrees
<1>. QED  BY <1>1, <1>2, <1>3, PTL DEF Spec

-----------------------------------------------------------------------------
(* The exchange of updates and events: sums.                               *)

\* A set without 0 \in S and the step would have a least missing number.
LEMMA NatInductionInSet ==
  ASSUME NEW S, 0 \in S, \A n \in Nat : n \in S => n + 1 \in S
  PROVE  Nat \subseteq S
<1>. DEFINE R == {p \in Nat \X Nat : p[1] < p[2]}
            T == Nat \ S
<1>1. IsWellFoundedOn(R, Nat)
  BY NatLessThanWellFounded DEF OpToRel
<1>2. SUFFICES ASSUME T # {} PROVE FALSE
  OBVIOUS
<1>3. PICK x \in T : \A y \in T : <<y, x>> \notin R
  <2>1. T \subseteq Nat
    OBVIOUS
  <2>. HIDE DEF R, T
  <2>. QED  BY <1>1, <1>2, <2>1, WFMin
<1>4. x \in Nat /\ x # 0 /\ x - 1 \in Nat /\ x = (x - 1) + 1
  OBVIOUS
<1>5. x - 1 \notin T
  <2>1. <<x - 1, x>> \in R
    BY <1>4
  <2>. QED  BY <1>3, <2>1
<1>. QED  BY <1>4, <1>5

Weights(w, n) == \A k \in 1 .. n : w[k] \in Nat

\* The sums of the first members of w
Partial(s, w, n) ==
  /\ s \in [0 .. n -> Nat] /\ s[0] = 0
  /\ \A k \in 1 .. n : s[k] = s[k - 1] + w[k]

HasPartial(w, n) == \E s : Partial(s, w, n)

LEMMA PartialExists ==
  ASSUME NEW n \in Nat, NEW w, Weights(w, n)
  PROVE  HasPartial(w, n)
<1>. DEFINE P == {m \in Nat : m <= n => HasPartial(w, m)}
<1>1. 0 \in P
  <2>1. Partial([k \in 0 .. 0 |-> 0], w, 0)
    BY DEF Partial
  <2>. QED  BY <2>1 DEF HasPartial
<1>2. ASSUME NEW m \in Nat, m \in P PROVE m + 1 \in P
  <2>. SUFFICES ASSUME m + 1 <= n PROVE HasPartial(w, m + 1)
    OBVIOUS
  <2>1. PICK s : Partial(s, w, m)
    BY <1>2 DEF HasPartial
  <2>2. w[m + 1] \in Nat
    BY DEF Weights
  <2>. DEFINE z == s[m] + w[m + 1]
              r == [k \in 0 .. m + 1 |-> IF k = m + 1 THEN z ELSE s[k]]
  <2>3. s \in [0 .. m -> Nat] /\ z \in Nat
    BY <2>1, <2>2 DEF Partial
  <2>. HIDE DEF z
  <2>4. r \in [0 .. m + 1 -> Nat] /\ r[0] = 0 /\ r[m + 1] = z /\ \A k \in 0 .. m : r[k] = s[k]
    BY <2>1, <2>3 DEF Partial
  <2>. HIDE DEF r
  <2>5. ASSUME NEW k \in 1 .. m + 1 PROVE r[k] = r[k - 1] + w[k]
    <3>1. CASE k = m + 1
      <4>1. k - 1 = m /\ m \in 0 .. m
        BY <3>1
      <4>. QED  BY <2>4, <3>1, <4>1 DEF z
    <3>2. CASE k # m + 1
      <4>1. k \in 1 .. m /\ k \in 0 .. m /\ k - 1 \in 0 .. m
        BY <3>2
      <4>2. s[k] = s[k - 1] + w[k]
        BY <2>1, <4>1 DEF Partial
      <4>. QED  BY <2>4, <4>1, <4>2
    <3>. QED  BY <3>1, <3>2
  <2>6. Partial(r, w, m + 1)
    BY <2>4, <2>5 DEF Partial
  <2>. QED  BY <2>6 DEF HasPartial
<1>3. Nat \subseteq P
  <2>. HIDE DEF P
  <2>. QED  BY <1>1, <1>2, NatInductionInSet
<1>. QED  BY <1>3

LEMMA SumIsPartial ==
  ASSUME NEW n \in Nat, NEW w, Weights(w, n)
  PROVE  \E s : Partial(s, w, n) /\ Sum(w, n) = s[n]
<1>. DEFINE Is(s) == s = [k \in 0 .. n |-> IF k = 0 THEN 0 ELSE s[k - 1] + w[k]]
            G == CHOOSE s : Is(s)
<1>1. PICK r : Partial(r, w, n)
  BY PartialExists DEF HasPartial
<1>2. Is(r)
  <2>1. \A k \in 0 .. n : r[k] = IF k = 0 THEN 0 ELSE r[k - 1] + w[k]
    <3>. SUFFICES ASSUME NEW k \in 0 .. n PROVE r[k] = IF k = 0 THEN 0 ELSE r[k - 1] + w[k]
      OBVIOUS
    <3>1. k = 0 \/ k \in 1 .. n
      OBVIOUS
    <3>. QED  BY <1>1, <3>1 DEF Partial
  <2>2. r \in [0 .. n -> Nat]
    BY <1>1 DEF Partial
  <2>. QED  BY <2>1, <2>2
<1>3. Is(G)
  BY <1>2
<1>4. Sum(w, n) = G[n]
  BY DEF Sum
<1>. HIDE DEF G
<1>5. G[0] = 0 /\ \A k \in 1 .. n : G[k] = G[k - 1] + w[k]
  BY <1>3
<1>6. \A k \in 0 .. n : G[k] = r[k]
  <2>. DEFINE P == {m \in Nat : m <= n => G[m] = r[m]}
  <2>1. 0 \in P
    BY <1>1, <1>5 DEF Partial
  <2>2. ASSUME NEW m \in Nat, m \in P PROVE m + 1 \in P
    <3>. SUFFICES ASSUME m + 1 <= n PROVE G[m + 1] = r[m + 1]
      OBVIOUS
    <3>1. m + 1 \in 1 .. n /\ (m + 1) - 1 = m /\ G[m] = r[m]
      BY <2>2
    <3>2. G[m + 1] = G[m] + w[m + 1]
      BY <1>5, <3>1
    <3>3. r[m + 1] = r[m] + w[m + 1]
      BY <1>1, <3>1 DEF Partial
    <3>. QED  BY <3>1, <3>2, <3>3
  <2>3. Nat \subseteq P
    <3>. HIDE DEF P
    <3>. QED  BY <2>1, <2>2, NatInductionInSet
  <2>. QED  BY <2>3
<1>. QED  BY <1>1, <1>4, <1>6

\* The sums of weights that agree agree.
LEMMA PartialsAgree ==
  ASSUME NEW n \in Nat, NEW v, NEW w, NEW a, NEW b, NEW m \in 0 .. n,
         Partial(a, v, m), Partial(b, w, n), \A k \in 1 .. m : v[k] = w[k]
  PROVE  a[m] = b[m]
<1>. DEFINE P == {k \in Nat : k <= m => a[k] = b[k]}
<1>1. 0 \in P
  BY DEF Partial
<1>2. ASSUME NEW k \in Nat, k \in P PROVE k + 1 \in P
  <2>. SUFFICES ASSUME k + 1 <= m PROVE a[k + 1] = b[k + 1]
    OBVIOUS
  <2>1. k + 1 \in 1 .. m /\ k + 1 \in 1 .. n /\ (k + 1) - 1 = k /\ a[k] = b[k]
    BY <1>2
  <2>2. a[k + 1] = a[k] + v[k + 1]
    BY <2>1 DEF Partial
  <2>3. b[k + 1] = b[k] + w[k + 1]
    BY <2>1 DEF Partial
  <2>. QED  BY <2>1, <2>2, <2>3
<1>3. Nat \subseteq P
  <2>. HIDE DEF P
  <2>. QED  BY <1>1, <1>2, NatInductionInSet
<1>. QED  BY <1>3

LEMMA SumNext ==
  ASSUME NEW n \in Nat, NEW v, NEW w, Weights(v, n), Weights(w, n + 1),
         \A k \in 1 .. n : v[k] = w[k]
  PROVE  Sum(v, n) \in Nat /\ Sum(w, n + 1) = Sum(v, n) + w[n + 1]
<1>1. PICK a : Partial(a, v, n) /\ Sum(v, n) = a[n]
  BY SumIsPartial
<1>2. PICK b : Partial(b, w, n + 1) /\ Sum(w, n + 1) = b[n + 1]
  <2>. DEFINE m == n + 1
  <2>1. m \in Nat /\ Weights(w, m)
    OBVIOUS
  <2>. HIDE DEF m
  <2>2. \E b : Partial(b, w, m) /\ Sum(w, m) = b[m]
    BY <2>1, SumIsPartial
  <2>. QED  BY <2>2 DEF m
<1>3. a[n] = b[n]
  <2>. DEFINE m == n + 1
  <2>1. m \in Nat /\ n \in 0 .. m
    OBVIOUS
  <2>2. Partial(b, w, m)
    BY <1>2
  <2>. HIDE DEF m
  <2>. QED  BY <1>1, <2>1, <2>2, PartialsAgree
<1>4. n + 1 \in 1 .. n + 1 /\ (n + 1) - 1 = n /\ n \in 0 .. n
  OBVIOUS
<1>5. b[n + 1] = b[n] + w[n + 1]
  BY <1>2, <1>4 DEF Partial
<1>6. a[n] \in Nat
  BY <1>1, <1>4 DEF Partial
<1>. QED  BY <1>1, <1>2, <1>3, <1>5, <1>6

LEMMA SumZero ==
  ASSUME NEW w
  PROVE  Sum(w, 0) = 0
<1>1. Weights(w, 0)
  BY DEF Weights
<1>. QED  BY <1>1, SumIsPartial DEF Partial

LEMMA SumType ==
  ASSUME NEW n \in Nat, NEW w, Weights(w, n)
  PROVE  Sum(w, n) \in Nat
<1>1. PICK a : Partial(a, w, n) /\ Sum(w, n) = a[n]
  BY SumIsPartial
<1>. QED  BY <1>1 DEF Partial

\* The first member of w is gone, and all others are one place further in front.
LEMMA SumTail ==
  ASSUME NEW n \in Nat, NEW v, NEW w, Weights(v, n), Weights(w, n + 1),
         \A k \in 1 .. n : v[k] = w[k + 1]
  PROVE  Sum(w, n + 1) = w[1] + Sum(v, n)
<1>. DEFINE P == {m \in Nat : m <= n => Sum(w, m + 1) = w[1] + Sum(v, m)}
<1>0. \A m \in 0 .. n : Weights(v, m) /\ Weights(w, m + 1)
  BY DEF Weights
<1>1. 0 \in P
  <2>1. Sum(v, 0) = 0 /\ Sum(w, 0) = 0
    BY SumZero
  <2>2. Weights(w, 0) /\ Weights(w, 0 + 1)
    BY <1>0 DEF Weights
  <2>3. Sum(w, 0 + 1) = Sum(w, 0) + w[0 + 1]
    BY <2>2, SumNext
  <2>4. w[1] \in Nat
    BY DEF Weights
  <2>. QED  BY <2>1, <2>3, <2>4
<1>2. ASSUME NEW m \in Nat, m \in P PROVE m + 1 \in P
  <2>. SUFFICES ASSUME m + 1 <= n PROVE Sum(w, (m + 1) + 1) = w[1] + Sum(v, m + 1)
    OBVIOUS
  <2>. DEFINE j == m + 1
  <2>1. j \in Nat /\ m \in 0 .. n /\ j \in 0 .. n /\ j \in 1 .. n
    OBVIOUS
  <2>2. Weights(v, m) /\ Weights(v, j) /\ Weights(w, j) /\ Weights(w, j + 1)
    BY <1>0, <2>1
  <2>3. Sum(w, j) = w[1] + Sum(v, m)
    BY <1>2, <2>1
  <2>4. Sum(v, m) \in Nat /\ Sum(v, j) = Sum(v, m) + v[j]
    BY <2>2, SumNext
  <2>. HIDE DEF j
  <2>5. Sum(w, j + 1) = Sum(w, j) + w[j + 1]
    BY <2>1, <2>2, SumNext
  <2>6. v[j] = w[j + 1] /\ v[j] \in Nat /\ w[1] \in Nat
    <3>1. 1 \in 1 .. n + 1
      OBVIOUS
    <3>. QED  BY <2>1, <3>1 DEF Weights
  <2>7. Sum(w, j + 1) = w[1] + Sum(v, j)
    BY <2>3, <2>4, <2>5, <2>6
  <2>. QED  BY <2>7 DEF j
<1>3. Nat \subseteq P
  <2>. HIDE DEF P
  <2>. QED  BY <1>1, <1>2, NatInductionInSet
<1>. QED  BY <1>3

\* Member t loses d, and each of the n members gains at most c.
LEMMA SumTransfer ==
  ASSUME NEW n \in Nat, NEW v, NEW w, Weights(v, n), Weights(w, n),
         NEW c \in Nat, NEW d \in Nat, NEW t \in 1 .. n,
         \A k \in 1 .. n : k # t => v[k] <= w[k] + c,
         v[t] + d <= w[t] + c
  PROVE  Sum(v, n) + d <= Sum(w, n) + n * c
<1>. DEFINE D(m) == IF t <= m THEN d ELSE 0
            P == {m \in Nat : m <= n => Sum(v, m) + D(m) <= Sum(w, m) + m * c}
<1>1. 0 \in P
  <2>1. Sum(v, 0) = 0 /\ Sum(w, 0) = 0 /\ 0 * c = 0 /\ D(0) = 0
    BY SumZero
  <2>. QED  BY <2>1
<1>2. ASSUME NEW m \in Nat, m \in P PROVE m + 1 \in P
  <2>. SUFFICES ASSUME m + 1 <= n PROVE Sum(v, m + 1) + D(m + 1) <= Sum(w, m + 1) + (m + 1) * c
    OBVIOUS
  <2>1. Weights(v, m) /\ Weights(w, m) /\ Weights(v, m + 1) /\ Weights(w, m + 1)
    BY DEF Weights
  <2>2. Sum(v, m) \in Nat /\ Sum(v, m + 1) = Sum(v, m) + v[m + 1]
    BY <2>1, SumNext
  <2>3. Sum(w, m) \in Nat /\ Sum(w, m + 1) = Sum(w, m) + w[m + 1]
    BY <2>1, SumNext
  <2>4. (m + 1) * c = m * c + c /\ m * c \in Nat
    OBVIOUS
  <2>5. Sum(v, m) + D(m) <= Sum(w, m) + m * c
    BY <1>2
  <2>6. v[m + 1] \in Nat /\ w[m + 1] \in Nat
    BY DEF Weights
  <2>7. v[m + 1] + (D(m + 1) - D(m)) <= w[m + 1] + c
    <3>1. CASE t = m + 1
      BY <2>6, <3>1
    <3>2. CASE t # m + 1
      <4>1. D(m + 1) = D(m) /\ m + 1 \in 1 .. n
        BY <3>2
      <4>. QED  BY <2>6, <3>2, <4>1
    <3>. QED  BY <3>1, <3>2
  <2>8. D(m) \in Nat /\ D(m + 1) \in Nat
    OBVIOUS
  <2>. DEFINE mc == m * c  dm == D(m)  dn == D(m + 1)  nc == (m + 1) * c
  <2>. HIDE DEF mc, dm, dn, nc
  <2>9. Sum(v, m + 1) + dn <= Sum(w, m + 1) + nc
    <3>1. mc \in Nat /\ nc = mc + c /\ dm \in Nat /\ dn \in Nat
      BY <2>4, <2>8 DEF mc, nc, dm, dn
    <3>2. Sum(v, m) + dm <= Sum(w, m) + mc
      BY <2>5 DEF mc, dm
    <3>3. v[m + 1] + (dn - dm) <= w[m + 1] + c
      BY <2>7 DEF dm, dn
    <3>. QED  BY <2>2, <2>3, <2>6, <3>1, <3>2, <3>3
  <2>. QED  BY <2>9 DEF dn, nc
<1>3. Nat \subseteq P
  <2>. HIDE DEF P
  <2>. QED  BY <1>1, <1>2, NatInductionInSet
<1>4. D(n) = d
  OBVIOUS
<1>. QED  BY <1>3, <1>4

-----------------------------------------------------------------------------
(* What is left to do, by tab.                                             *)

Total(s, cost) == Sum([i \in DOMAIN s |-> cost[s[i]]], Len(s))

LEMMA TotalType ==
  ASSUME NEW X, NEW cost \in [X -> Nat], NEW s \in Seq(X)
  PROVE  Total(s, cost) \in Nat
<1>. DEFINE w == [i \in DOMAIN s |-> cost[s[i]]]
<1>1. Len(s) \in Nat /\ Weights(w, Len(s))
  BY DEF Weights
<1>. HIDE DEF w
<1>2. Sum(w, Len(s)) \in Nat
  BY <1>1, SumType
<1>. QED  BY <1>2 DEF Total, w

LEMMA TotalNothing ==
  ASSUME NEW cost
  PROVE  Total(<<>>, cost) = 0
BY SumZero DEF Total

LEMMA TotalAppend ==
  ASSUME NEW X, NEW cost \in [X -> Nat], NEW s \in Seq(X), NEW x \in X
  PROVE  Total(Append(s, x), cost) = Total(s, cost) + cost[x]
<1>. DEFINE m == Append(s, x)
            n == Len(s)
            v == [i \in DOMAIN s |-> cost[s[i]]]
            w == [i \in DOMAIN m |-> cost[m[i]]]
<1>1. /\ n \in Nat /\ Len(m) = n + 1 /\ DOMAIN s = 1 .. n /\ DOMAIN m = 1 .. n + 1
      /\ m[n + 1] = x /\ \A i \in 1 .. n : m[i] = s[i] /\ s[i] \in X
  OBVIOUS
<1>. HIDE DEF m, n
<1>2. Weights(v, n) /\ Weights(w, n + 1) /\ \A k \in 1 .. n : v[k] = w[k]
  <2>1. \A i \in 1 .. n + 1 : m[i] \in X
    BY <1>1
  <2>. QED  BY <1>1, <2>1 DEF Weights
<1>3. w[n + 1] = cost[x]
  BY <1>1
<1>. HIDE DEF v, w
<1>4. Sum(w, n + 1) = Sum(v, n) + w[n + 1]
  BY <1>1, <1>2, SumNext
<1>5. Total(m, cost) = Sum(w, n + 1) /\ Total(s, cost) = Sum(v, n)
  BY <1>1 DEF Total, v, w, n
<1>. QED  BY <1>3, <1>4, <1>5 DEF m

LEMMA TotalTail ==
  ASSUME NEW X, NEW cost \in [X -> Nat], NEW s \in Seq(X), s # <<>>
  PROVE  /\ Head(s) \in X /\ Tail(s) \in Seq(X)
         /\ Total(s, cost) = cost[Head(s)] + Total(Tail(s), cost)
<1>. DEFINE m == Tail(s)
            n == Len(m)
            v == [i \in DOMAIN m |-> cost[m[i]]]
            w == [i \in DOMAIN s |-> cost[s[i]]]
<1>1. /\ n \in Nat /\ Len(s) = n + 1 /\ DOMAIN m = 1 .. n /\ DOMAIN s = 1 .. n + 1
      /\ Head(s) = s[1] /\ m \in Seq(X) /\ \A i \in 1 .. n : m[i] = s[i + 1]
      /\ \A i \in 1 .. n + 1 : s[i] \in X
  OBVIOUS
<1>. HIDE DEF m, n
<1>2. Weights(v, n) /\ Weights(w, n + 1) /\ \A k \in 1 .. n : v[k] = w[k + 1]
  <2>1. \A i \in 1 .. n : m[i] \in X /\ i + 1 \in 1 .. n + 1
    BY <1>1
  <2>. QED  BY <1>1, <2>1 DEF Weights
<1>3. w[1] = cost[Head(s)]
  BY <1>1
<1>. HIDE DEF v, w
<1>4. Sum(w, n + 1) = w[1] + Sum(v, n)
  BY <1>1, <1>2, SumTail
<1>5. Total(s, cost) = Sum(w, n + 1) /\ Total(m, cost) = Sum(v, n)
  BY <1>1 DEF Total, v, w, n
<1>6. Head(s) \in X
  <2>1. 1 \in 1 .. n + 1
    BY <1>1
  <2>. QED  BY <1>1, <2>1
<1>. QED  BY <1>1, <1>3, <1>4, <1>5, <1>6 DEF m

\* The costs, for the tabs L
AcceptedBy(L, place) == \A t \in DOMAIN L : L[t] \in {Empty, place}

Reaction(L) == 1 + 2 * (1 + Len(L))

EventCost(L) ==
  [e \in Events |-> IF e.path = "updateQueueEntry" /\ AcceptedBy(L, e.row.location)
                    THEN 1 ELSE Reaction(L)]

RequestCost(L) ==
  [r \in Requests |-> 1 + Len(L) * IF r.path = "updateQueueEntry" /\ AcceptedBy(L, r.fields.location)
                                   THEN 1 ELSE Reaction(L)]

Load(L, E, R, p) ==
  Total(E, EventCost(L)) + Total(R, RequestCost(L)) + IF p = None THEN 0 ELSE 1 + RequestCost(L)[p]

LEMMA CostType ==
  ASSUME NEW L, Len(L) \in Nat
  PROVE  /\ EventCost(L) \in [Events -> Nat] /\ RequestCost(L) \in [Requests -> Nat]
         /\ Reaction(L) \in Nat /\ Reaction(L) = 3 + 2 * Len(L)
<1>. DEFINE n == Len(L)
            d == Reaction(L)
<1>1. d \in Nat /\ d = 3 + 2 * n
  BY DEF Reaction
<1>2. n * 1 \in Nat /\ n * d \in Nat
  <2>. HIDE DEF d
  <2>. QED  BY <1>1
<1>. HIDE DEF d
<1>3. EventCost(L) \in [Events -> Nat]
  BY <1>1 DEF EventCost, d
<1>4. \A r \in Requests : RequestCost(L)[r] \in Nat
  BY <1>2 DEF RequestCost, d
<1>5. RequestCost(L) \in [Requests -> Nat]
  BY <1>4 DEF RequestCost
<1>. QED  BY <1>1, <1>3, <1>5 DEF d

LEMMA LoadType ==
  ASSUME NEW L, Len(L) \in Nat, NEW E \in Seq(Events), NEW R \in Seq(Requests),
         NEW p \in Updates \cup {None}
  PROVE  Load(L, E, R, p) \in Nat
<1>1. Total(E, EventCost(L)) \in Nat /\ Total(R, RequestCost(L)) \in Nat
  BY CostType, TotalType
<1>2. p # None => RequestCost(L)[p] \in Nat
  BY CostType DEF Updates
<1>. QED  BY <1>1, <1>2 DEF Load

Loads == [t \in Open |-> Load(located, events[t], requests[t], pending[t])]

LEMMA LocatedType ==
  Located => /\ Len(located) \in Nat /\ Open = 1 .. Len(located)
             /\ located \in Seq(Places \cup {Empty})
<1>. SUFFICES ASSUME NEW n \in 1 .. MaxTabs, located \in [1 .. n -> Places \cup {Empty}]
              PROVE  /\ Len(located) \in Nat /\ Open = 1 .. Len(located)
                     /\ located \in Seq(Places \cup {Empty})
  BY DEF Located
<1>1. n \in Nat
  BY PersonalEntryAssumption
<1>. QED  BY <1>1 DEF Open

LEMMA WorkIs ==
  ASSUME Types, Located
  PROVE  Work = Sum(Loads, Len(located)) /\ Weights(Loads, Len(located))
<1>. DEFINE L == located
<1>1. ASSUME NEW t \in Open
      PROVE  TabWork(t) = Load(L, events[t], requests[t], pending[t])
  <2>. DEFINE E == events[t]  R == requests[t]  p == pending[t]
  <2>1. E \in Seq(Events) /\ R \in Seq(Requests) /\ p \in Updates \cup {None}
    BY DEF Types
  <2>2. \A e \in Events : EventWork(e) = EventCost(L)[e]
    BY DEF EventWork, EventCost, Accepted, AcceptedBy, Open, Reaction
  <2>3. \A r \in Requests : RequestWork(r) = RequestCost(L)[r]
    BY DEF RequestWork, RequestCost, Accepted, AcceptedBy, Open, Reaction
  <2>. HIDE DEF E, R, p, L
  <2>4. [i \in DOMAIN E |-> EventWork(E[i])] = [i \in DOMAIN E |-> EventCost(L)[E[i]]]
    <3>1. \A i \in DOMAIN E : E[i] \in Events
      BY <2>1
    <3>. QED  BY <2>2, <3>1
  <2>5. [i \in DOMAIN R |-> RequestWork(R[i])] = [i \in DOMAIN R |-> RequestCost(L)[R[i]]]
    <3>1. \A i \in DOMAIN R : R[i] \in Requests
      BY <2>1
    <3>. QED  BY <2>3, <3>1
  <2>6. p # None => RequestWork(p) = RequestCost(L)[p]
    BY <2>1, <2>3 DEF Updates
  <2>. QED  BY <2>4, <2>5, <2>6 DEF TabWork, Load, Total, E, R, p
<1>2. Weights(Loads, Len(L))
  <2>1. \A t \in Open : Load(L, events[t], requests[t], pending[t]) \in Nat
    BY LocatedType, LoadType DEF Types
  <2>. QED  BY <2>1, LocatedType DEF Weights, Loads
<1>3. Work = Sum(Loads, Len(L))
  <2>1. [t \in Open |-> TabWork(t)] = Loads
    BY <1>1 DEF Loads
  <2>. QED  BY <2>1 DEF Work
<1>. QED  BY <1>2, <1>3

\* What the tab has left to do, in the state and in the next one
LEMMA WorkFact ==
  Types /\ Located => Work = Sum(Loads, Len(located)) /\ Weights(Loads, Len(located))
BY WorkIs

LEMMA WorkFactNext ==
  (Types /\ Located => Work = Sum(Loads, Len(located)) /\ Weights(Loads, Len(located)))'
BY WorkFact, PTL

\* Tab t has d less to do, and every tab at most c more.
LEMMA WorkShrinks ==
  ASSUME Types, Types', Located, UNCHANGED located, NEW t \in Open, NEW c \in Nat, NEW d \in Nat,
         Len(located) * c < d,
         \A u \in Open : u # t =>
           Load(located, events'[u], requests'[u], pending'[u])
             <= Load(located, events[u], requests[u], pending[u]) + c,
         Load(located, events'[t], requests'[t], pending'[t]) + d
           <= Load(located, events[t], requests[t], pending[t]) + c
  PROVE  Work' < Work
<1>. DEFINE n == Len(located)
            v == Loads'
            w == Loads
<1>1. n \in Nat /\ Open = 1 .. n
  BY LocatedType
<1>2. Located' /\ Len(located)' = n /\ Open' = Open
  BY DEF Located, Open
<1>3. Work = Sum(w, n) /\ Weights(w, n)
  BY WorkFact
<1>4. Work' = Sum(v, n) /\ Weights(v, n)
  BY <1>2, WorkFactNext
<1>5. \A u \in Open : /\ w[u] = Load(located, events[u], requests[u], pending[u])
                      /\ v[u] = Load(located, events'[u], requests'[u], pending'[u])
  BY <1>2 DEF Loads
<1>. HIDE DEF n, v, w
<1>6. Sum(v, n) + d <= Sum(w, n) + n * c
  <2>1. t \in 1 .. n /\ (\A k \in 1 .. n : k # t => v[k] <= w[k] + c) /\ v[t] + d <= w[t] + c
    BY <1>1, <1>5
  <2>. QED  BY <1>1, <1>3, <1>4, <2>1, SumTransfer
<1>7. Sum(v, n) \in Nat /\ Sum(w, n) \in Nat
  BY <1>1, <1>3, <1>4, SumType
<1>. DEFINE m == n * c
<1>8. m < d /\ m \in Int
  BY <1>1 DEF n
<1>9. Sum(v, n) + d <= Sum(w, n) + m
  BY <1>6
<1>. HIDE DEF m
<1>. QED  BY <1>3, <1>4, <1>7, <1>8, <1>9

LEMMA DebouncedShrinks ==
  ASSUME Types, Types', Located, UNCHANGED located, NEW t \in Open, Debounced(t)
  PROVE  Work' < Work
<1>. DEFINE L == located  R == requests[t]  p == pending[t]
<1>1. /\ p \in Updates /\ p \in Requests /\ R \in Seq(Requests)
      /\ p # None /\ requests \in [Open -> Seq(Requests)] /\ pending \in [Open -> Updates \cup {None}]
  BY DEF Types, Debounced, Updates
<1>2. /\ requests' = [requests EXCEPT ![t] = Append(R, p)] /\ UNCHANGED events
      /\ pending' = [pending EXCEPT ![t] = None]
  BY DEF Debounced, Send
<1>3. \A u \in Open : u # t => requests'[u] = requests[u] /\ pending'[u] = pending[u]
  BY <1>1, <1>2
<1>4. requests'[t] = Append(R, p) /\ pending'[t] = None
  BY <1>1, <1>2
<1>5. Len(L) \in Nat
  BY LocatedType
<1>. HIDE DEF L, R, p
<1>. DEFINE a == Total(events[t], EventCost(L))  b == Total(R, RequestCost(L))  k == RequestCost(L)[p]
<1>6. Total(Append(R, p), RequestCost(L)) = b + k
  <2>1. RequestCost(L) \in [Requests -> Nat]
    BY <1>5, CostType
  <2>. QED  BY <1>1, <2>1, TotalAppend
<1>7. a \in Nat /\ b \in Nat /\ k \in Nat
  BY <1>1, <1>5, CostType, TotalType DEF Types
<1>8. Load(L, events'[t], requests'[t], pending'[t]) = a + (b + k)
  <2>1. events'[t] = events[t]
    BY <1>2
  <2>2. Total(events'[t], EventCost(L)) = a
    BY <2>1
  <2>. HIDE DEF a, b, k
  <2>3. Load(L, events'[t], requests'[t], pending'[t]) = a + (b + k) + 0
    BY <1>4, <1>6, <2>2 DEF Load
  <2>. QED  BY <1>7, <2>3
<1>9. Load(L, events[t], requests[t], pending[t]) = a + b + (1 + k)
  BY <1>1 DEF Load, R, p
<1>. HIDE DEF a, b, k
<1>10. \A u \in Open : /\ Load(L, events[u], requests[u], pending[u]) \in Nat
                       /\ Load(L, events'[u], requests'[u], pending'[u]) \in Nat
  <2>1. Open' = Open
    BY DEF Open
  <2>. QED  BY <1>5, <2>1, LoadType DEF Types
<1>11. \A u \in Open : u # t => Load(L, events'[u], requests'[u], pending'[u])
                                  <= Load(L, events[u], requests[u], pending[u]) + 0
  BY <1>2, <1>3, <1>10
<1>12. Load(L, events'[t], requests'[t], pending'[t]) + 1
         <= Load(L, events[t], requests[t], pending[t]) + 0
  BY <1>7, <1>8, <1>9
<1>13. Len(L) * 0 < 1
  BY <1>5
<1>. QED  BY <1>11, <1>12, <1>13, WorkShrinks DEF L

\* Two tabs that do not correct each other accept what either makes of the location.
LEMMA CorrectedIsAccepted ==
  ASSUME Located, ~Rivals, NEW t \in Open, located[t] # Empty
  PROVE  AcceptedBy(located, located[t])
BY DEF Rivals, AcceptedBy, Open

\* A tab corrects only an event that was not free of it, and pays with what the event had left.
LEMMA CorrectionsCost ==
  ASSUME Types, Located, ~Rivals, NEW t \in Open, NEW e \in Events, NEW R \in Seq(Requests)
  PROVE  Total(R \o Corrections(located[t], Reduce(shown[t], e)), RequestCost(located)) + 1
           <= Total(R, RequestCost(located)) + EventCost(located)[e]
<1>. DEFINE L == located  p == L[t]  r == Reduce(shown[t], e)  n == Len(L)
            T == Total(R, RequestCost(L))
<1>0. /\ n \in Nat /\ EventCost(L) \in [Events -> Nat] /\ RequestCost(L) \in [Requests -> Nat]
      /\ Reaction(L) = 3 + 2 * n
  BY LocatedType, CostType
<1>1. p \in Places \cup {Empty} /\ r \in Rows \cup {None}
  BY DEF Types, Reduce, Events, Told
<1>2. T \in Nat
  BY <1>0, TotalType
<1>3. EventCost(L)[e] = IF e.path = "updateQueueEntry" /\ AcceptedBy(L, e.row.location)
                        THEN 1 ELSE Reaction(L)
  BY DEF EventCost
<1>4. CASE p # Empty /\ r # None /\ r.location # p
  <2>. DEFINE f == FormOf(p, r)  g == [f EXCEPT !.help = TRUE]
              a == Request("updateQueueEntry", f, r.since)
              b == Request("updateQueueEntry", g, r.since)
  <2>1. f \in Fields /\ f.location = p
    <3>1. f \in Fields
      BY <1>1, FormOfType
    <3>2. f.location = p
      BY <1>4 DEF FormOf
    <3>. QED  BY <3>1, <3>2
  <2>2. f.comment # Empty
    BY <1>1, <1>4, PersonalEntryAssumption DEF FormOf, Rows
  <2>. HIDE DEF f
  <2>3. g \in Fields /\ g.location = p /\ g.comment # Empty
    BY <2>1, <2>2 DEF Fields
  <2>. HIDE DEF g
  <2>4. r.since \in Nat
    BY <1>1, <1>4 DEF Rows
  <2>5. /\ a \in Requests /\ a.path = "updateQueueEntry" /\ a.fields.location = p
        /\ b \in Requests /\ b.path = "updateQueueEntry" /\ b.fields.location = p
    BY <1>4, <2>1, <2>2, <2>3, <2>4 DEF Requests, Asked, Request, Complete
  <2>6. Corrections(p, r) = <<a, b>>
    BY <1>4 DEF Corrections, f, g
  <2>7. AcceptedBy(L, p)
    BY <1>4, CorrectedIsAccepted
  <2>8. ~(e.path = "updateQueueEntry" /\ AcceptedBy(L, e.row.location))
    <3>. SUFFICES ASSUME e.path = "updateQueueEntry", AcceptedBy(L, e.row.location) PROVE FALSE
      OBVIOUS
    <3>1. r = e.row
      BY <1>4 DEF Reduce
    <3>2. p \in {Empty, e.row.location}
      BY DEF AcceptedBy, Open
    <3>. QED  BY <1>4, <3>1, <3>2
  <2>. HIDE DEF a, b, L, p, r, T
  <2>9. RequestCost(L)[a] = 1 + n /\ RequestCost(L)[b] = 1 + n
    <3>1. RequestCost(L)[a] = 1 + Len(L) * 1 /\ RequestCost(L)[b] = 1 + Len(L) * 1
      BY <2>5, <2>7 DEF RequestCost
    <3>. QED  BY <1>0, <3>1
  <2>10. R \o <<a, b>> = Append(Append(R, a), b) /\ Append(R, a) \in Seq(Requests)
    BY <2>5
  <2>11. Total(Append(R, a), RequestCost(L)) = T + (1 + n)
    BY <1>0, <2>5, <2>9, TotalAppend DEF T
  <2>12. Total(Append(Append(R, a), b), RequestCost(L)) = T + (1 + n) + (1 + n)
    <3>. DEFINE q == Append(R, a)
    <3>1. q \in Seq(Requests) /\ Total(q, RequestCost(L)) = T + (1 + n)
      BY <2>10, <2>11
    <3>. HIDE DEF q
    <3>2. Total(Append(q, b), RequestCost(L)) = Total(q, RequestCost(L)) + RequestCost(L)[b]
      BY <1>0, <2>5, <3>1, TotalAppend
    <3>. QED  BY <2>9, <3>1, <3>2 DEF q
  <2>13. EventCost(L)[e] = 3 + 2 * n
    BY <1>0, <1>3, <2>8
  <2>14. Total(R \o Corrections(p, r), RequestCost(L)) = T + (1 + n) + (1 + n)
    BY <2>6, <2>10, <2>12
  <2>15. Total(R \o Corrections(p, r), RequestCost(L)) + 1 <= T + EventCost(L)[e]
    BY <1>0, <1>2, <2>13, <2>14
  <2>. QED  BY <2>15 DEF L, p, r, T
<1>5. CASE ~(p # Empty /\ r # None /\ r.location # p)
  <2>1. Corrections(p, r) = <<>>
    BY <1>5 DEF Corrections
  <2>2. R \o Corrections(p, r) = R
    BY <2>1
  <2>3. EventCost(L)[e] \in Nat /\ EventCost(L)[e] >= 1
    BY <1>0, <1>3
  <2>. HIDE DEF L, p, r, T
  <2>4. Total(R \o Corrections(p, r), RequestCost(L)) + 1 <= T + EventCost(L)[e]
    <3>1. Total(R \o Corrections(p, r), RequestCost(L)) = T
      BY <2>2 DEF T
    <3>. QED  BY <1>2, <2>3, <3>1
  <2>. QED  BY <2>4 DEF L, p, r, T
<1>. QED  BY <1>4, <1>5

LEMMA ReceiveShrinks ==
  ASSUME Types, Types', Located, UNCHANGED located, ~Rivals, NEW t \in Open, Receive(t)
  PROVE  Work' < Work
<1>. DEFINE L == located  E == events[t]  R == requests[t]  p == pending[t]
            e == Head(E)  C == Corrections(L[t], Reduce(shown[t], e))
<1>1. /\ E \in Seq(Events) /\ E # <<>> /\ R \in Seq(Requests)
      /\ events \in [Open -> Seq(Events)] /\ requests \in [Open -> Seq(Requests)]
      /\ shown \in [Open -> Rows \cup {None}]
  BY DEF Types, Receive
<1>2. /\ events' = [events EXCEPT ![t] = Tail(E)] /\ UNCHANGED pending
      /\ shown' = [shown EXCEPT ![t] = Reduce(shown[t], e)]
      /\ \/ UNCHANGED requests
         \/ requests' = [requests EXCEPT ![t] = R \o Corrections(L[t], shown'[t])]
  BY DEF Receive
<1>3. Len(L) \in Nat /\ EventCost(L) \in [Events -> Nat] /\ RequestCost(L) \in [Requests -> Nat]
  BY LocatedType, CostType
<1>4. e \in Events /\ Tail(E) \in Seq(Events)
      /\ Total(E, EventCost(L)) = EventCost(L)[e] + Total(Tail(E), EventCost(L))
  <2>. HIDE DEF E, L
  <2>. QED  BY <1>1, <1>3, TotalTail
<1>5. Total(R \o C, RequestCost(L)) + 1 <= Total(R, RequestCost(L)) + EventCost(L)[e]
  BY <1>1, <1>4, CorrectionsCost
<1>6. EventCost(L)[e] \in Nat /\ EventCost(L)[e] >= 1
  <2>1. EventCost(L)[e] = 1 \/ EventCost(L)[e] = Reaction(L)
    <3>. HIDE DEF e
    <3>. QED  BY <1>4 DEF EventCost
  <2>. HIDE DEF L
  <2>. QED  BY <1>3, <2>1, CostType
<1>7. shown'[t] = Reduce(shown[t], e)
  BY <1>1, <1>2
<1>8. requests'[t] = R \/ requests'[t] = R \o C
  BY <1>1, <1>2, <1>7
<1>9. \A u \in Open : u # t => events'[u] = events[u] /\ requests'[u] = requests[u]
  BY <1>1, <1>2
<1>10. events'[t] = Tail(E)
  BY <1>1, <1>2
<1>11. \A u \in Open : /\ Load(L, events[u], requests[u], pending[u]) \in Nat
                       /\ Load(L, events'[u], requests'[u], pending'[u]) \in Nat
  <2>1. Open' = Open
    BY DEF Open
  <2>. QED  BY <1>3, <2>1, LoadType DEF Types
<1>12. Total(requests'[t], RequestCost(L)) \in Nat /\ Total(R, RequestCost(L)) \in Nat
  <2>1. requests'[t] \in Seq(Requests)
    BY DEF Types, Open
  <2>. HIDE DEF R, L
  <2>. QED  BY <1>1, <1>3, <2>1, TotalType
<1>13. Total(Tail(E), EventCost(L)) \in Nat
  <2>. HIDE DEF E, L
  <2>. QED  BY <1>3, <1>4, TotalType
<1>. DEFINE k == EventCost(L)[e]  a == Total(Tail(E), EventCost(L))  b == Total(R, RequestCost(L))
            z == Total(requests'[t], RequestCost(L))
            h == IF p = None THEN 0 ELSE 1 + RequestCost(L)[p]
<1>14. h \in Nat
  BY <1>3 DEF Types, Updates
<1>15. z + 1 <= b + k
  <2>1. b \in Nat /\ k \in Nat /\ k >= 1
    BY <1>6, <1>12
  <2>2. Total(R \o C, RequestCost(L)) + 1 <= b + k
    BY <1>5
  <2>3. CASE requests'[t] = R
    <3>1. z = b
      BY <2>3
    <3>. HIDE DEF b, k, z
    <3>. QED  BY <2>1, <3>1
  <2>4. CASE requests'[t] = R \o C
    <3>1. z = Total(R \o C, RequestCost(L))
      BY <2>4
    <3>. HIDE DEF b, k, z
    <3>. QED  BY <2>2, <3>1
  <2>. QED  BY <1>8, <2>3, <2>4
<1>16. Load(L, events'[t], requests'[t], pending'[t]) = a + z + h
  BY <1>2, <1>10 DEF Load
<1>17. Load(L, events[t], requests[t], pending[t]) = (k + a) + b + h
  BY <1>4 DEF Load
<1>18. k \in Nat /\ a \in Nat /\ b \in Nat /\ z \in Nat
  BY <1>6, <1>12, <1>13
<1>. HIDE DEF L, E, R, p, C, e, k, a, b, z, h
<1>19. \A u \in Open : u # t => Load(L, events'[u], requests'[u], pending'[u])
                                  <= Load(L, events[u], requests[u], pending[u]) + 0
  BY <1>2, <1>9, <1>11
<1>20. Load(L, events'[t], requests'[t], pending'[t]) + 1
         <= Load(L, events[t], requests[t], pending[t]) + 0
  BY <1>14, <1>15, <1>16, <1>17, <1>18
<1>21. Len(L) * 0 < 1
  BY <1>3
<1>. QED  BY <1>19, <1>20, <1>21, WorkShrinks DEF L

\* A handler tells nobody, or tells all of an event that an accepted update makes harmless.
Harmless(r, e) ==
  r.path = "updateQueueEntry" => e.path = "updateQueueEntry" /\ e.row.location = r.fields.location

Answered(r) == UNCHANGED events \/ \E e \in Events : Announce(e) /\ Harmless(r, e)

LEMMA HandleAnswers ==
  ASSUME Types, NEW t \in Open, Handle(t), NEW r, r = Head(requests[t])
  PROVE  r \in Requests /\ Answered(r)
<1>0. entry \in Rows \cup {None} /\ inputs \in Nat
  BY DEF Types
<1>1. r \in Requests
  <2>1. requests[t] \in Seq(Requests) /\ requests[t] # <<>>
    BY DEF Types, Handle
  <2>. QED  BY <2>1, HeadTailProperties
<1>. SUFFICES Answered(r)
  BY <1>1
<1>2. \/ r.path = "joinQueue" /\ JoinQueue(r)
      \/ r.path = "updateQueueEntry" /\ UpdateQueueEntry(r)
      \/ r.path = "setHelpStatus" /\ SetHelpStatus
      \/ r.path = "leaveQueue" /\ LeaveQueue
  BY DEF Handle
<1>3. ASSUME Fail PROVE Answered(r)
  BY <1>3 DEF Fail, Answered
<1>4. CASE r.path = "joinQueue" /\ JoinQueue(r)
  <2>1. r.fields \in Fields /\ Complete(r.fields) /\ r.since \in BOOLEAN
    BY <1>1, <1>4 DEF Requests, Asked
  <2>2. Row(r.fields, inputs, r.since) \in Rows
    BY <1>0, <2>1 DEF Row, Rows, Fields, Complete
  <2>3. CASE entry' = Row(r.fields, inputs, r.since) /\ Announce(Event("joinQueue", entry'))
    <3>1. Event("joinQueue", entry') \in Events
      BY <2>2, <2>3 DEF Events, Told, Event
    <3>2. Harmless(r, Event("joinQueue", entry'))
      BY <1>4 DEF Harmless
    <3>. QED  BY <2>3, <3>1, <3>2 DEF Answered
  <2>. QED  BY <1>3, <1>4, <2>3 DEF JoinQueue
<1>5. CASE r.path = "updateQueueEntry" /\ UpdateQueueEntry(r)
  <2>1. CASE entry = None
    BY <1>3, <1>5, <2>1 DEF UpdateQueueEntry
  <2>2. CASE entry # None
    <3>. DEFINE x == [entry EXCEPT !.comment = r.fields.comment,
                                   !.location = r.fields.location, !.help = r.fields.help]
    <3>1. r.fields \in Fields /\ Complete(r.fields)
      BY <1>1, <1>5 DEF Requests, Asked
    <3>2. x \in Rows /\ x.location = r.fields.location
      BY <1>0, <2>2, <3>1 DEF Rows, Fields, Complete
    <3>3. Announce(Event("updateQueueEntry", x))
      BY <1>5, <2>2 DEF UpdateQueueEntry, Change
    <3>. HIDE DEF x
    <3>4. /\ Event("updateQueueEntry", x) \in Events /\ Harmless(r, Event("updateQueueEntry", x))
      BY <3>2 DEF Events, Told, Event, Harmless
    <3>. QED  BY <3>3, <3>4 DEF Answered
  <2>. QED  BY <2>1, <2>2
<1>6. CASE r.path = "setHelpStatus" /\ SetHelpStatus
  <2>1. CASE entry = None
    BY <1>3, <1>6, <2>1 DEF SetHelpStatus
  <2>2. CASE entry # None
    <3>1. Announce(Event("updateQueueEntry", entry))
      BY <1>6, <2>2 DEF SetHelpStatus, Change
    <3>2. Event("updateQueueEntry", entry) \in Events
      BY <1>0, <2>2 DEF Events, Told, Event
    <3>3. Harmless(r, Event("updateQueueEntry", entry))
      BY <1>6 DEF Harmless
    <3>. QED  BY <3>1, <3>2, <3>3 DEF Answered
  <2>. QED  BY <2>1, <2>2
<1>7. CASE r.path = "leaveQueue" /\ LeaveQueue
  <2>1. CASE entry = None
    BY <1>3, <1>7, <2>1 DEF LeaveQueue
  <2>2. CASE entry # None
    <3>1. Announce(Event("leaveQueue", None))
      BY <1>7, <2>2 DEF LeaveQueue
    <3>2. Event("leaveQueue", None) \in Events
      BY DEF Events, Told, Event
    <3>3. Harmless(r, Event("leaveQueue", None))
      BY <1>7 DEF Harmless
    <3>. QED  BY <3>1, <3>2, <3>3 DEF Answered
  <2>. QED  BY <2>1, <2>2
<1>. QED  BY <1>2, <1>4, <1>5, <1>6, <1>7

\* A request costs more than the event it may cause costs all tabs.
LEMMA RequestPays ==
  ASSUME NEW L, Len(L) \in Nat, NEW r \in Requests, NEW e \in Events, Harmless(r, e)
  PROVE  RequestCost(L)[r] >= 1 /\ Len(L) * EventCost(L)[e] < RequestCost(L)[r]
<1>. DEFINE n == Len(L)  d == Reaction(L)  c == EventCost(L)[e]
<1>1. n \in Nat /\ d \in Nat /\ d >= 1
  BY CostType
<1>. HIDE DEF d
<1>2. c = 1 \/ c = d
  BY DEF EventCost, d
<1>3. n * d \in Nat /\ n * 1 = n /\ n <= n * d
  <2>. HIDE DEF n
  <2>1. PICK j \in Nat : d = 1 + j
    BY <1>1
  <2>2. n * d = n + n * j
    BY <1>1, <2>1
  <2>3. n * j \in Nat /\ n * d \in Nat
    BY <1>1
  <2>. QED  BY <1>1, <2>2, <2>3
<1>4. CASE r.path = "updateQueueEntry" /\ AcceptedBy(L, r.fields.location)
  <2>1. c = 1
    BY <1>4 DEF Harmless, EventCost
  <2>2. RequestCost(L)[r] = 1 + n * 1
    BY <1>4 DEF RequestCost
  <2>. HIDE DEF n, c
  <2>3. n * c < RequestCost(L)[r] /\ RequestCost(L)[r] >= 1
    BY <1>1, <1>3, <2>1, <2>2
  <2>. QED  BY <2>3 DEF n, c
<1>5. CASE ~(r.path = "updateQueueEntry" /\ AcceptedBy(L, r.fields.location))
  <2>1. RequestCost(L)[r] = 1 + n * d
    BY <1>5 DEF RequestCost, d
  <2>. HIDE DEF n, c
  <2>. DEFINE m == n * d
  <2>2. n * c <= m /\ m \in Nat /\ n * c \in Nat
    BY <1>1, <1>2, <1>3
  <2>3. RequestCost(L)[r] = 1 + m
    BY <2>1
  <2>. DEFINE q == n * c
  <2>. HIDE DEF m, q
  <2>4. q < RequestCost(L)[r] /\ RequestCost(L)[r] >= 1
    BY <2>2, <2>3 DEF q
  <2>. QED  BY <2>4 DEF n, c, q
<1>. QED  BY <1>4, <1>5

LEMMA HandleShrinks ==
  ASSUME Types, Types', Located, UNCHANGED located, NEW t \in Open, Handle(t)
  PROVE  Work' < Work
<1>. DEFINE L == located  R == requests[t]  r == Head(R)  k == RequestCost(L)[r]
            Before(u) == Load(L, events[u], requests[u], pending[u])
            After(u) == Load(L, events'[u], requests'[u], pending'[u])
            T == Total(Tail(R), RequestCost(L))
            h == IF pending[t] = None THEN 0 ELSE 1 + RequestCost(L)[pending[t]]
<1>1. /\ requests \in [Open -> Seq(Requests)] /\ R \in Seq(Requests) /\ R # <<>>
      /\ events \in [Open -> Seq(Events)]
      /\ requests' = [requests EXCEPT ![t] = Tail(R)] /\ UNCHANGED pending
  BY DEF Types, Handle
<1>2. requests'[t] = Tail(R) /\ \A u \in Open : u # t => requests'[u] = requests[u]
  BY <1>1
<1>3. Len(L) \in Nat /\ EventCost(L) \in [Events -> Nat] /\ RequestCost(L) \in [Requests -> Nat]
  BY LocatedType, CostType
<1>4. r \in Requests /\ Answered(r)
  BY HandleAnswers
<1>5. /\ Tail(R) \in Seq(Requests)
      /\ Total(R, RequestCost(L)) = k + T
  <2>. HIDE DEF R, L
  <2>. QED  BY <1>1, <1>3, TotalTail
<1>6. T \in Nat /\ k \in Nat /\ h \in Nat
  <2>1. T \in Nat
    <3>. HIDE DEF R, L
    <3>. QED  BY <1>3, <1>5, TotalType
  <2>. QED  BY <1>3, <1>4, <2>1 DEF Types, Updates
<1>7. \A u \in Open : Before(u) \in Nat /\ After(u) \in Nat
  <2>1. Open' = Open
    BY DEF Open
  <2>. QED  BY <1>3, <2>1, LoadType DEF Types
<1>8. CASE UNCHANGED events
  <2>. DEFINE a == Total(events[t], EventCost(L))
  <2>1. a \in Nat
    BY <1>1, <1>3, TotalType
  <2>2. Before(t) = a + (k + T) + h
    BY <1>5 DEF Load
  <2>3. After(t) = a + T + h
    BY <1>1, <1>2, <1>8 DEF Load
  <2>4. k >= 1
    <3>1. RequestCost(L)[r] = 1 + Len(L) * 1 \/ RequestCost(L)[r] = 1 + Len(L) * Reaction(L)
      <4>. HIDE DEF r
      <4>. QED  BY <1>4 DEF RequestCost
    <3>2. Len(L) * 1 \in Nat /\ Len(L) * Reaction(L) \in Nat
      <4>1. Reaction(L) \in Nat
        BY <1>3, CostType
      <4>. HIDE DEF L
      <4>. QED  BY <1>3, <4>1
    <3>. DEFINE x == Len(L) * 1  y == Len(L) * Reaction(L)
    <3>. HIDE DEF x, y
    <3>3. (k = 1 + x \/ k = 1 + y) /\ x \in Nat /\ y \in Nat
      BY <3>1, <3>2 DEF x, y
    <3>. HIDE DEF k
    <3>. QED  BY <3>3
  <2>5. \A u \in Open : u # t => After(u) = Before(u)
    BY <1>1, <1>2, <1>8
  <2>. HIDE DEF Before, After, a, k, T, h
  <2>6. \A u \in Open : u # t => After(u) <= Before(u) + 0
    BY <1>7, <2>5
  <2>7. After(t) + 1 <= Before(t) + 0
    BY <1>6, <2>1, <2>2, <2>3, <2>4
  <2>8. Len(L) * 0 < 1
    BY <1>3
  <2>. QED  BY <2>6, <2>7, <2>8, WorkShrinks DEF Before, After, L
<1>9. ASSUME NEW e \in Events, Announce(e), Harmless(r, e) PROVE Work' < Work
  <2>. DEFINE c == EventCost(L)[e]
  <2>1. c \in Nat
    BY <1>3
  <2>2. Len(L) * c < k
    <3>. HIDE DEF r, L
    <3>. QED  BY <1>3, <1>4, <1>9, RequestPays
  <2>3. \A u \in Open : /\ events'[u] = Append(events[u], e)
                        /\ Total(Append(events[u], e), EventCost(L)) = Total(events[u], EventCost(L)) + c
                        /\ Total(events[u], EventCost(L)) \in Nat
    <3>. SUFFICES ASSUME NEW u \in Open
                  PROVE  /\ events'[u] = Append(events[u], e)
                         /\ Total(Append(events[u], e), EventCost(L)) = Total(events[u], EventCost(L)) + c
                         /\ Total(events[u], EventCost(L)) \in Nat
      OBVIOUS
    <3>1. events'[u] = Append(events[u], e)
      BY <1>9 DEF Announce
    <3>2. events[u] \in Seq(Events)
      BY <1>1
    <3>. HIDE DEF L
    <3>. QED  BY <1>3, <3>1, <3>2, TotalAppend, TotalType
  <2>4. \A u \in Open : u # t => After(u) <= Before(u) + c
    <3>. SUFFICES ASSUME NEW u \in Open, u # t PROVE After(u) <= Before(u) + c
      OBVIOUS
    <3>. DEFINE a == Total(events[u], EventCost(L))  b == Total(requests[u], RequestCost(L))
                g == IF pending[u] = None THEN 0 ELSE 1 + RequestCost(L)[pending[u]]
    <3>1. b \in Nat
      BY <1>1, <1>3, TotalType
    <3>2. g \in Nat
      BY <1>3 DEF Types, Updates
    <3>3. Before(u) = a + b + g
      BY DEF Load
    <3>4. Total(events'[u], EventCost(L)) = a + c /\ a \in Nat
      BY <2>3
    <3>5. After(u) = (a + c) + b + g
      BY <1>1, <1>2, <3>4 DEF Load
    <3>. HIDE DEF Before, After, a, b, g, c
    <3>. QED  BY <2>1, <3>1, <3>2, <3>3, <3>4, <3>5
  <2>5. After(t) + k <= Before(t) + c
    <3>. DEFINE a == Total(events[t], EventCost(L))
    <3>1. Before(t) = a + (k + T) + h
      BY <1>5 DEF Load
    <3>2. Total(events'[t], EventCost(L)) = a + c /\ a \in Nat
      BY <2>3
    <3>3. After(t) = (a + c) + T + h
      BY <1>1, <1>2, <3>2 DEF Load
    <3>. HIDE DEF Before, After, a, c, k, T, h
    <3>. QED  BY <1>6, <2>1, <3>1, <3>2, <3>3
  <2>. HIDE DEF k, c
  <2>. QED  BY <1>6, <2>1, <2>2, <2>4, <2>5, WorkShrinks
<1>. QED  BY <1>4, <1>8, <1>9 DEF Answered

LEMMA StepShrinks ==
  Types /\ Types' /\ Located /\ [Next]_vars => [inputs' = inputs => Rivals \/ Work' < Work]_vars
<1>. SUFFICES ASSUME Types, Types', Located, Next, inputs' = inputs, ~Rivals
              PROVE  Work' < Work
  BY DEF vars
<1>1. UNCHANGED located
  BY StepLocated
<1>2. ASSUME Input PROVE FALSE
  BY <1>2 DEF Input, Types
<1>3. CASE Kick \/ SetUserHelpStatus \/ OthersEntry
  BY <1>2, <1>3 DEF Kick, SetUserHelpStatus, OthersEntry
<1>4. ASSUME NEW t \in Open, TabStep(t) PROVE Work' < Work
  <2>1. Debounced(t) \/ Handle(t) \/ Receive(t)
    BY <1>2, <1>4 DEF TabStep, ChangeComment, ChangeLocation, ChangeHelp, EnterQueue, ReceiveHelp,
                      Leave, Press
  <2>. QED  BY <1>1, <2>1, DebouncedShrinks, HandleShrinks, ReceiveShrinks
<1>. QED  BY <1>3, <1>4 DEF Next

\* A debounced call, an update, the event it makes and the correction that a tab may send in
\* answer: each leaves less to do than it found, whatever else is under way in however many
\* tabs, unless two tabs correct each other's location (sendPersonalEntry, the effects of
\* LoggedInUserView and EnterLocation, and the handlers' broadcasts).
THEOREM ExchangeShrinksCorrect == Spec => ExchangeShrinks
<1>1. Init => Types /\ Located
  BY InitType DEF Init, Located
<1>2. Types /\ Located /\ [Next]_vars => (Types /\ Located)'
  BY StepType, StepLocated DEF Located
<1>. QED  BY <1>1, <1>2, StepShrinks, PTL DEF Spec, ExchangeShrinks
=============================================================================
