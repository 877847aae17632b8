----------------------------- MODULE PersonalEntry ----------------------------
(***************************************************************************)
(* The form of a queue's page (EnterQueue and its parts) in the tabs of    *)
(* one user, with the user's entry on the server.                          *)
(*                                                                         *)
(* What a queued user types is sent when typing pauses (a debounce of      *)
(* 750 ms), every event about an entry of the queue overwrites the form,   *)
(* and a tab on a computer whose place is known corrects the entry's       *)
(* location by itself.  Connections keep their order and are not lost      *)
(* here: ClientSocket and LiveView have those failures.  A tab stays on    *)
(* the page.  The columns gettinghelp and badlocation are left out, and so *)
(* is doubleClickProtection: here users may press as fast as they like.    *)
(***************************************************************************)
EXTENDS Naturals, Sequences

CONSTANTS
  Comments, Places,
  Empty,         \* the empty text
  None,
  MaxTabs,       \* bound: open tabs of the user
  MaxInputs,     \* bound: what users, assistants and others do, divided by the tabs
  MaxUnderway    \* bound: requests, and events, of a connection whose tab has a rival

ASSUME PersonalEntryAssumption ==
  /\ Empty \notin Comments \cup Places
  /\ MaxTabs \in Nat /\ MaxInputs \in Nat /\ MaxUnderway \in Nat

VARIABLES
  located,     \* user.location in each open tab, Empty when its address is of no known room
  entry,       \* the user's row in queue_entries
  shown,       \* personalQueueEntry
  form,        \* the fields of the form
  pending,     \* the call that the debounce holds back
  requests, events,
  inputs

vars == <<located, entry, shown, form, pending, requests, events, inputs>>

Open == DOMAIN located

\* Two tabs whose addresses belong to different rooms.
Rivals == \E t, u \in Open : located[t] # Empty /\ located[u] # Empty /\ located[t] # located[u]

Fields == [comment : Comments \cup {Empty}, location : Places \cup {Empty}, help : BOOLEAN]

\* The rows the server stores; since is starttime.  The row of an early join is one that
\* the user asked for while an earlier join was not answered yet.
Rows == [comment : Comments, location : Places, help : BOOLEAN, since : Nat, early : BOOLEAN]

Complete(f) == f.comment # Empty /\ f.location # Empty

FieldsOf(r) == [comment |-> r.comment, location |-> r.location, help |-> r.help]

Row(f, since, early) ==
  [comment |-> f.comment, location |-> f.location, help |-> f.help, since |-> since,
   early |-> early]

\* A request about the entry; since tells which stay in the queue it was meant for, and
\* of a join whether it is early.
Request(path, f, since) == [path |-> path, fields |-> f, since |-> since]

\* The absence of a call is not a call.
ASSUME NoneAssumption == None \notin [path : {"updateQueueEntry"}, fields : Fields, since : Nat]

NoFields == [comment |-> Empty, location |-> Empty, help |-> TRUE]

-----------------------------------------------------------------------------
(* The effects that run when the entry or the user changes.                *)

\* Mutant: help is not read from the entry, as in the other effect
FormOfHelp(place, r) ==
  IF r = None THEN [NoFields EXCEPT !.location = place]
  ELSE [comment |-> r.comment, help |-> TRUE,
        location |-> IF place # Empty THEN place ELSE r.location]

FormOf(place, r) ==
  IF r = None THEN [NoFields EXCEPT !.location = place]
  ELSE [comment |-> r.comment, help |-> r.help,
        location |-> IF place # Empty THEN place ELSE r.location]

\* Mutant: the locations are not compared
CorrectionsAlways(place, r) ==
  IF place # Empty /\ r # None
  THEN <<Request("updateQueueEntry", FormOf(place, r), r.since)>> ELSE <<>>

\* The form corrects the location, and so does the component around it, which takes a
\* present entry for a help entry (personalQueueEntry?.help || true).
Corrections(place, r) ==
  IF place # Empty /\ r # None /\ r.location # place
  THEN <<Request("updateQueueEntry", FormOf(place, r), r.since),
         Request("updateQueueEntry", [FormOf(place, r) EXCEPT !.help = TRUE], r.since)>>
  ELSE <<>>

-----------------------------------------------------------------------------
TypeOK ==
  /\ located \in UNION {[1 .. n -> Places \cup {Empty}] : n \in 1 .. MaxTabs}
  /\ entry \in Rows \cup {None} /\ shown \in [Open -> Rows \cup {None}]
  /\ form \in [Open -> Fields]
  /\ \A t \in Open : pending[t] = None \/ Complete(pending[t].fields)
  /\ \A t \in Open : \A i \in DOMAIN requests[t] :
       requests[t][i].path \in {"joinQueue", "updateQueueEntry"} => Complete(requests[t][i].fields)

Init ==
  /\ located \in UNION {[1 .. n -> Places \cup {Empty}] : n \in 1 .. MaxTabs}
  /\ entry \in {None} \cup {Row(f, 0, FALSE) : f \in {g \in Fields : Complete(g)}}
  /\ shown = [t \in Open |-> entry]
  /\ form = [t \in Open |-> FormOf(located[t], entry)]
  /\ pending = [t \in Open |-> None]
  /\ requests = [t \in Open |-> Corrections(located[t], entry)]
  /\ events = [t \in Open |-> <<>>]
  /\ inputs = 0

\* Somebody does something.
Input == inputs < MaxInputs \div Len(located) /\ inputs' = inputs + 1

Send(t, r) == requests' = [requests EXCEPT ![t] = Append(@, r)]

-----------------------------------------------------------------------------
(* The user.                                                               *)

\* Mutant: an incomplete form leaves the held back call alone
SendLaterKeeps(t, f) ==
  pending' = [pending EXCEPT ![t] =
    IF shown[t] # None /\ Complete(f) THEN Request("updateQueueEntry", f, shown[t].since) ELSE @]

\* sendPersonalEntry: the latest call replaces the one held back, an incomplete form or
\* a user who is not queued cancels it.
SendLater(t, f) ==
  pending' = [pending EXCEPT ![t] =
    IF shown[t] # None /\ Complete(f) THEN Request("updateQueueEntry", f, shown[t].since) ELSE None]

ChangeComment(t, c) ==
  /\ Input /\ c # form[t].comment
  /\ form' = [form EXCEPT ![t].comment = c]
  /\ SendLater(t, form'[t])
  /\ UNCHANGED <<located, entry, shown, requests, events>>

ChangeLocation(t, p) ==
  /\ Input /\ p # form[t].location
  /\ located[t] = Empty
  /\ form' = [form EXCEPT ![t].location = p]
  /\ SendLater(t, form'[t])
  /\ UNCHANGED <<located, entry, shown, requests, events>>

\* Help or present: offered to those who are not queued
ChangeHelp(t) ==
  /\ Input /\ shown[t] = None
  /\ form' = [form EXCEPT ![t].help = ~@]
  /\ UNCHANGED <<located, entry, shown, pending, requests, events>>

\* A join of this tab is on its way, or the event of one.
Joining(t) ==
  \/ \E i \in DOMAIN requests[t] : requests[t][i].path = "joinQueue"
  \/ \E i \in DOMAIN events[t] : events[t][i].path = "joinQueue"

\* Mutant: the form may be incomplete
EnterQueueEmpty(t) ==
  /\ Input /\ shown[t] = None
  /\ Send(t, Request("joinQueue", form[t], Joining(t)))
  /\ UNCHANGED <<located, entry, shown, form, pending, events>>

\* By the button or by the key Enter
EnterQueue(t) ==
  /\ Input /\ shown[t] = None /\ Complete(form[t])
  /\ Send(t, Request("joinQueue", form[t], Joining(t)))
  /\ UNCHANGED <<located, entry, shown, form, pending, events>>

Press(t, path) ==
  /\ Input /\ shown[t] # None
  /\ Send(t, Request(path, NoFields, None))
  /\ UNCHANGED <<located, entry, shown, form, pending, events>>

ReceiveHelp(t) == Press(t, "setHelpStatus")

Leave(t) == Press(t, "leaveQueue")

\* The debounce fires.
Debounced(t) ==
  /\ pending[t] # None
  /\ pending' = [pending EXCEPT ![t] = None]
  /\ Send(t, pending[t])
  /\ UNCHANGED <<located, entry, shown, form, events, inputs>>

-----------------------------------------------------------------------------
(* The server.                                                             *)

Event(path, r) == [path |-> path, row |-> r]

Announce(e) == events' = [t \in Open |-> Append(events[t], e)]

\* A handler that finds no entry, or a second one, fails without an announcement.
Fail == UNCHANGED <<entry, events>>

\* The stay that begins with this entry; inputs stands for the time.
JoinQueue(r) ==
  \/ entry = None /\ entry' = Row(r.fields, inputs, r.since) /\ Announce(Event("joinQueue", entry'))
  \/ Fail   \* the queue is locked, or the user is in it

Change(e) == entry' = e /\ Announce(Event("updateQueueEntry", e))

UpdateQueueEntry(r) ==
  IF entry = None THEN Fail
  ELSE Change([entry EXCEPT !.comment = r.fields.comment, !.location = r.fields.location,
                            !.help = r.fields.help])

\* Of the handlers that set another column
SetHelpStatus == IF entry = None THEN Fail ELSE Change(entry)

LeaveQueue ==
  IF entry = None THEN Fail ELSE entry' = None /\ Announce(Event("leaveQueue", None))

Handle(t) ==
  /\ requests[t] # <<>> /\ (Rivals => \A u \in Open : Len(events[u]) < MaxUnderway)
  /\ LET r == Head(requests[t])
     IN \/ r.path = "joinQueue" /\ JoinQueue(r)
        \/ r.path = "updateQueueEntry" /\ UpdateQueueEntry(r)
        \/ r.path = "setHelpStatus" /\ SetHelpStatus
        \/ r.path = "leaveQueue" /\ LeaveQueue
  /\ requests' = [requests EXCEPT ![t] = Tail(@)]
  /\ UNCHANGED <<located, shown, form, pending, inputs>>

\* What assistants ask for, and the entries of others.  (A removal at night, of which no
\* tab hears, is in LiveView.)
Kick == Input /\ LeaveQueue /\ UNCHANGED <<located, shown, form, pending, requests>>

SetUserHelpStatus ==
  Input /\ SetHelpStatus /\ UNCHANGED <<located, shown, form, pending, requests>>

OthersEntry ==
  /\ Input /\ Announce(Event("others", None))
  /\ UNCHANGED <<located, entry, shown, form, pending, requests>>

-----------------------------------------------------------------------------
(* The tab: the store, then the effects.                                   *)

\* Entries are looked up by user: an event about one that is not there is ignored.
Reduce(r, e) ==
  CASE e.path = "joinQueue" -> IF r = None THEN e.row ELSE r
    [] e.path = "updateQueueEntry" -> IF r = None THEN r ELSE e.row
    [] e.path = "leaveQueue" -> None
    [] e.path = "others" -> r

\* Mutant: an event about others does not reach the form
ReceiveOwn(t) ==
  /\ events[t] # <<>> /\ (Rivals => Len(requests[t]) < MaxUnderway)
  /\ events' = [events EXCEPT ![t] = Tail(@)]
  /\ shown' = [shown EXCEPT ![t] = Reduce(@, Head(events[t]))]
  /\ IF shown[t] = None
     THEN /\ form' = [form EXCEPT ![t] = FormOf(located[t], shown'[t])]
          /\ requests' = [requests EXCEPT ![t] = @ \o Corrections(located[t], shown'[t])]
     ELSE UNCHANGED <<form, requests>>
  /\ UNCHANGED <<located, entry, pending, inputs>>

\* Every event copies all entries, so that a queued user's effects run at each; null stays null.
Receive(t) ==
  /\ events[t] # <<>> /\ (Rivals => Len(requests[t]) < MaxUnderway)
  /\ events' = [events EXCEPT ![t] = Tail(@)]
  /\ shown' = [shown EXCEPT ![t] = Reduce(@, Head(events[t]))]
  /\ IF shown[t] = None /\ shown'[t] = None
     THEN UNCHANGED <<form, requests>>
     ELSE /\ form' = [form EXCEPT ![t] = FormOf(located[t], shown'[t])]
          /\ requests' = [requests EXCEPT ![t] = @ \o Corrections(located[t], shown'[t])]
  /\ UNCHANGED <<located, entry, pending, inputs>>

-----------------------------------------------------------------------------
TabStep(t) ==
  \/ \E c \in Comments \cup {Empty} : ChangeComment(t, c)
  \/ \E p \in Places \cup {Empty} : ChangeLocation(t, p)
  \/ ChangeHelp(t) \/ EnterQueue(t) \/ ReceiveHelp(t) \/ Leave(t)
  \/ Debounced(t) \/ Receive(t) \/ Handle(t)

Next ==
  \/ \E t \in Open : TabStep(t)
  \/ Kick \/ SetUserHelpStatus \/ OthersEntry

Spec == Init /\ [][Next]_vars

\* While something is held back or under way, some timer fires, some request is handled
\* or some event arrives.
Fairness == WF_vars(\E t \in Open : Debounced(t) \/ Handle(t) \/ Receive(t))

FairSpec == Spec /\ Fairness

-----------------------------------------------------------------------------
(* Properties.                                                             *)

Quiet == \A t \in Open : pending[t] = None /\ requests[t] = <<>> /\ events[t] = <<>>

\* Once nothing is held back or under way, a queued user's form says what the others see:
\* no typed text was overwritten on the screen and sent, or kept and never sent.  (A form
\* with an empty field is not sent: LoggedInUserView 34-47, EnterComment, EnterLocation.)
FormAgrees ==
  Quiet /\ entry # None =>
    \A t \in Open : Complete(form[t]) => form[t] = FieldsOf(entry)

\* A text typed during one stay in the queue never lands in the entry of the next one,
\* although it is sent 750 ms later: as long as the user has one tab.  An early join may
\* find the user kicked from the stay of the join before, and then what was typed in that
\* stay is behind it.  (The key Enter asks to join at every press, EnterComment 32-44; the
\* button waits 750 ms, LoggedInUserView 61-66.)
UpdatesMeetTheirStay ==
  \A t \in Open :
    Open = {t} /\ entry # None /\ ~entry.early /\ requests[t] # <<>> /\ Head(requests[t]).path = "updateQueueEntry"
      => Head(requests[t]).since = entry.since

\* What somebody queues for, help or presenting, does not change while they are queued,
\* unless a computer's place is known (Corrections), a second tab is open, or the join
\* was an early one.
HelpKept ==
  [][\A t \in Open : Open = {t} /\ located[t] = Empty /\ entry # None /\ entry' # None /\ ~entry.early
       => entry'.help = entry.help]_vars

\* w[1] + ... + w[n]
Sum(w, n) == LET s[k \in 0 .. n] == IF k = 0 THEN 0 ELSE s[k - 1] + w[k] IN s[n]

\* No tab corrects this location.
Accepted(place) == \A t \in Open : located[t] \in {Empty, place}

\* What is yet to happen because of an event, at most: the tab sends two corrections,
\* each of which is an event to all tabs, which accept it.
EventWork(e) ==
  IF e.path = "updateQueueEntry" /\ Accepted(e.row.location)
  THEN 1 ELSE 1 + 2 * (1 + Len(located))

RequestWork(r) ==
  1 + Len(located) * IF r.path = "updateQueueEntry" /\ Accepted(r.fields.location)
                     THEN 1 ELSE 1 + 2 * (1 + Len(located))

TabWork(t) ==
  Sum([i \in DOMAIN events[t] |-> EventWork(events[t][i])], Len(events[t]))
  + Sum([i \in DOMAIN requests[t] |-> RequestWork(requests[t][i])], Len(requests[t]))
  + IF pending[t] = None THEN 0 ELSE 1 + RequestWork(pending[t])

Work == Sum([t \in Open |-> TabWork(t)], Len(located))

\* Events make tabs send updates, which make events.  Each step of this exchange leaves
\* less to do, whatever is under way in how many tabs, unless two tabs correct each other.
ExchangeShrinks == [][inputs' = inputs => Rivals \/ Work' < Work]_vars

\* So it ends, unless two tabs correct each other's location for ever.
Settles == <>[](Quiet \/ Rivals)
=============================================================================
