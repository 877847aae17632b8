---------------------------- MODULE DialogsProofs -----------------------------
(***************************************************************************)
(* Proofs about Dialogs: for any set of queues, and lists of any length.   *)
(***************************************************************************)
EXTENDS Dialogs, SequenceTheorems, TLAPS

\* What may stand in the list
Listed == Modals \cup {Hidden(d) : d \in Modals}

\* The dialogs waiting to be shown have no button that their reader may not use
WaitingAllowed ==
  \A i \in DOMAIN waiting : \A c \in waiting[i].commands :
    Allows(user, Path(c), waiting[i].queue)

-----------------------------------------------------------------------------
(* The dialogs, and where they come from.                                  *)

LEMMA ModalShape ==
  \A d \in Modals : d = [type |-> d.type, queue |-> d.queue, commands |-> d.commands,
                         isVisible |-> TRUE]
<1>. DEFINE Shape(d) == d = [type |-> d.type, queue |-> d.queue, commands |-> d.commands,
                             isVisible |-> TRUE]
<1>1. \A t, q, c : Shape(Dialog(t, q, c))
  BY DEF Dialog
<1>. HIDE DEF Shape
<1>2. ASSUME NEW q PROVE \A d \in QueueModals(q) : Shape(d)
  BY <1>1 DEF QueueModals, SendMessageModal, SendBadLocationModal, BroadcastModal,
     BroadcastFacultyModal, SetMotdModal, SetQueueInformationModal, PurgeQueueModal,
     HideQueueModal, ShowQueueModal, DeleteQueueModal, RenameQueueModal
<1>3. \A d \in OtherModals : Shape(d)
  BY <1>1 DEF OtherModals, ServerMessageModal, AddBannerModal, UpdateBannerModal,
     ShowMessageModal, ShowMotdModal
<1>4. \A d \in Modals : Shape(d)
  BY <1>2, <1>3 DEF Modals
<1>. QED  BY <1>4 DEF Shape

LEMMA HiddenShape == ASSUME NEW d \in Modals PROVE Hidden(d).isVisible = FALSE
  BY ModalShape DEF Hidden

LEMMA ListedVisible ==
  \A d \in Listed : d.isVisible \in BOOLEAN /\ (d.isVisible => d \in Modals)
<1>1. \A d \in Modals : d.isVisible = TRUE
  BY ModalShape
<1>. QED  BY <1>1, HiddenShape DEF Listed

LEMMA OfferedAreModals ==
  ASSUME page \in {Home, Administration} \cup Queues, user \in Rights
  PROVE  OfferedModals \subseteq Modals
<1>1. Selectable \subseteq Queues
  BY DEF Selectable, Rights
<1>2. \A q \in Queues : RowModals(q) \cup MenuModals(q) \cup OptionModals(q) \subseteq Modals
  <2>. SUFFICES ASSUME NEW q \in Queues
               PROVE  RowModals(q) \cup MenuModals(q) \cup OptionModals(q) \subseteq Modals
    OBVIOUS
  <2>1. QueueModals(q) \subseteq Modals
    BY DEF Modals
  <2>2. RowModals(q) \cup MenuModals(q) \cup OptionModals(q) \subseteq QueueModals(q)
    BY DEF RowModals, MenuModals, OptionModals, QueueModals
  <2>. QED  BY <2>1, <2>2
<1>3. InformationModals \cup BannerList \subseteq Modals
  BY DEF InformationModals, BannerList, Modals, OtherModals
<1>4. CASE page \in Queues
  BY <1>2, <1>4 DEF OfferedModals
<1>5. CASE page = Administration
  <2>1. OfferedModals \subseteq (UNION {OptionModals(q) : q \in Selectable})
                               \cup (InformationModals \cup BannerList)
    BY <1>5, DialogsAssumption DEF OfferedModals
  <2>2. UNION {OptionModals(q) : q \in Selectable} \subseteq Modals
    BY <1>1, <1>2
  <2>. QED  BY <1>3, <2>1, <2>2
<1>6. CASE page = Home
  BY <1>6, DialogsAssumption DEF OfferedModals
<1>7. page = Home \/ page = Administration \/ page \in Queues
  OBVIOUS
<1>. QED  BY <1>4, <1>5, <1>6, <1>7

\* What a step does to the list
LEMMA ListSteps ==
  ASSUME page \in {Home, Administration} \cup Queues, user \in Rights, [Next]_vars
  PROVE  \/ \E d \in Modals : Open(d) /\ (d.commands = {} \/ d \in OfferedModals)
         \/ waiting # <<>> /\ Hide
         \/ RemoveModal
         \/ /\ UNCHANGED <<modalList, current, timers>>
            /\ gone' = gone \/ (gone < current /\ gone' = gone + 1)
<1>1. CASE OnMessageReceived \/ ShowMotd
  <2>1. {ShowMessageModal, ShowMotdModal} \subseteq Modals
    BY DEF Modals, OtherModals
  <2>2. ShowMessageModal.commands = {} /\ ShowMotdModal.commands = {}
    BY DEF ShowMessageModal, ShowMotdModal, Dialog
  <2>. QED  BY <1>1, <2>1, <2>2 DEF OnMessageReceived, ShowMotd
<1>2. CASE OpenFromPage
  BY <1>2, OfferedAreModals DEF OpenFromPage
<1>3. CASE CloseModal \/ Confirm
  BY <1>3 DEF CloseModal, Confirm
<1>4. CASE ConfirmAgain \/ FadeEnds
  BY <1>4 DEF ConfirmAgain, FadeEnds, dialogs
<1>5. ASSUME NEW p \in {Home, Administration} \cup Queues, GoTo(p)
      PROVE  UNCHANGED dialogs
  BY <1>5 DEF GoTo, dialogs
<1>6. CASE CommandFromPage \/ Revoke \/ OnBannerAdded \/ BannersLoaded
  BY <1>6 DEF CommandFromPage, Revoke, OnBannerAdded, BannersLoaded, dialogs
<1>7. CASE UNCHANGED vars
  BY <1>7 DEF vars, dialogs
<1>. QED  BY <1>1, <1>2, <1>3, <1>4, <1>5, <1>6, <1>7 DEF Next, dialogs

-----------------------------------------------------------------------------
(* The list.                                                               *)

\* The part of TypeOK about the list
ListType ==
  modalList \in Seq(Listed) /\ current \in 0 .. Len(modalList) /\ gone \in 0 .. current /\ timers \in Nat

PlaceType == page \in {Home, Administration} \cup Queues /\ user \in Rights

LEMMA TypeParts == TypeOK => ListType /\ PlaceType
  BY DEF TypeOK, ListType, PlaceType, Listed

LEMMA SomethingWaits == ASSUME ListType, waiting # <<>> PROVE current < Len(modalList)
  BY SubSeqEmpty DEF ListType, waiting

LEMMA OpenList ==
  ASSUME ListType, VisibleFromCurrent, NEW d \in Modals, Open(d)
  PROVE  ListType' /\ VisibleFromCurrent'
<1>1. d \in Listed /\ d.isVisible = TRUE
  BY ModalShape DEF Listed
<1>2. /\ modalList' \in Seq(Listed) /\ Len(modalList') = Len(modalList) + 1
      /\ \A i \in 1 .. Len(modalList) : modalList'[i] = modalList[i]
      /\ modalList'[Len(modalList) + 1] = d
  BY <1>1, AppendProperties DEF Open, ListType
<1>3. ListType'
  BY <1>2 DEF Open, ListType
<1>4. VisibleFromCurrent'
  <2>. SUFFICES ASSUME NEW i \in 1 .. Len(modalList) + 1
                PROVE  modalList'[i].isVisible <=> i > current'
    BY <1>2, <1>3 DEF VisibleFromCurrent, ListType
  <2>1. CASE i \in 1 .. Len(modalList)
    BY <1>2, <2>1 DEF Open, ListType, VisibleFromCurrent
  <2>2. CASE i = Len(modalList) + 1
    BY <1>1, <1>2, <2>2 DEF Open, ListType
  <2>. QED  BY <2>1, <2>2 DEF ListType
<1>. QED  BY <1>3, <1>4

\* What hiding does, position by position
LEMMA HideShape ==
  ASSUME ListType, VisibleFromCurrent, waiting # <<>>, Hide
  PROVE  /\ current < Len(modalList) /\ current' = current + 1
         /\ modalList' \in Seq(Listed) /\ Len(modalList') = Len(modalList)
         /\ modalList'[current + 1].isVisible = FALSE
         /\ \A i \in 1 .. Len(modalList) : i # current + 1 => modalList'[i] = modalList[i]
<1>1. current < Len(modalList)
  BY SomethingWaits
<1>. DEFINE d == modalList[current + 1]
<1>2. d \in Modals
  <2>1. current + 1 \in 1 .. Len(modalList)
    BY <1>1 DEF ListType
  <2>2. d \in Listed /\ d.isVisible
    BY <2>1, ElementOfSeq DEF ListType, VisibleFromCurrent
  <2>. QED  BY <2>2, ListedVisible
<1>3. Hidden(d) \in Listed /\ Hidden(d).isVisible = FALSE
  BY <1>2, HiddenShape DEF Listed
<1>4. modalList' = [modalList EXCEPT ![current + 1] = Hidden(d)]
  BY DEF Hide
<1>. HIDE DEF d
<1>. QED  BY <1>1, <1>3, <1>4, ExceptSeq DEF Hide, ListType

LEMMA HideList ==
  ASSUME ListType, VisibleFromCurrent, waiting # <<>>, Hide
  PROVE  ListType' /\ VisibleFromCurrent'
<1>0. /\ current < Len(modalList) /\ current' = current + 1
      /\ modalList' \in Seq(Listed) /\ Len(modalList') = Len(modalList)
      /\ modalList'[current + 1].isVisible = FALSE
      /\ \A i \in 1 .. Len(modalList) : i # current + 1 => modalList'[i] = modalList[i]
  BY HideShape
<1>1. ListType'
  BY <1>0 DEF ListType, Hide
<1>2. VisibleFromCurrent'
  <2>. SUFFICES ASSUME NEW i \in 1 .. Len(modalList)
                PROVE  modalList'[i].isVisible <=> i > current'
    BY <1>0 DEF ListType, VisibleFromCurrent
  <2>1. CASE i = current + 1
    BY <1>0, <2>1 DEF ListType
  <2>2. CASE i # current + 1
    BY <1>0, <2>2 DEF ListType, VisibleFromCurrent
  <2>. QED  BY <2>1, <2>2
<1>. QED  BY <1>1, <1>2

LEMMA RemoveList ==
  ASSUME ListType, VisibleFromCurrent, RemoveModal
  PROVE  ListType' /\ VisibleFromCurrent'
<1>1. timers' \in Nat
  BY DEF RemoveModal, ListType
<1>2. CASE \E i \in DOMAIN modalList : modalList[i].isVisible
  BY <1>1, <1>2 DEF RemoveModal, ListType, VisibleFromCurrent
<1>3. CASE ~\E i \in DOMAIN modalList : modalList[i].isVisible
  <2>1. modalList' = <<>> /\ current' = 0 /\ gone' = 0
    BY <1>3 DEF RemoveModal
  <2>2. modalList' \in Seq(Listed) /\ Len(modalList') = 0
    BY <2>1, EmptySeq
  <2>. QED  BY <1>1, <2>1, <2>2 DEF ListType, VisibleFromCurrent
<1>. QED  BY <1>2, <1>3

LEMMA InitList == Init => ListType /\ VisibleFromCurrent
<1>1. Init => modalList = <<>> /\ current = 0 /\ gone = 0 /\ timers = 0
  BY DEF Init
<1>2. <<>> \in Seq(Listed) /\ Len(<<>>) = 0 /\ DOMAIN <<>> = {}
  BY EmptySeq, LenProperties
<1>. QED  BY <1>1, <1>2 DEF ListType, VisibleFromCurrent

LEMMA NextList ==
  ASSUME ListType, PlaceType, VisibleFromCurrent, [Next]_vars
  PROVE  ListType' /\ VisibleFromCurrent'
<1>1. ASSUME NEW d \in Modals, Open(d) PROVE ListType' /\ VisibleFromCurrent'
  BY <1>1, OpenList
<1>2. CASE waiting # <<>> /\ Hide
  BY <1>2, HideList
<1>3. CASE RemoveModal
  BY <1>3, RemoveList
<1>4. CASE /\ UNCHANGED <<modalList, current, timers>>
           /\ gone' = gone \/ (gone < current /\ gone' = gone + 1)
  BY <1>4 DEF ListType, VisibleFromCurrent
<1>. QED  BY <1>1, <1>2, <1>3, <1>4, ListSteps DEF PlaceType

-----------------------------------------------------------------------------
(* Type correctness, of the rest of the state.                             *)

RestType ==
  /\ PlaceType /\ hasShownMotd \in BOOLEAN
  /\ banner \in {"none", "stored", "dropped"} /\ loading \in BOOLEAN
  /\ rights \in Rights

LEMMA TypeOfParts == TypeOK <=> ListType /\ RestType
  BY DEF TypeOK, ListType, RestType, PlaceType, Listed

LEMMA LosingType == \A r \in Rights : Demoted(r) \in Rights /\ \A q : Without(r, q) \in Rights
  BY DEF Rights, Without, Demoted

LEMMA HandleType ==
  ASSUME user \in Rights, rights \in Rights, NEW c, NEW q, Handle(c, q)
  PROVE  user' = user /\ rights' \in Rights
  BY LosingType DEF Handle

LEMMA NextRest == ASSUME RestType, [Next]_vars PROVE RestType'
<1>1. CASE RemoveModal \/ CloseModal \/ FadeEnds \/ OnMessageReceived \/ OpenFromPage
  BY <1>1 DEF RemoveModal, CloseModal, FadeEnds, OnMessageReceived, OpenFromPage, place, banners,
     authority, RestType, PlaceType
<1>2. CASE Confirm \/ ConfirmAgain \/ CommandFromPage
  BY <1>2, HandleType DEF Confirm, ConfirmAgain, CommandFromPage, place, banners, RestType, PlaceType
<1>3. CASE ShowMotd
  BY <1>3 DEF ShowMotd, banners, authority, RestType, PlaceType
<1>4. ASSUME NEW p \in {Home, Administration} \cup Queues, GoTo(p) PROVE RestType'
  BY <1>4 DEF GoTo, banners, authority, RestType, PlaceType
<1>5. CASE Revoke
  BY <1>5, LosingType DEF Revoke, place, banners, RestType, PlaceType
<1>6. CASE OnBannerAdded
  BY <1>6 DEF OnBannerAdded, place, authority, RestType, PlaceType
<1>7. CASE BannersLoaded
  BY <1>7 DEF BannersLoaded, place, authority, RestType, PlaceType
<1>8. CASE UNCHANGED vars
  BY <1>8 DEF vars, place, banners, authority, RestType, PlaceType
<1>. QED  BY <1>1, <1>2, <1>3, <1>4, <1>5, <1>6, <1>7, <1>8 DEF Next

LEMMA InitRest == Init => RestType
  BY DEF Init, RestType, PlaceType

\* What is proved of every reachable state
Inv == ListType /\ RestType /\ VisibleFromCurrent

LEMMA Invariance == Spec => []Inv
<1>1. Init => Inv
  BY InitList, InitRest DEF Inv
<1>2. Inv /\ [Next]_vars => Inv'
  BY NextList, NextRest DEF Inv, RestType
<1>. QED  BY <1>1, <1>2, PTL DEF Spec

\* Whatever order dialogs are opened, closed and faded in, the list and the two positions in
\* it have their types, and so do the rights: the reducer never indexes past the list.
THEOREM TypeCorrect == Spec => []TypeOK
<1>1. Inv => TypeOK
  BY TypeOfParts DEF Inv
<1>. QED  BY <1>1, Invariance, PTL

\* The two records of which dialog is shown, current and the flags isVisible, agree.
THEOREM VisibleFromCurrentCorrect == Spec => []VisibleFromCurrent
<1>1. Inv => VisibleFromCurrent
  BY DEF Inv
<1>. QED  BY <1>1, Invariance, PTL

-----------------------------------------------------------------------------
(* The line of DialogQueue.                                                *)

\* The end of a sequence, position by position
LEMMA SuffixShape ==
  ASSUME NEW S, NEW l \in Seq(S), NEW c \in 0 .. Len(l)
  PROVE  LET w == SubSeq(l, c + 1, Len(l))
         IN  /\ w \in Seq(S) /\ Len(w) = Len(l) - c
             /\ \A i \in 1 .. Len(l) - c : w[i] = l[c + i]
<1>. DEFINE w == SubSeq(l, c + 1, Len(l))
<1>1. c + 1 \in Int /\ Len(l) \in Int /\ \A i \in c + 1 .. Len(l) : l[i] \in S
  BY ElementOfSeq
<1>2. /\ w \in Seq(S)
      /\ Len(w) = IF c + 1 <= Len(l) THEN Len(l) - (c + 1) + 1 ELSE 0
      /\ \A i \in 1 .. Len(l) - (c + 1) + 1 : w[i] = l[c + 1 + i - 1]
  BY <1>1, SubSeqProperties
<1>. HIDE DEF w
<1>3. Len(w) = Len(l) - c
  BY <1>2
<1>4. \A i \in 1 .. Len(l) - c : w[i] = l[c + i]
  BY <1>2
<1>5. w \in Seq(S) /\ Len(w) = Len(l) - c /\ \A i \in 1 .. Len(l) - c : w[i] = l[c + i]
  BY <1>2, <1>3, <1>4
<1>. QED  BY <1>5 DEF w

LEMMA SuffixOfAppend ==
  ASSUME NEW S, NEW l \in Seq(S), NEW c \in 0 .. Len(l), NEW d \in S
  PROVE  SubSeq(Append(l, d), c + 1, Len(Append(l, d))) = Append(SubSeq(l, c + 1, Len(l)), d)
<1>. DEFINE m == Append(l, d)  w == SubSeq(l, c + 1, Len(l))  v == SubSeq(m, c + 1, Len(m))
<1>1. /\ m \in Seq(S) /\ Len(m) = Len(l) + 1 /\ m[Len(l) + 1] = d
      /\ \A i \in 1 .. Len(l) : m[i] = l[i]
  BY AppendProperties
<1>2. w \in Seq(S) /\ Len(w) = Len(l) - c /\ \A i \in 1 .. Len(l) - c : w[i] = l[c + i]
  BY SuffixShape
<1>. HIDE DEF m, w
<1>3. v \in Seq(S) /\ Len(v) = Len(m) - c /\ \A i \in 1 .. Len(m) - c : v[i] = m[c + i]
  BY <1>1, SuffixShape
<1>. HIDE DEF v
<1>4. /\ Append(w, d) \in Seq(S) /\ Len(Append(w, d)) = Len(w) + 1
      /\ Append(w, d)[Len(w) + 1] = d /\ \A i \in 1 .. Len(w) : Append(w, d)[i] = w[i]
  BY <1>2, AppendProperties
<1>5. ASSUME NEW i \in 1 .. Len(v) PROVE v[i] = Append(w, d)[i]
  <2>0. /\ Len(l) \in Nat /\ c \in Nat /\ Len(m) = Len(l) + 1
        /\ Len(w) = Len(l) - c /\ Len(v) = Len(l) + 1 - c
    BY <1>1, <1>2, <1>3
  <2>1. CASE i \in 1 .. Len(w)
    <3>1. i \in 1 .. Len(m) - c /\ i \in 1 .. Len(l) - c /\ c + i \in 1 .. Len(l)
      BY <2>0, <2>1
    <3>2. v[i] = m[c + i] /\ m[c + i] = l[c + i]
      BY <1>1, <1>3, <3>1
    <3>3. w[i] = l[c + i] /\ Append(w, d)[i] = w[i]
      BY <1>2, <1>4, <2>1, <3>1
    <3>. QED  BY <3>2, <3>3
  <2>2. CASE i = Len(w) + 1
    <3>1. i \in 1 .. Len(m) - c /\ c + i = Len(l) + 1
      BY <2>0, <2>2
    <3>2. v[i] = m[c + i] /\ m[c + i] = d
      BY <1>1, <1>3, <3>1
    <3>. QED  BY <1>4, <2>2, <3>2
  <2>. QED  BY <2>0, <2>1, <2>2
<1>6. Len(v) = Len(Append(w, d))
  BY <1>1, <1>2, <1>3, <1>4
<1>7. v = Append(w, d)
  BY <1>3, <1>4, <1>5, <1>6, SeqEqual
<1>. QED  BY <1>7 DEF m, w, v

LEMMA OpenLine ==
  ASSUME ListType, NEW d \in Modals, Open(d)
  PROVE  waiting' = Append(waiting, d)
<1>1. d \in Listed /\ modalList' = Append(modalList, d) /\ current' = current
  BY DEF Listed, Open
<1>. QED  BY <1>1, SuffixOfAppend DEF waiting, ListType

LEMMA HideLine ==
  ASSUME ListType, VisibleFromCurrent, waiting # <<>>, Hide
  PROVE  waiting' = Tail(waiting)
<1>1. /\ current < Len(modalList) /\ current' = current + 1
      /\ modalList' \in Seq(Listed) /\ Len(modalList') = Len(modalList)
      /\ \A i \in 1 .. Len(modalList) : i # current + 1 => modalList'[i] = modalList[i]
  BY HideShape
<1>2. /\ waiting \in Seq(Listed) /\ Len(waiting) = Len(modalList) - current
      /\ \A i \in 1 .. Len(modalList) - current : waiting[i] = modalList[current + i]
  BY SuffixShape DEF waiting, ListType
<1>3. current' \in 0 .. Len(modalList')
  BY <1>1 DEF ListType
<1>4. /\ waiting' \in Seq(Listed) /\ Len(waiting') = Len(modalList) - (current + 1)
      /\ \A i \in 1 .. Len(modalList) - (current + 1) : waiting'[i] = modalList'[current + 1 + i]
  BY <1>1, <1>3, SuffixShape DEF waiting
<1>5. /\ Tail(waiting) \in Seq(Listed) /\ Len(Tail(waiting)) = Len(waiting) - 1
      /\ \A i \in 1 .. Len(waiting) - 1 : Tail(waiting)[i] = waiting[i + 1]
  BY <1>2, HeadTailProperties
<1>6. ASSUME NEW i \in 1 .. Len(waiting') PROVE waiting'[i] = Tail(waiting)[i]
  <2>1. /\ i + 1 \in 1 .. Len(modalList) - current
        /\ current + 1 + i \in 1 .. Len(modalList) /\ current + 1 + i # current + 1
        /\ current + (i + 1) = current + 1 + i
    BY <1>1, <1>4 DEF ListType
  <2>2. waiting'[i] = modalList[current + 1 + i]
    BY <1>1, <1>4, <2>1
  <2>3. Tail(waiting)[i] = modalList[current + (i + 1)]
    BY <1>1, <1>2, <1>4, <1>5, <2>1 DEF ListType
  <2>. QED  BY <2>1, <2>2, <2>3
<1>7. Len(waiting') = Len(Tail(waiting))
  BY <1>1, <1>2, <1>4, <1>5 DEF ListType
<1>. QED  BY <1>4, <1>5, <1>6, <1>7, SeqEqual

LEMMA RemoveLine ==
  ASSUME ListType, VisibleFromCurrent, RemoveModal
  PROVE  waiting' = waiting
<1>1. CASE \E i \in DOMAIN modalList : modalList[i].isVisible
  BY <1>1 DEF RemoveModal, waiting
<1>2. CASE ~\E i \in DOMAIN modalList : modalList[i].isVisible
  <2>1. modalList' = <<>> /\ current' = 0
    BY <1>2 DEF RemoveModal
  <2>2. current = Len(modalList)
    BY <1>2 DEF ListType, VisibleFromCurrent
  <2>3. waiting = <<>>
    BY <2>2, SubSeqEmpty DEF ListType, waiting
  <2>4. Len(<<>>) = 0 /\ SubSeq(<<>>, 1, 0) = <<>>
    BY SubSeqEmpty, EmptySeq
  <2>5. waiting' = SubSeq(<<>>, 0 + 1, Len(<<>>))
    BY <2>1 DEF waiting
  <2>. QED  BY <2>3, <2>4, <2>5
<1>. QED  BY <1>1, <1>2

\* The list, the positions, the timers and the fading implement the line of DialogQueue:
\* a dialog that is opened is shown in its turn, once.
THEOREM FirstInFirstShownCorrect == Spec => FirstInFirstShown
<1>1. Init => Line!Init
  <2>1. Init => modalList = <<>> /\ current = 0
    BY DEF Init
  <2>2. Len(<<>>) = 0 /\ SubSeq(<<>>, 1, 0) = <<>>
    BY SubSeqEmpty, EmptySeq
  <2>. QED  BY <2>1, <2>2 DEF Line!Init, waiting
<1>2. Inv /\ [Next]_vars => [Line!Next]_waiting
  <2>. SUFFICES ASSUME Inv, [Next]_vars PROVE [Line!Next]_waiting
    OBVIOUS
  <2>1. ListType /\ PlaceType /\ VisibleFromCurrent
    BY DEF Inv, RestType
  <2>2. ASSUME NEW d \in Modals, Open(d) PROVE Line!Open
    BY <2>1, <2>2, OpenLine DEF Line!Open
  <2>3. CASE waiting # <<>> /\ Hide
    BY <2>1, <2>3, HideLine DEF Line!Next, Line!Close
  <2>4. CASE RemoveModal
    BY <2>1, <2>4, RemoveLine
  <2>5. CASE UNCHANGED <<modalList, current, timers>>
    BY <2>5 DEF waiting
  <2>. QED  BY <2>1, <2>2, <2>3, <2>4, <2>5, ListSteps DEF PlaceType, Line!Next
<1>3. Spec => []Inv
  BY Invariance
<1>. QED  BY <1>1, <1>2, <1>3, PTL DEF Spec, FirstInFirstShown, Line!Spec

-----------------------------------------------------------------------------
(* What is offered is allowed.                                             *)

\* The levels of the commands that a role is offered
LEMMA Levels ==
  ASSUME NEW q, user.super \in BOOLEAN
  PROVE  /\ StaffIn(user, q) => \A c \in AssistantCommands : Allows(user, Path(c), q)
         /\ user.super \/ q \in user.teacherIn =>
              \A c \in {"AddTeacher", "RemoveTeacher", "AddAssistant", "RemoveAssistant",
                        "RemoveQueue", "HideQueue", "RevealQueue"} : Allows(user, Path(c), q)
         /\ user.super =>
              \A c \in BannerCommands \cup {"AddAdministrator", "RemoveAdministrator", "AddQueue",
                        "RenameQueue", "SetServerMessage"} : Allows(user, Path(c), q)
<1>1. \A c \in AssistantCommands : Path(c) \notin SuperOnly \cup SuperOrTeacher
  BY DEF AssistantCommands, Path, AssistantPath, SuperOnly, SuperOrTeacher
<1>2. \A c \in {"AddTeacher", "RemoveTeacher", "AddAssistant", "RemoveAssistant",
                "RemoveQueue", "HideQueue", "RevealQueue"} : Path(c) \in SuperOrTeacher
  BY DEF Path, AssistantCommands, AdministratorCommands, AdministratorPath, SuperOrTeacher
<1>3. \A c \in {"AddAdministrator", "RemoveAdministrator", "AddQueue", "RenameQueue",
                "SetServerMessage"} : Path(c) \in SuperOnly
  BY DEF Path, AssistantCommands, AdministratorCommands, AdministratorPath, SuperOnly
<1>4. \A c \in BannerCommands : Path(c) \in SuperOnly
  BY DEF Path, AssistantCommands, AdministratorCommands, BannerCommands, BannerPath, SuperOnly
<1>. QED  BY <1>1, <1>2, <1>3, <1>4 DEF Allows

LEMMA OfferedContent ==
  ASSUME NEW q
  PROVE  /\ \A d \in RowModals(q) \cup MenuModals(q) :
              d.queue = q /\ d.commands \subseteq AssistantCommands
         /\ \A d \in {HideQueueModal(q), ShowQueueModal(q), DeleteQueueModal(q)} :
              d.queue = q /\ d.commands \subseteq {"HideQueue", "RevealQueue", "RemoveQueue"}
         /\ RenameQueueModal(q).commands = {"RenameQueue"}
         /\ \A d \in InformationModals \cup BannerList :
              d.commands \subseteq BannerCommands \cup {"SetServerMessage"}
<1>1. \A d \in RowModals(q) : d.queue = q /\ d.commands \subseteq AssistantCommands
  BY DEF RowModals, SendMessageModal, SendBadLocationModal, Dialog, AssistantCommands
<1>2. \A d \in MenuModals(q) : d.queue = q /\ d.commands \subseteq AssistantCommands
  BY DEF MenuModals, BroadcastModal, BroadcastFacultyModal, SetMotdModal,
     SetQueueInformationModal, PurgeQueueModal, Dialog, AssistantCommands
<1>3. \A d \in {HideQueueModal(q), ShowQueueModal(q), DeleteQueueModal(q)} :
        d.queue = q /\ d.commands \subseteq {"HideQueue", "RevealQueue", "RemoveQueue"}
  BY DEF HideQueueModal, ShowQueueModal, DeleteQueueModal, Dialog
<1>4. RenameQueueModal(q).commands = {"RenameQueue"}
  BY DEF RenameQueueModal, Dialog
<1>5. \A d \in InformationModals \cup BannerList :
        d.commands \subseteq BannerCommands \cup {"SetServerMessage"}
  BY DEF InformationModals, BannerList, ServerMessageModal, AddBannerModal, UpdateBannerModal,
     Dialog, BannerCommands
<1>. QED  BY <1>1, <1>2, <1>3, <1>4, <1>5

LEMMA OfferedModalsAllowed ==
  ASSUME PlaceType, NEW d \in OfferedModals, NEW c \in d.commands
  PROVE  Allows(user, Path(c), d.queue)
<1>. user.super \in BOOLEAN
  BY DEF PlaceType, Rights
<1>1. CASE page \in Queues
  <2>1. StaffIn(user, page) /\ d \in RowModals(page) \cup MenuModals(page)
    BY <1>1 DEF OfferedModals
  <2>. QED  BY <2>1, OfferedContent, Levels
<1>2. CASE page = Administration
  <2>1. \/ \E q \in Selectable : d \in OptionModals(q)
        \/ user.super /\ d \in InformationModals \cup BannerList
    BY <1>2, DialogsAssumption DEF OfferedModals
  <2>2. ASSUME NEW q \in Selectable, d \in OptionModals(q) PROVE Allows(user, Path(c), d.queue)
    <3>1. user.super \/ q \in user.teacherIn
      BY DEF Selectable
    <3>2. CASE d \in {HideQueueModal(q), ShowQueueModal(q), DeleteQueueModal(q)}
      BY <3>1, <3>2, OfferedContent, Levels
    <3>3. CASE user.super /\ d = RenameQueueModal(q)
      BY <3>3, OfferedContent, Levels
    <3>. QED  BY <2>2, <3>2, <3>3 DEF OptionModals
  <2>3. CASE user.super /\ d \in InformationModals \cup BannerList
    BY <2>3, OfferedContent, Levels
  <2>. QED  BY <2>1, <2>2, <2>3
<1>3. page # Home
  BY DialogsAssumption DEF OfferedModals
<1>. QED  BY <1>1, <1>2, <1>3 DEF PlaceType

LEMMA OfferedCommandsAllowed ==
  ASSUME PlaceType, NEW o \in OfferedCommands
  PROVE  Allows(user, Path(o[1]), o[2])
<1>. user.super \in BOOLEAN
  BY DEF PlaceType, Rights
<1>1. CASE page \in Queues
  <2>1. StaffIn(user, page) /\ o \in (RowCommands \cup MenuCommands) \X {page}
    BY <1>1 DEF OfferedCommands
  <2>2. o[1] \in AssistantCommands /\ o[2] = page
    BY <2>1 DEF RowCommands, MenuCommands, AssistantCommands
  <2>. QED  BY <2>1, <2>2, Levels
<1>2. CASE page = Administration
  <2>1. \/ o \in (AddTeacher \cup TeacherList \cup AddAssistant \cup AssistantList) \X Selectable
        \/ user.super /\ o \in (AddAdmin \cup AdministratorList \cup AddQueue) \X {None}
    BY <1>2, DialogsAssumption DEF OfferedCommands
  <2>2. CASE o \in (AddTeacher \cup TeacherList \cup AddAssistant \cup AssistantList) \X Selectable
    <3>1. /\ o[1] \in {"AddTeacher", "RemoveTeacher", "AddAssistant", "RemoveAssistant"}
          /\ user.super \/ o[2] \in user.teacherIn
      BY <2>2 DEF AddTeacher, TeacherList, AddAssistant, AssistantList, Selectable
    <3>. QED  BY <3>1, Levels
  <2>3. CASE user.super /\ o \in (AddAdmin \cup AdministratorList \cup AddQueue) \X {None}
    <3>1. o[1] \in {"AddAdministrator", "RemoveAdministrator", "AddQueue"}
      BY <2>3 DEF AddAdmin, AdministratorList, AddQueue
    <3>. QED  BY <2>3, <3>1, Levels
  <2>. QED  BY <2>1, <2>2, <2>3
<1>3. page # Home
  BY DialogsAssumption DEF OfferedCommands
<1>. QED  BY <1>1, <1>2, <1>3 DEF PlaceType

LEMMA UserKept == ASSUME [Next]_vars PROVE user' = user
  BY DEF Next, vars, authority, RemoveModal, CloseModal, Confirm, ConfirmAgain, FadeEnds,
     OnMessageReceived, ShowMotd, OpenFromPage, CommandFromPage, GoTo, Revoke, OnBannerAdded,
     BannersLoaded, Handle

LEMMA NextAllowed ==
  ASSUME Inv, WaitingAllowed, [Next]_vars
  PROVE  WaitingAllowed'
<1>1. ListType /\ PlaceType /\ VisibleFromCurrent
  BY DEF Inv, RestType
<1>2. user' = user
  BY UserKept
<1>3. /\ waiting \in Seq(Listed) /\ Len(waiting) = Len(modalList) - current
      /\ \A i \in 1 .. Len(modalList) - current : waiting[i] = modalList[current + i]
  BY <1>1, SuffixShape DEF waiting, ListType
<1>4. ASSUME NEW d \in Modals, Open(d), d.commands = {} \/ d \in OfferedModals
      PROVE  WaitingAllowed'
  <2>1. waiting' = Append(waiting, d) /\ d \in Listed
    BY <1>1, <1>4, OpenLine DEF Listed
  <2>2. \A c \in d.commands : Allows(user, Path(c), d.queue)
    BY <1>1, <1>4, OfferedModalsAllowed
  <2>3. /\ DOMAIN waiting' = 1 .. Len(waiting) + 1 /\ DOMAIN waiting = 1 .. Len(waiting)
        /\ waiting'[Len(waiting) + 1] = d
        /\ \A i \in 1 .. Len(waiting) : waiting'[i] = waiting[i]
    BY <1>3, <2>1, AppendProperties, LenProperties
  <2>. SUFFICES ASSUME NEW i \in 1 .. Len(waiting) + 1, NEW c \in waiting'[i].commands
                PROVE  Allows(user, Path(c), waiting'[i].queue)
    BY <1>2, <2>3 DEF WaitingAllowed
  <2>4. CASE i \in 1 .. Len(waiting)
    BY <2>3, <2>4 DEF WaitingAllowed
  <2>5. CASE i = Len(waiting) + 1
    BY <2>2, <2>3, <2>5
  <2>. QED  BY <1>3, <2>4, <2>5
<1>5. CASE waiting # <<>> /\ Hide
  <2>1. waiting' = Tail(waiting)
    BY <1>1, <1>5, HideLine
  <2>2. /\ DOMAIN waiting' = 1 .. Len(waiting) - 1 /\ DOMAIN waiting = 1 .. Len(waiting)
        /\ \A i \in 1 .. Len(waiting) - 1 : waiting'[i] = waiting[i + 1] /\ i + 1 \in 1 .. Len(waiting)
    BY <1>3, <1>5, <2>1, HeadTailProperties, LenProperties
  <2>. QED  BY <1>2, <2>2 DEF WaitingAllowed
<1>6. CASE RemoveModal \/ UNCHANGED <<modalList, current, timers>>
  <2>1. waiting' = waiting
    BY <1>1, <1>6, RemoveLine DEF waiting
  <2>. QED  BY <1>2, <2>1 DEF WaitingAllowed
<1>. QED  BY <1>1, <1>4, <1>5, <1>6, ListSteps DEF PlaceType

\* For any number of queues and whatever happens between opening a dialog and pressing its
\* button, a user who lost no right since the page was loaded has no button, on the page or
\* in a dialog that waits, whose request the server refuses.
THEOREM OfferedIsAllowedCorrect == Spec => []OfferedIsAllowed
<1>1. Init => WaitingAllowed
  <2>1. Init => waiting = <<>>
    BY SubSeqEmpty, EmptySeq DEF Init, waiting
  <2>. QED  BY <2>1, LenProperties, EmptySeq DEF WaitingAllowed
<1>2. Inv /\ WaitingAllowed /\ [Next]_vars => WaitingAllowed'
  BY NextAllowed
<1>3. Inv /\ WaitingAllowed => OfferedIsAllowed
  BY OfferedCommandsAllowed DEF Inv, RestType, WaitingAllowed, OfferedIsAllowed
<1>. QED  BY <1>1, <1>2, <1>3, Invariance, PTL DEF Spec
=============================================================================
