------------------------------- MODULE Dialogs --------------------------------
(***************************************************************************)
(* The dialogs of a tab: the list of the store (modalReducer), the         *)
(* component that shows one of them at a time (viewcomponents/Modal), the  *)
(* sixteen dialogs, the places that open them, and what they ask of the    *)
(* server, next to what the server allows (ws_rs, validate_auth).          *)
(*                                                                         *)
(* A closed dialog stays in the list until a timer, started when it was    *)
(* closed, finds that none is visible; it stays on the screen, with its    *)
(* buttons, while it fades.  A request is handled at once: its way to the  *)
(* server is in ClientSocket.  Texts that users type are left out.         *)
(***************************************************************************)
EXTENDS Naturals, Sequences

CONSTANTS
  Queues,
  Home,            \* the pages without dialogs of their own
  Administration,  \* the administration page; a queue is the page of that queue
  None,
  MaxListed,       \* bound: dialogs in the list
  MaxTimers        \* bound: timers set when another dialog is opened

ASSUME DialogsAssumption ==
  /\ Home \notin Queues /\ Administration \notin Queues /\ Home # Administration
  /\ MaxListed \in Nat /\ MaxTimers \in Nat

VARIABLES
  modalList, current,    \* the store; current counts from 0
  gone,                  \* the closed dialogs up to this one have faded from the screen
  timers,                \* timers that will dispatch RemoveModal
  page, hasShownMotd,
  banner,                \* the banner that a dialog may be about: is it in the store?
  loading,               \* loadBanners is not answered yet
  user, rights           \* the rights in the store, and on the server

dialogs == <<modalList, current, gone, timers>>
place == <<page, hasShownMotd>>
banners == <<banner, loading>>
authority == <<user, rights>>
vars == <<dialogs, place, banners, authority>>

-----------------------------------------------------------------------------
(* Commands: what buttons dispatch, and the request that the middleware    *)
(* makes of it.  Its content, beyond the queue, is left out.               *)

AssistantCommands == {"KickUser", "SendMessage", "Help", "BadLocation", "UnknownLocation",
  "Broadcast", "BroadcastFaculty", "SetMotd", "SetQueueInfo", "PurgeQueue", "LockQueue",
  "UnlockQueue"}

AdministratorCommands == {"AddAdministrator", "RemoveAdministrator", "AddTeacher",
  "RemoveTeacher", "AddAssistant", "RemoveAssistant", "AddQueue", "RemoveQueue",
  "RenameQueue", "HideQueue", "RevealQueue", "SetServerMessage"}

BannerCommands == {"AddBanner", "UpdateBanner", "DeleteBanner"}

AssistantPath ==
  [KickUser |-> "kick", SendMessage |-> "sendMessage", Help |-> "setUserHelpStatus",
   BadLocation |-> "badLocation", UnknownLocation |-> "badLocation",
   Broadcast |-> "broadcast", BroadcastFaculty |-> "broadcastFaculty",
   SetMotd |-> "setMOTD", SetQueueInfo |-> "setQueueInfo", PurgeQueue |-> "purgeQueue",
   LockQueue |-> "setQueueLockStatus", UnlockQueue |-> "setQueueLockStatus"]

AdministratorPath ==
  [AddAdministrator |-> "addSuperAdmin", RemoveAdministrator |-> "removeSuperAdmin",
   AddTeacher |-> "addTeacher", RemoveTeacher |-> "removeTeacher",
   AddAssistant |-> "addAssistant", RemoveAssistant |-> "removeAssistant",
   AddQueue |-> "addQueue", RemoveQueue |-> "removeQueue", RenameQueue |-> "renameQueue",
   HideQueue |-> "setQueueHideStatus", RevealQueue |-> "setQueueHideStatus",
   SetServerMessage |-> "broadcastServer"]

\* A deletion is an update to an empty interval.
BannerPath ==
  [AddBanner |-> "addBanner", UpdateBanner |-> "updateBanner", DeleteBanner |-> "updateBanner"]

Path(c) == IF c \in AssistantCommands THEN AssistantPath[c]
           ELSE IF c \in AdministratorCommands THEN AdministratorPath[c] ELSE BannerPath[c]

-----------------------------------------------------------------------------
(* What the server asks for.                                               *)

Rights == {r \in [super : BOOLEAN, teacherIn : SUBSET Queues, assistantIn : SUBSET Queues] :
             r.teacherIn \cap r.assistantIn = {}}

StaffIn(r, q) == q \in r.teacherIn \cup r.assistantIn

SuperOnly == {"addQueue", "renameQueue", "addBanner", "updateBanner", "addSuperAdmin",
              "removeSuperAdmin", "broadcastServer"}
SuperOrTeacher == {"removeQueue", "addTeacher", "addAssistant", "removeTeacher",
                   "removeAssistant", "setQueueHideStatus"}

\* validate_auth at the level that the route asks for
Allows(r, path, q) ==
  \/ path \in SuperOnly /\ r.super
  \/ path \in SuperOrTeacher /\ (r.super \/ q \in r.teacherIn)
  \/ path \notin SuperOnly \cup SuperOrTeacher /\ StaffIn(r, q)

Without(r, q) == [r EXCEPT !.teacherIn = @ \ {q}, !.assistantIn = @ \ {q}]

Demoted(r) == [r EXCEPT !.super = FALSE]

\* A request may cost its sender a right; if it does not concern the sender, or fails
\* after the check, it changes nothing here.
Handle(c, q) ==
  /\ \/ UNCHANGED rights
     \/ /\ Allows(rights, Path(c), q)
        /\ c \in {"RemoveQueue", "RenameQueue", "RemoveTeacher", "RemoveAssistant"}
        /\ rights' = Without(rights, q)
     \/ /\ Allows(rights, Path(c), q)
        /\ c = "RemoveAdministrator" /\ rights' = Demoted(rights)
  /\ UNCHANGED user

-----------------------------------------------------------------------------
(* The dialogs, with the commands of their buttons.                        *)

Dialog(type, q, commands) ==
  [type |-> type, queue |-> q, commands |-> commands, isVisible |-> TRUE]

SendMessageModal(q) == Dialog("SEND_MESSAGE_MODAL", q, {"SendMessage"})
SendBadLocationModal(q) == Dialog("SEND_BAD_LOCATION_MODAL", q, {"BadLocation", "UnknownLocation"})
BroadcastModal(q) == Dialog("BROADCAST_MODAL", q, {"Broadcast"})
BroadcastFacultyModal(q) == Dialog("BROADCAST_FACULTY_MODAL", q, {"BroadcastFaculty"})
SetMotdModal(q) == Dialog("SET_MOTD_MODAL", q, {"SetMotd"})
SetQueueInformationModal(q) == Dialog("SET_QUEUE_INFORMATION_MODAL", q, {"SetQueueInfo"})
PurgeQueueModal(q) == Dialog("PURGE_QUEUE_MODAL", q, {"PurgeQueue"})
HideQueueModal(q) == Dialog("HIDE_QUEUE_MODAL", q, {"HideQueue"})
ShowQueueModal(q) == Dialog("SHOW_QUEUE_MODAL", q, {"RevealQueue"})
DeleteQueueModal(q) == Dialog("DELETE_QUEUE_MODAL", q, {"RemoveQueue"})
RenameQueueModal(q) == Dialog("RENAME_QUEUE_MODAL", q, {"RenameQueue"})
ServerMessageModal == Dialog("SERVER_MESSAGE_MODAL", None, {"SetServerMessage"})
AddBannerModal == Dialog("ADD_BANNER_MODAL", None, {"AddBanner"})
UpdateBannerModal == Dialog("UPDATE_BANNER_MODAL", None, {"UpdateBanner", "DeleteBanner"})
ShowMessageModal == Dialog("SHOW_MESSAGE_MODAL", None, {})
ShowMotdModal == Dialog("SHOW_MOTD_MODAL", None, {})

\* About a queue, and about none
QueueModals(q) ==
  {SendMessageModal(q), SendBadLocationModal(q), BroadcastModal(q), BroadcastFacultyModal(q),
   SetMotdModal(q), SetQueueInformationModal(q), PurgeQueueModal(q), HideQueueModal(q),
   ShowQueueModal(q), DeleteQueueModal(q), RenameQueueModal(q)}
OtherModals ==
  {ServerMessageModal, AddBannerModal, UpdateBannerModal, ShowMessageModal, ShowMotdModal}

Modals == OtherModals \cup UNION {QueueModals(q) : q \in Queues}

Hidden(d) == [d EXCEPT !.isVisible = FALSE]

-----------------------------------------------------------------------------
TypeOK ==
  /\ modalList \in Seq(Modals \cup {Hidden(d) : d \in Modals})
  /\ current \in 0 .. Len(modalList) /\ gone \in 0 .. current /\ timers \in Nat
  /\ page \in {Home, Administration} \cup Queues /\ hasShownMotd \in BOOLEAN
  /\ banner \in {"none", "stored", "dropped"} /\ loading \in BOOLEAN
  /\ user \in Rights /\ rights \in Rights

Init ==
  /\ modalList = <<>> /\ current = 0 /\ gone = 0 /\ timers = 0
  /\ page = Home /\ hasShownMotd = FALSE
  /\ banner = "none" /\ loading = TRUE
  /\ user \in Rights /\ rights = user

\* The dialogs that are yet to be shown, or are.
waiting == SubSeq(modalList, current + 1, Len(modalList))

\* UpdateBannerModal renders nothing when its banner is not in the store.
Invisible == /\ waiting # <<>>
             /\ Head(waiting).type = "UPDATE_BANNER_MODAL"
             /\ banner # "stored"

\* A dialog and its backdrop cover the page.
PageInReach == waiting = <<>> \/ Invisible

-----------------------------------------------------------------------------
(* The reducer.                                                            *)

Open(d) ==
  /\ Len(modalList) < MaxListed /\ timers <= MaxTimers
  /\ modalList' = Append(modalList, d)
  /\ UNCHANGED <<current, gone, timers>>

\* Mutant: current stays
HideStays ==
  /\ modalList' = [modalList EXCEPT ![current + 1] = Hidden(@)]
  /\ timers' = timers + 1
  /\ UNCHANGED <<current, gone>>

\* CloseModal, and the timer that onHide starts after it
Hide ==
  /\ modalList' = [modalList EXCEPT ![current + 1] = Hidden(@)]
  /\ current' = current + 1
  /\ timers' = timers + 1
  /\ UNCHANGED gone

\* Mutant: the list is cleared whatever it holds
RemoveModalAnyway ==
  /\ timers > 0
  /\ timers' = timers - 1
  /\ modalList' = <<>> /\ current' = 0 /\ gone' = 0
  /\ UNCHANGED <<place, banners, authority>>

RemoveModal ==
  /\ timers > 0
  /\ timers' = timers - 1
  /\ IF \E i \in DOMAIN modalList : modalList[i].isVisible
     THEN UNCHANGED <<modalList, current, gone>>
     ELSE modalList' = <<>> /\ current' = 0 /\ gone' = 0
  /\ UNCHANGED <<place, banners, authority>>

-----------------------------------------------------------------------------
(* The component: only the dialog at current is given an onHide.           *)

\* The cross, the backdrop, a button that only closes
CloseModal ==
  /\ waiting # <<>> /\ ~Invisible
  /\ Hide
  /\ UNCHANGED <<place, banners, authority>>

\* A button with a command: the command, then onHide
Confirm ==
  /\ waiting # <<>> /\ ~Invisible
  /\ \E c \in Head(waiting).commands : Handle(c, Head(waiting).queue)
  /\ Hide
  /\ UNCHANGED <<place, banners>>

\* Mutant: every dialog is given an onHide
ConfirmAgainHides ==
  /\ \E i \in gone + 1 .. current : \E c \in modalList[i].commands : Handle(c, modalList[i].queue)
  /\ Hide
  /\ UNCHANGED <<place, banners>>

\* A button of a dialog that fades: the command again, then a TypeError
ConfirmAgain ==
  /\ \E i \in gone + 1 .. current : \E c \in modalList[i].commands : Handle(c, modalList[i].queue)
  /\ UNCHANGED <<dialogs, place, banners>>

FadeEnds ==
  /\ gone < current
  /\ gone' = gone + 1
  /\ UNCHANGED <<modalList, current, timers, place, banners, authority>>

-----------------------------------------------------------------------------
(* Who opens dialogs.                                                      *)

OnMessageReceived == Open(ShowMessageModal) /\ UNCHANGED <<place, banners, authority>>

\* The effect of a queue's page, once a visit
ShowMotd ==
  /\ page \in Queues /\ ~hasShownMotd
  /\ Open(ShowMotdModal)
  /\ hasShownMotd' = TRUE
  /\ UNCHANGED <<page, banners, authority>>

GoTo(p) ==
  /\ PageInReach /\ p # page
  /\ page' = p /\ hasShownMotd' = FALSE
  /\ UNCHANGED <<dialogs, banners, authority>>

\* The row of an entry
RowModals(q) == {SendMessageModal(q), SendBadLocationModal(q)}
RowCommands == {"KickUser", "Help"}

\* The menu of a queue
MenuModals(q) == {BroadcastModal(q), BroadcastFacultyModal(q), SetMotdModal(q),
                  SetQueueInformationModal(q), PurgeQueueModal(q)}
MenuCommands == {"LockQueue", "UnlockQueue"}

\* The administration page: queues to select, and the options of one
Selectable == IF user.super THEN Queues ELSE user.teacherIn

\* Mutant: teachers may rename
OptionModalsRename(q) ==
  {HideQueueModal(q), ShowQueueModal(q), DeleteQueueModal(q), RenameQueueModal(q)}

OptionModals(q) == {HideQueueModal(q), ShowQueueModal(q), DeleteQueueModal(q)}
                   \cup IF user.super THEN {RenameQueueModal(q)} ELSE {}

AddTeacher == {"AddTeacher"}
TeacherList == {"RemoveTeacher"}
AddAssistant == {"AddAssistant"}
AssistantList == {"RemoveAssistant"}

\* The rest of that page, for administrators
InformationModals == {ServerMessageModal, AddBannerModal}
BannerList == IF banner = "stored" THEN {UpdateBannerModal} ELSE {}
AddAdmin == {"AddAdministrator"}
AdministratorList == {"RemoveAdministrator"}
AddQueue == {"AddQueue"}

\* The dialogs, and the commands without a dialog, that the page offers this user
OfferedModals ==
  IF page \in Queues
  THEN IF StaffIn(user, page) THEN RowModals(page) \cup MenuModals(page) ELSE {}
  ELSE IF page = Administration
  THEN (UNION {OptionModals(q) : q \in Selectable})
       \cup IF user.super THEN InformationModals \cup BannerList ELSE {}
  ELSE {}

OfferedCommands ==
  IF page \in Queues
  THEN IF StaffIn(user, page) THEN (RowCommands \cup MenuCommands) \X {page} ELSE {}
  ELSE IF page = Administration
  THEN ((AddTeacher \cup TeacherList \cup AddAssistant \cup AssistantList) \X Selectable)
       \cup IF user.super THEN (AddAdmin \cup AdministratorList \cup AddQueue) \X {None} ELSE {}
  ELSE {}

OpenFromPage ==
  /\ PageInReach
  /\ \E d \in OfferedModals : Open(d)
  /\ UNCHANGED <<place, banners, authority>>

CommandFromPage ==
  /\ PageInReach
  /\ \E o \in OfferedCommands : Handle(o[1], o[2])
  /\ UNCHANGED <<dialogs, place, banners>>

-----------------------------------------------------------------------------
(* The rest of the system.                                                 *)

\* Others take rights away; the store learns that at the next load only.  (Rights that
\* others give change nothing for the offers.)
Revoke ==
  /\ rights' \in {Without(rights, q) : q \in Queues} \cup {Demoted(rights)}
  /\ UNCHANGED <<dialogs, place, banners, user>>

OnBannerAdded ==
  /\ banner = "none" /\ banner' = "stored"
  /\ UNCHANGED <<dialogs, place, loading, authority>>

\* The answer replaces the list: it may be older than the banner, or have left it out as ended.
BannersLoaded ==
  /\ loading /\ loading' = FALSE
  /\ banner' \in IF banner = "none" THEN {"none", "stored"} ELSE {"stored", "dropped"}
  /\ UNCHANGED <<dialogs, place, authority>>

Next ==
  \/ RemoveModal \/ CloseModal \/ Confirm \/ ConfirmAgain \/ FadeEnds
  \/ OnMessageReceived \/ ShowMotd \/ OpenFromPage \/ CommandFromPage
  \/ \E p \in {Home, Administration} \cup Queues : GoTo(p)
  \/ Revoke \/ OnBannerAdded \/ BannersLoaded

Spec == Init /\ [][Next]_vars

\* Users close the dialog they see.
Fairness == WF_vars(CloseModal)

FairSpec == Spec /\ Fairness

-----------------------------------------------------------------------------
(* Properties.                                                             *)

\* The two things the store keeps agree: the visible dialogs are those from current on
\* (modalReducer 34-52), so that a timer never clears a dialog nobody has seen.
VisibleFromCurrent ==
  \A i \in DOMAIN modalList : modalList[i].isVisible <=> i > current

Line == INSTANCE DialogQueue WITH waiting <- waiting

\* Dialogs and messages that come in while one is shown, or while the last one fades,
\* wait in line: none is lost, none is shown out of turn, none comes back.
FirstInFirstShown == Line!Spec

\* The conditions under which the pages offer a button and the levels at which the routes
\* accept its request were written apart (QueueEntryRow, QueueAdministratorOptions,
\* QueueOptions, AdministrationInformation; ws_rs): a user who lost no right since the
\* page was loaded has no button, on the page or in a dialog still waiting, that is refused.
OfferedIsAllowed ==
  rights = user =>
    /\ \A i \in DOMAIN waiting : \A c \in waiting[i].commands :
         Allows(rights, Path(c), waiting[i].queue)
    /\ \A o \in OfferedCommands : Allows(rights, Path(o[1]), o[2])

\* A user who closes dialogs reaches the last one, unless the one in turn is about a
\* banner that has left the store: that one is not rendered and cannot be closed.
EveryDialogShown == waiting # <<>> ~> (waiting = <<>> \/ Invisible)
=============================================================================
