---------------------------- MODULE AccountsProofs ----------------------------
(***************************************************************************)
(* Proofs about Accounts: for any set of people, usernames, queues and     *)
(* login threads.                                                          *)
(***************************************************************************)
EXTENDS Accounts, TLAPS

\* Where the names that are on their way into users come from
NamesHeld ==
  /\ \A p \in People : ldap[p] \in held[p]
  /\ \A p, r \in People : held[p] \cap held[r] # {} => p = r
  /\ \A p \in People : username[p] = None \/ username[p] \in held[p]
  /\ ws.step = "insert" => ws.name \in held[ws.found]
  /\ \A l \in Logins : login[l] # NoLogin => login[l].name \in held[login[l].person]

\* Whoever asked for the handler under way still has the level it needs
SenderInOffice ==
  ws # Idle => IF ws.kind = "super" THEN IsSuper(ws.by)
               ELSE ws.queue \in Queues /\ SuperOrTeacher(ws.by, ws.queue)

-----------------------------------------------------------------------------
(* Type correctness.                                                       *)

LEMMA InitType == Init => TypeOK
  BY AccountsAssumption DEF Init, TypeOK, Idle, NoLogin

LEMMA HandlerType == ASSUME TypeOK, NEW p \in People, Handler(p) PROVE TypeOK'
<1>1. ASSUME NEW n \in Names, AddSuperAdmin(p, n) PROVE TypeOK'
  BY <1>1 DEF AddSuperAdmin, TypeOK, staff, Kinds, Request, Idle
<1>2. ASSUME NEW q \in Queues, NEW n \in Names, NEW kind \in {"assistant", "teacher"},
             NEW exact \in BOOLEAN, AddAdmin(p, q, n, kind, exact)
      PROVE  TypeOK'
  BY <1>2 DEF AddAdmin, TypeOK, Kinds, Request, Idle
<1>3. ASSUME NEW q \in Queues, NEW n \in Names, NEW kind \in {"assistant", "teacher"},
             RemoveAdmin(p, q, n, kind)
      PROVE  TypeOK'
  BY <1>3 DEF RemoveAdmin, TypeOK
<1>4. ASSUME NEW q \in Queues, AddQueue(p, q) PROVE TypeOK'
  BY <1>4 DEF AddQueue, TypeOK
<1>5. ASSUME NEW q \in Queues, RemoveQueue(p, q) PROVE TypeOK'
  BY <1>5 DEF RemoveQueue, TypeOK, NoStaff
<1>6. ASSUME NEW q \in Queues, NEW new \in Queues, RenameQueue(p, q, new) PROVE TypeOK'
  BY <1>6 DEF RenameQueue, TypeOK, NoStaff
<1>. QED  BY <1>1, <1>2, <1>3, <1>4, <1>5, <1>6 DEF Handler

LEMMA GrantType ==
  ASSUME TypeOK, ws # Idle, NEW x \in People, Grant(x)
  PROVE  /\ supers' \in [People -> 0 .. MaxSupers]
         /\ queues' \subseteq Queues
         /\ role' \in [Queues -> [People -> {"none", "assistant", "teacher"}]]
         /\ ws' = Idle
<1>1. supers' \in [People -> 0 .. MaxSupers]
  <2>1. CASE ws.kind = "super"
    <3>1. supers[x] \in Nat /\ supers[x] + 1 \in 0 .. MaxSupers
      BY <2>1, AccountsAssumption DEF Grant, TypeOK
    <3>. QED  BY <2>1, <3>1 DEF Grant, TypeOK
  <2>2. CASE ws.kind # "super"
    BY <2>2 DEF Grant, TypeOK
  <2>. QED  BY <2>1, <2>2
<1>2. ws.kind \in Kinds
  BY DEF TypeOK
<1>3. role' \in [Queues -> [People -> {"none", "assistant", "teacher"}]]
  BY <1>2 DEF Grant, TypeOK, Kinds
<1>. QED  BY <1>1, <1>3 DEF Grant, TypeOK

Looking == [step : {"select", "fetch"}, by : People, kind : Kinds, queue : Queues \cup {None},
            name : Names, found : {None}]

LEMMA WsLooking ==
  ASSUME TypeOK, ws.step \in {"select", "fetch"}
  PROVE  ws \in Looking
<1>1. ws # Idle
  BY DEF Idle
<1>2. ~(ws \in [step : {"insert"}, by : People, kind : Kinds, queue : Queues \cup {None},
                name : Names, found : People])
  OBVIOUS
<1>3. \/ ws = Idle
      \/ ws \in Looking
      \/ ws \in [step : {"insert"}, by : People, kind : Kinds, queue : Queues \cup {None},
                 name : Names, found : People]
  BY DEF TypeOK, Looking
<1>. QED  BY <1>1, <1>2, <1>3

LEMMA GetOrCreateType == ASSUME TypeOK, GetOrCreate PROVE TypeOK'
<1>1. CASE SelectUser
  <2>1. ws # Idle
    BY <1>1 DEF SelectUser, Idle
  <2>2. CASE \E x \in People : username[x] = ws.name
    BY <1>1, <2>1, <2>2, GrantType DEF SelectUser, TypeOK
  <2>3. CASE ~\E x \in People : username[x] = ws.name
    BY <1>1, <2>1, <2>3 DEF SelectUser, TypeOK, staff, Idle
  <2>. QED  BY <2>2, <2>3
<1>2. CASE FetchUser
  <2>1. ws \in Looking
    BY <1>2, WsLooking DEF FetchUser
  <2>2. ws' = Idle \/ \E x \in People : ws' = [ws EXCEPT !.step = "insert", !.found = x]
    BY <1>2 DEF FetchUser
  <2>3. \/ ws' = Idle
        \/ ws' \in [step : {"insert"}, by : People, kind : Kinds,
                   queue : Queues \cup {None}, name : Names, found : People]
    BY <2>1, <2>2 DEF Looking
  <2>. QED  BY <1>2, <2>3 DEF FetchUser, TypeOK, staff
<1>3. CASE InsertUser
  <2>1. ws # Idle /\ ws.found \in People /\ ws.name \in Names
    BY <1>3 DEF InsertUser, TypeOK, Idle
  <2>2. CASE username[ws.found] = None
    BY <1>3, <2>1, <2>2, GrantType DEF InsertUser, TypeOK
  <2>3. CASE username[ws.found] # None
    BY <1>3, <2>1, <2>3 DEF InsertUser, TypeOK, staff
  <2>. QED  BY <2>2, <2>3
<1>. QED  BY <1>1, <1>2, <1>3 DEF GetOrCreate

LEMMA LoginType == ASSUME TypeOK, NEW l \in Logins, Login(l) PROVE TypeOK'
<1>1. ASSUME NEW p \in People, LoginStart(l, p) PROVE TypeOK'
  BY <1>1 DEF LoginStart, TypeOK, staff
<1>2. CASE LoginFind(l)
  BY <1>2 DEF LoginFind, TypeOK, staff, NoLogin
<1>3. CASE LoginUpdate(l)
  BY <1>3 DEF LoginUpdate, LoggedIn, TypeOK, staff, NoLogin
<1>4. CASE LoginCreate(l)
  BY <1>4 DEF LoginCreate, LoggedIn, TypeOK, staff, NoLogin
<1>. QED  BY <1>1, <1>2, <1>3, <1>4 DEF Login

LEMMA TypeStep == TypeOK /\ [Next]_vars => TypeOK'
<1>. SUFFICES ASSUME TypeOK, [Next]_vars PROVE TypeOK'
  OBVIOUS
<1>1. ASSUME NEW p \in People, Outside(p) PROVE TypeOK'
  BY <1>1 DEF Outside, Expire, ChangeName, TypeOK, staff
<1>2. ASSUME NEW p \in People, NEW n \in Names, RemoveSuperAdmin(p, n) PROVE TypeOK'
  BY <1>2, AccountsAssumption DEF RemoveSuperAdmin, TypeOK
<1>3. CASE UNCHANGED vars
  BY <1>3 DEF vars, staff, TypeOK
<1>. QED
  BY <1>1, <1>2, <1>3, HandlerType, GetOrCreateType, LoginType DEF Next, NextButRemoval

\* Every variable keeps its type, whatever the constants are: in particular the handler
\* under way has found a person when it inserts one, and only then.
THEOREM TypeCorrect == Spec => []TypeOK
  BY InitType, TypeStep, PTL DEF Spec

-----------------------------------------------------------------------------
(* The names in users are those of their people.                           *)

LEMMA InitNames == Init => NamesHeld
  BY AccountsAssumption DEF Init, NamesHeld, Idle, NoLogin

LEMMA NamesStep == TypeOK /\ NamesHeld /\ [Next]_vars => NamesHeld'
<1>. SUFFICES ASSUME TypeOK, NamesHeld, [Next]_vars PROVE NamesHeld'
  OBVIOUS
<1>1. ASSUME UNCHANGED <<ldap, held, username, login>>, ws'.step = "insert" => UNCHANGED ws
      PROVE  NamesHeld'
  BY <1>1 DEF NamesHeld
<1>2. ASSUME NEW p \in People, Handler(p) PROVE NamesHeld'
  <2>1. UNCHANGED <<ldap, held, username, login>> /\ (ws'.step = "insert" => UNCHANGED ws)
    BY <1>2 DEF Handler, AddSuperAdmin, AddAdmin, RemoveAdmin, AddQueue, RemoveQueue, RenameQueue
  <2>. QED  BY <1>1, <2>1
<1>3. CASE SelectUser
  <2>1. UNCHANGED <<ldap, held, username, login>>
    BY <1>3 DEF SelectUser
  <2>2. ws \in Looking
    BY <1>3, WsLooking DEF SelectUser
  <2>3. ws' = Idle \/ ws' = [ws EXCEPT !.step = "fetch"]
    BY <1>3 DEF SelectUser, Grant
  <2>4. ws'.step # "insert"
    BY <2>2, <2>3 DEF Idle, Looking
  <2>. QED  BY <1>1, <2>1, <2>4
<1>4. CASE FetchUser
  <2>1. UNCHANGED <<ldap, held, username, login>>
    BY <1>4 DEF FetchUser
  <2>2. ws \in Looking
    BY <1>4, WsLooking DEF FetchUser
  <2>3. CASE ws' = Idle
    BY <2>1, <2>3 DEF NamesHeld, Idle
  <2>4. ASSUME NEW x \in People, ldap[x] = ws.name, ws' = [ws EXCEPT !.step = "insert", !.found = x]
        PROVE  NamesHeld'
    <3>1. ws'.name = ws.name /\ ws'.found = x
      BY <2>2, <2>4 DEF Looking
    <3>. QED  BY <2>1, <2>4, <3>1 DEF NamesHeld
  <2>. QED  BY <1>4, <2>3, <2>4 DEF FetchUser
<1>5. CASE InsertUser
  <2>1. ws.found \in People /\ ws.name \in held[ws.found]
    BY <1>5 DEF InsertUser, TypeOK, NamesHeld, Idle
  <2>2. ws' = Idle /\ UNCHANGED <<ldap, held, login>>
    BY <1>5 DEF InsertUser, Grant
  <2>3. \A p \in People : username'[p] = None \/ username'[p] \in held[p]
    BY <1>5, <2>1 DEF InsertUser, NamesHeld, TypeOK
  <2>. QED  BY <2>2, <2>3 DEF NamesHeld, Idle
<1>6. ASSUME NEW l \in Logins, NEW p \in People, LoginStart(l, p) PROVE NamesHeld'
  BY <1>6 DEF LoginStart, NamesHeld, TypeOK, staff
<1>7. ASSUME NEW l \in Logins, LoginFind(l) PROVE NamesHeld'
  BY <1>7 DEF LoginFind, NamesHeld, TypeOK, NoLogin
<1>8. ASSUME NEW l \in Logins, LoginUpdate(l) \/ LoginCreate(l) PROVE NamesHeld'
  <2>1. login[l].person \in People /\ login[l].name \in held[login[l].person]
    BY <1>8 DEF LoginUpdate, LoginCreate, TypeOK, NamesHeld, NoLogin
  <2>2. UNCHANGED <<ldap, held, ws>> /\ login' = [login EXCEPT ![l] = NoLogin]
    BY <1>8 DEF LoginUpdate, LoginCreate
  <2>3. \A p \in People : username'[p] = None \/ username'[p] \in held[p]
    BY <1>8, <2>1 DEF LoginUpdate, LoginCreate, LoggedIn, NamesHeld, TypeOK
  <2>. QED  BY <2>2, <2>3 DEF NamesHeld, TypeOK
<1>9. ASSUME NEW p \in People, Expire(p) PROVE NamesHeld'
  BY <1>9 DEF Expire, NamesHeld
<1>10. ASSUME NEW p \in People, NEW n \in Names, ChangeName(p, n) PROVE NamesHeld'
  <2>1. \A x \in People : ldap'[x] \in held'[x] /\ held[x] \subseteq held'[x]
    BY <1>10 DEF ChangeName, NamesHeld, TypeOK
  <2>2. \A x, r \in People : held'[x] \cap held'[r] # {} => x = r
    BY <1>10 DEF ChangeName, NamesHeld, TypeOK
  <2>3. UNCHANGED <<username, ws, login>>
    BY <1>10 DEF ChangeName
  <2>4. ws.step = "insert" => ws.found \in People
    BY DEF TypeOK, Idle
  <2>5. \A l \in Logins : login[l] # NoLogin => login[l].person \in People
    BY DEF TypeOK
  <2>. QED  BY <2>1, <2>2, <2>3, <2>4, <2>5 DEF NamesHeld
<1>11. ASSUME NEW p \in People, NEW n \in Names, RemoveSuperAdmin(p, n) PROVE NamesHeld'
  BY <1>11 DEF RemoveSuperAdmin, NamesHeld
<1>12. CASE UNCHANGED vars
  BY <1>12 DEF vars, staff, NamesHeld
<1>. QED
  BY <1>2, <1>3, <1>4, <1>5, <1>6, <1>7, <1>8, <1>9, <1>10, <1>11, <1>12
     DEF Next, NextButRemoval, Outside, Login, GetOrCreate

\* A username in users is one its person has had, and belongs to no second person: the
\* names on their way into users (in the handler, in a login) are held by the person
\* they are going to be stored for.
THEOREM RightPersonCorrect == Spec => []RightPerson
<1>1. TypeOK /\ NamesHeld => RightPerson
  BY DEF NamesHeld, RightPerson, TypeOK
<1>. QED  BY <1>1, InitType, InitNames, TypeStep, NamesStep, PTL DEF Spec

-----------------------------------------------------------------------------
(* Roles belong to stored users and to queues that exist.                  *)

LEMMA InitRoles == Init => RolesReferToRows
<1>. SUFFICES ASSUME Init PROVE RolesReferToRows
  OBVIOUS
<1>1. PICK p \in People : /\ username = [r \in People |-> IF r = p THEN ldap[p] ELSE None]
                          /\ supers = [r \in People |-> IF r = p THEN 1 ELSE 0]
  BY DEF Init
<1>2. \A r \in People : username[r] = None => ~IsSuper(r)
  BY <1>1, AccountsAssumption DEF Init, IsSuper
<1>. QED  BY <1>2 DEF Init, RolesReferToRows, NoStaff

LEMMA GrantRoles ==
  ASSUME TypeOK, RolesReferToRows, NEW x \in People, Grant(x), username'[x] # None,
         UNCHANGED tokens, \A p \in People \ {x} : username'[p] = username[p]
  PROVE  RolesReferToRows'
<1>1. CASE ws.kind = "super"
  <2>1. UNCHANGED <<queues, role>> /\ \A p \in People \ {x} : supers'[p] = supers[p]
    BY <1>1 DEF Grant, TypeOK
  <2>. QED  BY <2>1 DEF RolesReferToRows, IsSuper
<1>2. CASE ws.kind # "super"
  <2>1. UNCHANGED <<queues, supers>> /\ \A p \in People \ {x} : \A q \in Queues : role'[q][p] = role[q][p]
    BY <1>2 DEF Grant, TypeOK
  <2>2. \A q \in Queues \ queues : role'[q] = role[q]
    BY <1>2 DEF Grant, TypeOK
  <2>. QED  BY <2>1, <2>2 DEF RolesReferToRows, IsSuper, NoStaff
<1>. QED  BY <1>1, <1>2

LEMMA HandlerRoles ==
  ASSUME TypeOK, RolesReferToRows, NEW p \in People, Handler(p)
  PROVE  RolesReferToRows'
<1>1. ASSUME NEW n \in Names, AddSuperAdmin(p, n) PROVE RolesReferToRows'
  BY <1>1 DEF AddSuperAdmin, RolesReferToRows, staff, IsSuper
<1>2. ASSUME NEW q \in Queues, NEW n \in Names, NEW kind \in {"assistant", "teacher"},
             NEW exact \in BOOLEAN, AddAdmin(p, q, n, kind, exact)
      PROVE  RolesReferToRows'
  <2>1. \/ UNCHANGED role
        \/ /\ q \in queues
           /\ \E x \in People : role[q][x] # "none" /\ role' = [role EXCEPT ![q][x] = "teacher"]
    BY <1>2 DEF AddAdmin
  <2>2. UNCHANGED <<username, supers, queues, tokens>>
    BY <1>2 DEF AddAdmin
  <2>3. ASSUME NEW x \in People, q \in queues, role[q][x] # "none",
               role' = [role EXCEPT ![q][x] = "teacher"]
        PROVE  RolesReferToRows'
    <3>1. username[x] # None
      BY <2>3 DEF RolesReferToRows
    <3>2. \A s \in Queues \ queues : role'[s] = role[s]
      BY <2>3 DEF TypeOK
    <3>3. \A s \in Queues : \A y \in People \ {x} : role'[s][y] = role[s][y]
      BY <2>3 DEF TypeOK
    <3>. QED  BY <2>2, <3>1, <3>2, <3>3 DEF RolesReferToRows, IsSuper, NoStaff
  <2>4. CASE UNCHANGED role
    BY <2>2, <2>4 DEF RolesReferToRows, IsSuper
  <2>. QED  BY <2>1, <2>3, <2>4
<1>3. ASSUME NEW q \in Queues, NEW n \in Names, NEW kind \in {"assistant", "teacher"},
             RemoveAdmin(p, q, n, kind)
      PROVE  RolesReferToRows'
  BY <1>3 DEF RemoveAdmin, RolesReferToRows, IsSuper, NoStaff, TypeOK
<1>4. ASSUME NEW q \in Queues, AddQueue(p, q) PROVE RolesReferToRows'
  BY <1>4 DEF AddQueue, RolesReferToRows, IsSuper
<1>5. ASSUME NEW q \in Queues, RemoveQueue(p, q) PROVE RolesReferToRows'
  BY <1>5 DEF RemoveQueue, RolesReferToRows, IsSuper, NoStaff, TypeOK
<1>6. ASSUME NEW q \in Queues, NEW new \in Queues, RenameQueue(p, q, new) PROVE RolesReferToRows'
  BY <1>6 DEF RenameQueue, RolesReferToRows, IsSuper, NoStaff, TypeOK
<1>. QED  BY <1>1, <1>2, <1>3, <1>4, <1>5, <1>6 DEF Handler

LEMMA GetOrCreateRoles ==
  ASSUME TypeOK, RolesReferToRows, GetOrCreate
  PROVE  RolesReferToRows'
<1>1. CASE SelectUser
  <2>1. ws.name \in Names
    BY <1>1, WsLooking DEF SelectUser, Looking
  <2>2. ASSUME NEW x \in People, username[x] = ws.name, Grant(x) PROVE RolesReferToRows'
    BY <1>1, <2>1, <2>2, GrantRoles, AccountsAssumption DEF SelectUser
  <2>3. CASE UNCHANGED staff
    BY <1>1, <2>3 DEF SelectUser, staff, RolesReferToRows, IsSuper
  <2>. QED  BY <1>1, <2>2, <2>3 DEF SelectUser
<1>2. CASE FetchUser
  BY <1>2 DEF FetchUser, staff, RolesReferToRows, IsSuper
<1>3. CASE InsertUser
  <2>1. ws.found \in People /\ ws.name \in Names
    BY <1>3 DEF InsertUser, TypeOK, Idle
  <2>2. CASE username' = [username EXCEPT ![ws.found] = ws.name] /\ Grant(ws.found)
    BY <1>3, <2>1, <2>2, GrantRoles, AccountsAssumption DEF InsertUser, TypeOK
  <2>3. CASE UNCHANGED <<username, staff>>
    BY <1>3, <2>3 DEF InsertUser, staff, RolesReferToRows, IsSuper
  <2>. QED  BY <1>3, <2>2, <2>3 DEF InsertUser
<1>. QED  BY <1>1, <1>2, <1>3 DEF GetOrCreate

LEMMA LoginRoles ==
  ASSUME TypeOK, RolesReferToRows, NEW l \in Logins, Login(l)
  PROVE  RolesReferToRows'
<1>1. UNCHANGED <<supers, queues, role>>
  BY DEF Login, LoginStart, LoginFind, LoginUpdate, LoginCreate, staff
<1>2. CASE UNCHANGED <<username, tokens>>
  BY <1>1, <1>2 DEF RolesReferToRows, IsSuper
<1>3. CASE LoggedIn(l) /\ login[l] # NoLogin
  <2>1. login[l].person \in People /\ login[l].name # None
    BY <1>3, AccountsAssumption DEF TypeOK
  <2>. QED  BY <1>1, <1>3, <2>1 DEF LoggedIn, RolesReferToRows, IsSuper, TypeOK
<1>. QED
  BY <1>2, <1>3 DEF Login, LoginStart, LoginFind, LoginUpdate, LoginCreate, NoLogin

LEMMA RolesStep == TypeOK /\ RolesReferToRows /\ [Next]_vars => RolesReferToRows'
<1>. SUFFICES ASSUME TypeOK, RolesReferToRows, [Next]_vars PROVE RolesReferToRows'
  OBVIOUS
<1>1. ASSUME NEW p \in People, Outside(p) PROVE RolesReferToRows'
  BY <1>1 DEF Outside, Expire, ChangeName, RolesReferToRows, staff, IsSuper
<1>2. ASSUME NEW p \in People, NEW n \in Names, RemoveSuperAdmin(p, n) PROVE RolesReferToRows'
  BY <1>2 DEF RemoveSuperAdmin, RolesReferToRows, IsSuper, TypeOK
<1>3. CASE UNCHANGED vars
  BY <1>3 DEF vars, staff, RolesReferToRows, IsSuper
<1>. QED
  BY <1>1, <1>2, <1>3, HandlerRoles, GetOrCreateRoles, LoginRoles DEF Next, NextButRemoval

\* Roles and tokens belong to stored users, and roles to queues that exist, however
\* adding staff is interleaved with logins and with the removal of queues.
THEOREM RolesReferToRowsCorrect == Spec => []RolesReferToRows
  BY InitType, TypeStep, InitRoles, RolesStep, PTL DEF Spec

-----------------------------------------------------------------------------
(* Authority comes from authority.                                         *)

LEMMA InitSender == Init => SenderInOffice
  BY DEF Init, SenderInOffice

LEMMA SenderStep == TypeOK /\ SenderInOffice /\ [Next]_vars => SenderInOffice'
<1>. SUFFICES ASSUME TypeOK, SenderInOffice, [Next]_vars PROVE SenderInOffice'
  OBVIOUS
<1>1. CASE ws' = Idle
  BY <1>1 DEF SenderInOffice
<1>2. CASE UNCHANGED staff /\ ws'.by = ws.by /\ ws'.kind = ws.kind /\ ws'.queue = ws.queue /\ ws # Idle
  BY <1>2 DEF SenderInOffice, staff, IsSuper, SuperOrTeacher, Teaches
<1>3. CASE UNCHANGED <<staff, ws>>
  BY <1>3 DEF SenderInOffice, staff, IsSuper, SuperOrTeacher, Teaches
<1>4. ASSUME NEW p \in People, Handler(p) PROVE SenderInOffice'
  <2>1. CASE ws' = ws
    BY <1>1, <1>4, <2>1 DEF Handler, AddSuperAdmin, AddAdmin, RemoveAdmin, AddQueue, RemoveQueue,
                            RenameQueue, Request
  <2>2. ASSUME NEW n \in Names, AddSuperAdmin(p, n) PROVE SenderInOffice'
    BY <2>2 DEF AddSuperAdmin, SenderInOffice, IsSuper, staff
  <2>3. ASSUME NEW q \in Queues, NEW n \in Names, NEW kind \in {"assistant", "teacher"},
               NEW exact \in BOOLEAN, AddAdmin(p, q, n, kind, exact), ws' # ws
        PROVE  SenderInOffice'
    BY <2>3 DEF AddAdmin, SenderInOffice, IsSuper, SuperOrTeacher, Teaches
  <2>. QED
    BY <1>4, <2>1, <2>2, <2>3 DEF Handler, RemoveAdmin, AddQueue, RemoveQueue, RenameQueue
<1>5. CASE GetOrCreate
  <2>1. CASE SelectUser \/ FetchUser
    <3>1. ws.step \in {"select", "fetch"}
      BY <2>1 DEF SelectUser, FetchUser
    <3>2. ws \in Looking /\ ws # Idle
      BY <3>1, WsLooking DEF Idle
    <3>3. \/ ws' = Idle
          \/ UNCHANGED staff /\ ws' = [ws EXCEPT !.step = "fetch"]
          \/ \E x \in People : UNCHANGED staff /\ ws' = [ws EXCEPT !.step = "insert", !.found = x]
      BY <2>1 DEF SelectUser, FetchUser, Grant
    <3>. QED  BY <1>1, <1>2, <3>2, <3>3 DEF Looking
  <2>2. CASE InsertUser
    BY <1>1, <2>2 DEF InsertUser, Grant
  <2>. QED  BY <1>5, <2>1, <2>2 DEF GetOrCreate
<1>6. ASSUME NEW l \in Logins, Login(l) PROVE SenderInOffice'
  BY <1>3, <1>6 DEF Login, LoginStart, LoginFind, LoginUpdate, LoginCreate
<1>7. ASSUME NEW p \in People, Outside(p) PROVE SenderInOffice'
  BY <1>3, <1>7 DEF Outside, Expire, ChangeName
<1>8. ASSUME NEW p \in People, NEW n \in Names, RemoveSuperAdmin(p, n) PROVE SenderInOffice'
  BY <1>1, <1>8 DEF RemoveSuperAdmin, Request
<1>9. CASE UNCHANGED vars
  BY <1>3, <1>9 DEF vars
<1>. QED  BY <1>4, <1>5, <1>6, <1>7, <1>8, <1>9 DEF Next, NextButRemoval

NewSuper == \E x \in People : ~IsSuper(x) /\ supers'[x] > 0
NewRole(q) == \E x \in People : role'[q][x] \notin {role[q][x], "none"}

LEMMA GrantAuthority ==
  ASSUME TypeOK, SenderInOffice, ws # Idle, ws.by \in People, NEW x \in People, Grant(x)
  PROVE  /\ NewSuper => \E p \in People : Asked(p) /\ IsSuper(p)
         /\ \A q \in queues : NewRole(q) => \E p \in People : Asked(p) /\ SuperOrTeacher(p, q)
<1>1. CASE ws.kind = "super"
  BY <1>1 DEF Grant, SenderInOffice, NewRole, NewSuper, Asked
<1>2. CASE ws.kind # "super"
  <2>1. UNCHANGED supers /\ \A q \in Queues : q # ws.queue => role'[q] = role[q]
    BY <1>2 DEF Grant, TypeOK
  <2>2. SuperOrTeacher(ws.by, ws.queue)
    BY <1>2 DEF SenderInOffice
  <2>. QED  BY <2>1, <2>2 DEF NewSuper, NewRole, IsSuper, TypeOK, Asked
<1>. QED  BY <1>1, <1>2

Authority ==
  /\ NewSuper => \E p \in People : Asked(p) /\ IsSuper(p)
  /\ \A q \in queues \cap queues' : NewRole(q) => \E p \in People : Asked(p) /\ SuperOrTeacher(p, q)

LEMMA AuthorityStep == TypeOK /\ SenderInOffice /\ [Next]_vars => Authority
<1>. SUFFICES ASSUME TypeOK, SenderInOffice, [Next]_vars PROVE Authority
  OBVIOUS
<1>1. CASE UNCHANGED <<supers, role>>
  BY <1>1 DEF Authority, NewSuper, NewRole, IsSuper
<1>2. ASSUME NEW p \in People, Handler(p) PROVE Authority
  <2>1. UNCHANGED supers
    BY <1>2 DEF Handler, AddSuperAdmin, AddAdmin, RemoveAdmin, AddQueue, RemoveQueue, RenameQueue, staff
  <2>2. ~NewSuper
    BY <2>1 DEF NewSuper, IsSuper
  <2>3. ASSUME NEW q \in Queues, NEW n \in Names, NEW kind \in {"assistant", "teacher"},
               NEW exact \in BOOLEAN, AddAdmin(p, q, n, kind, exact)
        PROVE  Authority
    <3>1. ws = Idle /\ SuperOrTeacher(p, q) /\ \A s \in Queues \ {q} : role'[s] = role[s]
      BY <2>3 DEF AddAdmin, Request, TypeOK
    <3>. QED  BY <2>2, <3>1 DEF Authority, NewRole, TypeOK, Asked
  <2>4. ASSUME NEW q \in Queues, NEW n \in Names, NEW kind \in {"assistant", "teacher"},
               RemoveAdmin(p, q, n, kind)
        PROVE  Authority
    <3>1. \A s \in Queues : \A x \in People : role'[s][x] \in {role[s][x], "none"}
      BY <2>4 DEF RemoveAdmin, TypeOK
    <3>. QED  BY <2>2, <3>1 DEF Authority, NewRole, TypeOK
  <2>5. ASSUME NEW q \in Queues, RemoveQueue(p, q) PROVE Authority
    <3>1. \A s \in Queues : \A x \in People : role'[s][x] \in {role[s][x], "none"}
      BY <2>5 DEF RemoveQueue, NoStaff, TypeOK
    <3>. QED  BY <2>2, <3>1 DEF Authority, NewRole, TypeOK
  <2>6. ASSUME NEW q \in Queues, NEW new \in Queues, RenameQueue(p, q, new) PROVE Authority
    <3>1. \A s \in queues \cap queues' : role'[s] = role[s]
      BY <2>6 DEF RenameQueue, TypeOK
    <3>. QED  BY <2>2, <3>1 DEF Authority, NewRole
  <2>. QED
    BY <1>1, <1>2, <2>1, <2>3, <2>4, <2>5, <2>6
       DEF Handler, AddSuperAdmin, AddQueue, staff
<1>3. CASE GetOrCreate
  <2>1. ws # Idle
    <3>1. ws.step \in {"select", "fetch", "insert"}
      BY <1>3 DEF GetOrCreate, SelectUser, FetchUser, InsertUser
    <3>. QED  BY <3>1 DEF Idle
  <2>2. ws.by \in People
    BY <2>1 DEF TypeOK
  <2>3. UNCHANGED staff \/ \E x \in People : Grant(x)
    <3>1. CASE InsertUser
      <4>1. ws.found \in People
        BY <3>1 DEF InsertUser, TypeOK, Idle
      <4>. QED  BY <3>1, <4>1 DEF InsertUser
    <3>. QED  BY <1>3, <3>1 DEF GetOrCreate, SelectUser, FetchUser
  <2>. QED  BY <1>1, <2>1, <2>2, <2>3, GrantAuthority DEF Authority, staff, TypeOK
<1>4. ASSUME NEW l \in Logins, Login(l) PROVE Authority
  BY <1>1, <1>4 DEF Login, LoginStart, LoginFind, LoginUpdate, LoginCreate, staff
<1>5. ASSUME NEW p \in People, Outside(p) PROVE Authority
  BY <1>1, <1>5 DEF Outside, Expire, ChangeName, staff
<1>6. ASSUME NEW p \in People, NEW n \in Names, RemoveSuperAdmin(p, n) PROVE Authority
  <2>1. ~NewSuper /\ UNCHANGED role
    BY <1>6 DEF RemoveSuperAdmin, NewSuper, IsSuper, TypeOK
  <2>. QED  BY <2>1 DEF Authority, NewRole
<1>7. CASE UNCHANGED vars
  BY <1>1, <1>7 DEF vars, staff
<1>. QED  BY <1>2, <1>3, <1>4, <1>5, <1>6, <1>7 DEF Next, NextButRemoval

\* Rights are only ever given for someone who has them at the step that gives them: no
\* handler runs between the check of a sender's level and the last INSERT, and what
\* does run meanwhile (logins, renamings, tokens that expire) takes no level away.
THEOREM AuthorityFromAuthorityCorrect == Spec => AuthorityFromAuthority
<1>1. TypeOK /\ SenderInOffice /\ [Next]_vars
        => [/\ (\E x \in People : ~IsSuper(x) /\ supers'[x] > 0) => \E p \in People : Asked(p) /\ IsSuper(p)
            /\ \A q \in queues \cap queues' : \A x \in People :
                 role'[q][x] \notin {role[q][x], "none"}
                   => \E p \in People : Asked(p) /\ SuperOrTeacher(p, q)]_vars
  BY AuthorityStep DEF Authority, NewSuper, NewRole
<1>. QED
  BY <1>1, InitType, InitSender, TypeStep, SenderStep, PTL DEF Spec, AuthorityFromAuthority

-----------------------------------------------------------------------------
(* Teachers stay teachers.                                                 *)

TeachersStay == \A q \in Queues : \A x \in People : Teaches(x, q) => role'[q][x] # "assistant"

LEMMA TeachersStep == TypeOK /\ RolesReferToRows /\ [Next]_vars => TeachersStay
<1>. SUFFICES ASSUME TypeOK, RolesReferToRows, [Next]_vars PROVE TeachersStay
  OBVIOUS
<1>1. CASE UNCHANGED role
  BY <1>1 DEF TeachersStay, Teaches
<1>2. ASSUME NEW p \in People, Handler(p) PROVE TeachersStay
  <2>1. ASSUME NEW q \in Queues, NEW n \in Names, NEW kind \in {"assistant", "teacher"},
               NEW exact \in BOOLEAN, AddAdmin(p, q, n, kind, exact)
        PROVE  TeachersStay
    BY <1>1, <2>1 DEF AddAdmin, TeachersStay, Teaches, TypeOK
  <2>2. ASSUME NEW q \in Queues, NEW n \in Names, NEW kind \in {"assistant", "teacher"},
               RemoveAdmin(p, q, n, kind)
        PROVE  TeachersStay
    BY <2>2 DEF RemoveAdmin, TeachersStay, Teaches, TypeOK
  <2>3. ASSUME NEW q \in Queues, RemoveQueue(p, q) PROVE TeachersStay
    BY <2>3 DEF RemoveQueue, NoStaff, TeachersStay, Teaches, TypeOK
  <2>4. ASSUME NEW q \in Queues, NEW new \in Queues, RenameQueue(p, q, new) PROVE TeachersStay
    <3>1. role[new] = NoStaff
      BY <2>4 DEF RenameQueue, RolesReferToRows
    <3>. QED  BY <2>4, <3>1 DEF RenameQueue, NoStaff, TeachersStay, Teaches, TypeOK
  <2>. QED
    BY <1>1, <1>2, <2>1, <2>2, <2>3, <2>4 DEF Handler, AddSuperAdmin, AddQueue, staff
<1>3. ASSUME NEW x \in People, Grant(x) PROVE TeachersStay
  BY <1>1, <1>3 DEF Grant, TeachersStay, Teaches, TypeOK
<1>4. CASE GetOrCreate
  <2>1. InsertUser => ws.found \in People
    BY DEF InsertUser, TypeOK, Idle
  <2>. QED
    BY <1>1, <1>3, <1>4, <2>1 DEF GetOrCreate, SelectUser, FetchUser, InsertUser, staff
<1>5. CASE ~GetOrCreate /\ ~(\E p \in People : Handler(p))
  BY <1>1, <1>5 DEF Next, NextButRemoval, Login, LoginStart, LoginFind, LoginUpdate, LoginCreate,
                    Outside, Expire, ChangeName, RemoveSuperAdmin, staff, vars
<1>. QED  BY <1>2, <1>4, <1>5

\* No request turns a teacher into an assistant: the row of admins a late INSERT meets
\* is left as it is, and a renamed queue brings its roles to a name that has none.
THEOREM TeachersNotDowngradedCorrect == Spec => TeachersNotDowngraded
<1>1. TypeOK /\ RolesReferToRows /\ [Next]_vars
        => [\A q \in Queues : \A x \in People : Teaches(x, q) => role'[q][x] # "assistant"]_vars
  BY TeachersStep DEF TeachersStay
<1>. QED
  BY <1>1, InitType, InitRoles, TypeStep, RolesStep, PTL DEF Spec, TeachersNotDowngraded

=============================================================================
