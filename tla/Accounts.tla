------------------------------- MODULE Accounts -------------------------------
(***************************************************************************)
(* Who may do what: the tables users, admins and super_admins, the         *)
(* requests that change them, the authorisation of src/src/auth.rs, and    *)
(* logins, which write users on HTTP threads of their own.                 *)
(*                                                                         *)
(* A person is a ugkthid.  Rows of users are never deleted and             *)
(* UNIQUE(ugkthid), so the id of a row stands for its person; a username   *)
(* is what LDAP calls the person at the time and may change.  The web      *)
(* socket thread alone writes admins and super_admins, so its statements   *)
(* on these are joined to the one before; what separates steps is that     *)
(* users changes under the other threads.                                  *)
(***************************************************************************)
EXTENDS Naturals

CONSTANTS
  People,    \* ugkthids
  Names,     \* usernames
  Queues,    \* names of queues
  Logins,    \* threads that handle logins
  None,      \* no row
  MaxSupers  \* bound: rows of super_admins for one user

ASSUME AccountsAssumption ==
  /\ None \notin Names \cup People
  /\ MaxSupers \in Nat \ {0}

VARIABLES
  ldap,      \* the username LDAP has for a person
  held,      \* usernames a person has had so far
  username,  \* column of users; None if the person has no row
  supers,    \* number of rows of super_admins of a user
  queues,    \* names of the rows of queues
  role,      \* admins: per queue and user "none", "assistant" or "teacher"
  tokens,    \* people who hold a valid token
  ws,        \* the handler of addTeacher, addAssistant or addSuperAdmin under way
  login      \* per thread: the login under way

staff == <<supers, queues, role>>
vars == <<ldap, held, username, staff, tokens, ws, login>>

Idle == [step |-> "idle", by |-> None, kind |-> None, queue |-> None, name |-> None, found |-> None]
NoLogin == [step |-> "idle", person |-> None, name |-> None]

Kinds == {"assistant", "teacher", "super"}

TypeOK ==
  /\ ldap \in [People -> Names]
  /\ held \in [People -> SUBSET Names]
  /\ username \in [People -> Names \cup {None}]
  /\ supers \in [People -> 0 .. MaxSupers]
  /\ queues \subseteq Queues
  /\ role \in [Queues -> [People -> {"none", "assistant", "teacher"}]]
  /\ tokens \subseteq People
  /\ \/ ws = Idle
     \/ ws \in [step : {"select", "fetch"}, by : People, kind : Kinds, queue : Queues \cup {None},
                name : Names, found : {None}]
     \/ ws \in [step : {"insert"}, by : People, kind : Kinds, queue : Queues \cup {None},
                name : Names, found : People]
  /\ \A l \in Logins : \/ login[l] = NoLogin
                       \/ login[l] \in [step : {"find", "update", "create"}, person : People, name : Names]
  /\ DOMAIN login = Logins

\* The installation: a first super administrator, put into the tables by hand
Init ==
  /\ ldap \in {f \in [People -> Names] : \A p, r \in People : f[p] = f[r] => p = r}
  /\ held = [p \in People |-> {ldap[p]}]
  /\ \E p \in People :
       /\ username = [r \in People |-> IF r = p THEN ldap[p] ELSE None]
       /\ supers = [r \in People |-> IF r = p THEN 1 ELSE 0]
  /\ queues = {}
  /\ role = [q \in Queues |-> [p \in People |-> "none"]]
  /\ tokens = {}
  /\ ws = Idle
  /\ login = [l \in Logins |-> NoLogin]

-----------------------------------------------------------------------------
(* Authorisation, looked up in the tables at every request.                *)

IsSuper(p) == supers[p] > 0
Teaches(p, q) == role[q][p] = "teacher"

SuperOrTeacher(p, q) == IsSuper(p) \/ Teaches(p, q)

\* The next request is taken up when the handler before has returned.
Request(p) == p \in tokens /\ ws = Idle

-----------------------------------------------------------------------------
(* addTeacher, addAssistant, addSuperAdmin.                                *)

\* Mutant: addTeacher and addAssistant at level Assistant
AddAdminByStaff(p, q, n, kind, exact) ==
  /\ Request(p)
  /\ SuperOrTeacher(p, q) \/ role[q][p] = "assistant"
  /\ ws' = [step |-> "select", by |-> p, kind |-> kind, queue |-> q, name |-> n, found |-> None]
  /\ UNCHANGED <<ldap, held, username, staff, tokens, login>>

\* find_by_name compares as the name is spelled, get_or_create in lower case:
\* `exact` says whether the sender wrote the name in lower case.
AddAdmin(p, q, n, kind, exact) ==
  /\ Request(p)
  /\ SuperOrTeacher(p, q)
  /\ IF exact /\ q \in queues /\ \E x \in People : username[x] = n /\ role[q][x] # "none"
     THEN /\ \E x \in People :
               /\ username[x] = n /\ role[q][x] # "none"
               /\ role' = IF kind = "teacher" THEN [role EXCEPT ![q][x] = "teacher"] ELSE role
          /\ UNCHANGED ws
     ELSE /\ ws' = [step |-> "select", by |-> p, kind |-> kind, queue |-> q, name |-> n, found |-> None]
          /\ UNCHANGED role
  /\ UNCHANGED <<ldap, held, username, supers, queues, tokens, login>>

AddSuperAdmin(p, n) ==
  /\ Request(p)
  /\ IsSuper(p)
  /\ ws' = [step |-> "select", by |-> p, kind |-> "super", queue |-> None, name |-> n, found |-> None]
  /\ UNCHANGED <<ldap, held, username, staff, tokens, login>>

\* Mutant: INSERT .. ON CONFLICT (user_id, queue_id) DO UPDATE
GrantUpsert(x) ==
  /\ IF ws.kind = "super"
     THEN /\ supers[x] < MaxSupers
          /\ supers' = [supers EXCEPT ![x] = @ + 1]
          /\ UNCHANGED role
     ELSE /\ role' = IF ws.queue \in queues THEN [role EXCEPT ![ws.queue][x] = ws.kind] ELSE role
          /\ UNCHANGED supers
  /\ ws' = Idle
  /\ UNCHANGED queues

\* The last INSERT of the handler, for the user x.  admins is UNIQUE(user, queue);
\* super_admins has no such constraint.
Grant(x) ==
  /\ IF ws.kind = "super"
     THEN /\ supers[x] < MaxSupers
          /\ supers' = [supers EXCEPT ![x] = @ + 1]
          /\ UNCHANGED role
     ELSE /\ role' = IF ws.queue \in queues /\ role[ws.queue][x] = "none"
                     THEN [role EXCEPT ![ws.queue][x] = ws.kind]
                     ELSE role
          /\ UNCHANGED supers
  /\ ws' = Idle
  /\ UNCHANGED queues

\* get_or_create: a row with the username, ...
SelectUser ==
  /\ ws.step = "select"
  /\ IF \E x \in People : username[x] = ws.name
     THEN \E x \in People : username[x] = ws.name /\ Grant(x)
     ELSE ws' = [ws EXCEPT !.step = "fetch"] /\ UNCHANGED staff
  /\ UNCHANGED <<ldap, held, username, tokens, login>>

\* Mutant: LDAP finds more than the one entry, and any of them is taken
FetchUserAny ==
  /\ ws.step = "fetch"
  /\ \E x \in People : ws' = [ws EXCEPT !.step = "insert", !.found = x]
  /\ UNCHANGED <<ldap, held, username, staff, tokens, login>>

\* ... else what LDAP knows of it, if it does and answers, ...
FetchUser ==
  /\ ws.step = "fetch"
  /\ \/ \E x \in People :
          /\ ldap[x] = ws.name
          /\ ws' = [ws EXCEPT !.step = "insert", !.found = x]
     \/ ws' = Idle
  /\ UNCHANGED <<ldap, held, username, staff, tokens, login>>

\* Mutant: after the error the handler starts over, with LDAP's answer still there
InsertUserRetry ==
  /\ ws.step = "insert"
  /\ IF username[ws.found] = None
     THEN username' = [username EXCEPT ![ws.found] = ws.name] /\ Grant(ws.found)
     ELSE ws' = [ws EXCEPT !.step = "select"] /\ UNCHANGED <<username, staff>>
  /\ UNCHANGED <<ldap, held, tokens, login>>

\* ... as a new row, unless the person has one by now (users_ugkthid_key).
InsertUser ==
  /\ ws.step = "insert"
  /\ IF username[ws.found] = None
     THEN username' = [username EXCEPT ![ws.found] = ws.name] /\ Grant(ws.found)
     ELSE ws' = Idle /\ UNCHANGED <<username, staff>>
  /\ UNCHANGED <<ldap, held, tokens, login>>

-----------------------------------------------------------------------------
(* Removals.                                                               *)

RemoveAdmin(p, q, n, kind) ==
  /\ Request(p)
  /\ SuperOrTeacher(p, q)
  /\ q \in queues
  /\ \E x \in People :
       /\ username[x] = n
       /\ role' = IF role[q][x] = kind THEN [role EXCEPT ![q][x] = "none"] ELSE role
  /\ UNCHANGED <<ldap, held, username, supers, queues, tokens, ws, login>>

\* One DELETE takes all rows of the user.
RemoveSuperAdmin(p, n) ==
  /\ Request(p)
  /\ IsSuper(p)
  /\ \E x \in People : username[x] = n /\ supers' = [supers EXCEPT ![x] = 0]
  /\ UNCHANGED <<ldap, held, username, queues, role, tokens, ws, login>>

-----------------------------------------------------------------------------
(* Queues, as far as roles depend on them.                                 *)

AddQueue(p, q) ==
  /\ Request(p)
  /\ IsSuper(p)
  /\ q \notin queues
  /\ queues' = queues \cup {q}
  /\ UNCHANGED <<ldap, held, username, supers, role, tokens, ws, login>>

NoStaff == [x \in People |-> "none"]

\* Mutant: admins without ON DELETE CASCADE
RemoveQueueRow(p, q) ==
  /\ Request(p)
  /\ SuperOrTeacher(p, q)
  /\ q \in queues
  /\ queues' = queues \ {q}
  /\ UNCHANGED <<ldap, held, username, supers, role, tokens, ws, login>>

\* ON DELETE CASCADE takes the rows of admins along.
RemoveQueue(p, q) ==
  /\ Request(p)
  /\ SuperOrTeacher(p, q)
  /\ q \in queues
  /\ queues' = queues \ {q}
  /\ role' = [role EXCEPT ![q] = NoStaff]
  /\ UNCHANGED <<ldap, held, username, supers, tokens, ws, login>>

\* The row, and with it the rows of admins, stays and gets another name.
RenameQueue(p, q, new) ==
  /\ Request(p)
  /\ IsSuper(p)
  /\ q \in queues /\ new \notin queues
  /\ queues' = (queues \ {q}) \cup {new}
  /\ role' = [role EXCEPT ![q] = NoStaff, ![new] = role[q]]
  /\ UNCHANGED <<ldap, held, username, supers, tokens, ws, login>>

-----------------------------------------------------------------------------
(* Logins, on HTTP threads.                                                *)

\* The identity provider has said who it is, with the username of the moment.
LoginStart(l, p) ==
  /\ login[l] = NoLogin
  /\ login' = [login EXCEPT ![l] = [step |-> "find", person |-> p, name |-> ldap[p]]]
  /\ UNCHANGED <<ldap, held, username, staff, tokens, ws>>

LoginFind(l) ==
  /\ login[l].step = "find"
  /\ login' = [login EXCEPT ![l].step = IF username[login[l].person] = None THEN "create" ELSE "update"]
  /\ UNCHANGED <<ldap, held, username, staff, tokens, ws>>

LoggedIn(l) ==
  /\ username' = [username EXCEPT ![login[l].person] = login[l].name]
  /\ tokens' = tokens \cup {login[l].person}

LoginUpdate(l) ==
  /\ login[l].step = "update"
  /\ LoggedIn(l)
  /\ login' = [login EXCEPT ![l] = NoLogin]
  /\ UNCHANGED <<ldap, held, staff, ws>>

\* The row may have been made in the meantime, and the login fails.
LoginCreate(l) ==
  /\ login[l].step = "create"
  /\ IF username[login[l].person] = None THEN LoggedIn(l) ELSE UNCHANGED <<username, tokens>>
  /\ login' = [login EXCEPT ![l] = NoLogin]
  /\ UNCHANGED <<ldap, held, staff, ws>>

\* A token expires after 60 days.
Expire(p) ==
  /\ p \in tokens
  /\ tokens' = tokens \ {p}
  /\ UNCHANGED <<ldap, held, username, staff, ws, login>>

\* LDAP gives a person a new username, one that nobody has had before.
ChangeName(p, n) ==
  /\ \A x \in People : n \notin held[x]
  /\ ldap' = [ldap EXCEPT ![p] = n]
  /\ held' = [held EXCEPT ![p] = @ \cup {n}]
  /\ UNCHANGED <<username, staff, tokens, ws, login>>

-----------------------------------------------------------------------------
Handler(p) ==
  \/ \E n \in Names : AddSuperAdmin(p, n)
  \/ \E q \in Queues :
       \/ \E n \in Names, kind \in {"assistant", "teacher"} :
            \/ \E exact \in BOOLEAN : AddAdmin(p, q, n, kind, exact)
            \/ RemoveAdmin(p, q, n, kind)
       \/ AddQueue(p, q)
       \/ RemoveQueue(p, q)
       \/ \E new \in Queues : RenameQueue(p, q, new)

GetOrCreate == SelectUser \/ FetchUser \/ InsertUser

Login(l) == (\E p \in People : LoginStart(l, p)) \/ LoginFind(l) \/ LoginUpdate(l) \/ LoginCreate(l)

Outside(p) == Expire(p) \/ \E n \in Names : ChangeName(p, n)

\* Everything but removeSuperAdmin
NextButRemoval ==
  \/ \E p \in People : Handler(p) \/ Outside(p)
  \/ GetOrCreate
  \/ \E l \in Logins : Login(l)

Next == NextButRemoval \/ \E p \in People : \E n \in Names : RemoveSuperAdmin(p, n)

Spec == Init /\ [][Next]_vars

-----------------------------------------------------------------------------
(* Properties.                                                             *)

\* A stored username is one its person has had, and no two people are stored under
\* the same, so that a request that names a user means that user: although users has
\* no UNIQUE(username), and a row is written from what LDAP said several steps ago by
\* whichever thread is first.
RightPerson ==
  /\ \A p \in People : username[p] = None \/ username[p] \in held[p]
  /\ \A p, r \in People : username[p] = username[r] /\ username[p] # None => p = r

\* Roles and tokens belong to stored users, roles to queues that exist: a queue that
\* is removed while staff is being added, or added again later, has no old staff.
RolesReferToRows ==
  /\ \A p \in People :
       username[p] = None => ~IsSuper(p) /\ p \notin tokens /\ \A q \in Queues : role[q][p] = "none"
  /\ \A q \in Queues \ queues : role[q] = NoStaff

\* Whoever can have asked for what is being done
Asked(p) == ws = Idle \/ ws.by = p

\* Nobody's rights come from nowhere: when someone becomes super administrator, the one
\* who asked for it is super administrator at that very step, and when someone becomes
\* teacher or assistant of a queue, the one who asked is super administrator or a
\* teacher of the queue, although the handler checked this several statements before.
AuthorityFromAuthority ==
  [][/\ (\E x \in People : ~IsSuper(x) /\ supers'[x] > 0) => \E p \in People : Asked(p) /\ IsSuper(p)
     /\ \A q \in queues \cap queues' : \A x \in People :
          role'[q][x] \notin {role[q][x], "none"}
            => \E p \in People : Asked(p) /\ SuperOrTeacher(p, q)]_vars

\* A teacher is never turned into an assistant, whichever way the name is spelled
\* and whoever is being added meanwhile.
TeachersNotDowngraded ==
  [][\A q \in Queues : \A x \in People : Teaches(x, q) => role'[q][x] # "assistant"]_vars
=============================================================================
