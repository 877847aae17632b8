--------------------------- MODULE AdministratorList ---------------------------
(***************************************************************************)
(* The list of super administrators on the administration page, composed   *)
(* with Accounts.  The server removes any super administrator on request;  *)
(* that one remains is left to the page, which offers no removal while its *)
(* list has one row.  The list is loaded once and then follows the answers *)
(* to the client's own requests only.                                      *)
(*                                                                         *)
(* An answer is applied in the step that handles its request; a later one  *)
(* would only leave the list outdated for longer.                          *)
(***************************************************************************)
EXTENDS Accounts, FiniteSetsExt

VARIABLES
  shown,  \* per client: the number of rows with a username in its list
  asked   \* removeSuperAdmin requests sent and not yet handled

listVars == <<shown, asked>>

EmptyList == [n \in Names |-> 0]

\* What GET /api/superadmins answers: a row for every row of super_admins
Loaded ==
  [n \in Names |-> MapThenSumSet(LAMBDA x : supers[x], {x \in People : username[x] = n})]

ListInit ==
  /\ Init
  /\ shown = [p \in People |-> EmptyList]
  /\ asked = {}

LoadAdministrators(p) ==
  /\ p \in tokens
  /\ IsSuper(p)
  /\ shown' = [shown EXCEPT ![p] = Loaded]
  /\ UNCHANGED <<vars, asked>>

\* The red cross next to a name is there while the list has more than one row.
ClickCross(p, n) ==
  /\ shown[p][n] > 0
  /\ shown[p][n] > 1 \/ \E m \in Names \ {n} : shown[p][m] > 0
  /\ asked' = asked \cup {<<p, n>>}
  /\ UNCHANGED <<vars, shown>>

\* The server handles the request; its answer filters the list by username.
HandleRemoval(p, n) ==
  /\ <<p, n>> \in asked
  /\ ws = Idle
  /\ asked' = asked \ {<<p, n>>}
  /\ \/ RemoveSuperAdmin(p, n) /\ shown' = [shown EXCEPT ![p][n] = 0]
     \/ /\ ~(p \in tokens /\ IsSuper(p) /\ \E x \in People : username[x] = n)
        /\ UNCHANGED <<vars, shown>>

\* Any other step of the server; the answer to addSuperAdmin appends a row.
OtherStep ==
  /\ NextButRemoval
  /\ shown' = IF ws.kind = "super" /\ supers' # supers
              THEN [shown EXCEPT ![ws.by][ws.name] = @ + 1]
              ELSE shown
  /\ UNCHANGED asked

ListNext ==
  \/ \E p \in People : LoadAdministrators(p)
  \/ \E p \in People : \E n \in Names : ClickCross(p, n) \/ HandleRemoval(p, n)
  \/ OtherStep

ListSpec == ListInit /\ [][ListNext]_<<vars, listVars>>

-----------------------------------------------------------------------------

\* "It is therefore not possible to remove an administrator if it is the last one
\* remaining."
LastAdministratorStays == \E p \in People : IsSuper(p)
=============================================================================
