----------------------------- MODULE MCAccounts -----------------------------
(* Model values for Accounts: people, usernames, queues and threads are       *)
(* interchangeable.                                                           *)
EXTENDS Accounts, TLC

Symmetry == Permutations(People) \cup Permutations(Names)
              \cup Permutations(Queues) \cup Permutations(Logins)
=============================================================================
