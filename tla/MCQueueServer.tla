---------------------------- MODULE MCQueueServer ----------------------------
(* Model values for QueueServer: users are interchangeable. *)
EXTENDS QueueServer, TLC

Symmetry == Permutations(Users)
=============================================================================
