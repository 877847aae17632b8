----------------------------- MODULE DialogQueue ------------------------------
(***************************************************************************)
(* What the dialogs of a tab promise: they wait in line, the first one is  *)
(* shown, and one leaves the line only when the user has closed it.        *)
(***************************************************************************)
EXTENDS Sequences

CONSTANT Modals

VARIABLE waiting

Init == waiting = <<>>

Open == \E d \in Modals : waiting' = Append(waiting, d)

Close == waiting # <<>> /\ waiting' = Tail(waiting)

Next == Open \/ Close

Spec == Init /\ [][Next]_waiting
=============================================================================
