------------------------------ MODULE MCLiveView ------------------------------
EXTENDS LiveView

\* Users are told apart by nothing but their entries.
Symmetry == Permutations(Users)

\* All but two observations of ClientSocket, missed and fresh, which decide neither a step
\* nor a property about the list
View == <<page, requestStatus, gets, timers, joins, connectionEstablished, disconnected,
          pendingRequests, link, up, server, breaks, clicked, queue, view, down, loads, loadCount>>
=============================================================================
