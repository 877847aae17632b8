---------------------------- MODULE MCRoomHandler ----------------------------
(* Model values for RoomHandler: connections and queues are interchangeable. *)
EXTENDS RoomHandler, TLC

Symmetry == Permutations(Conns) \cup Permutations(Queues) \cup Permutations(Users)
=============================================================================
