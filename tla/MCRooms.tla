---- MODULE MCRooms ----
(* Instances of Rooms for TLC. *)
EXTENDS Rooms, TLC

Symmetry == Permutations(Sockets) \cup Permutations(Tasks) \cup Permutations(Transports)
            \cup Permutations(RoomIds)
====
