---- MODULE MCMatchmaking ----
(* Instances of Matchmaking for TLC.                                       *)
EXTENDS Matchmaking

CONSTANT Eager   \* the sockets whose client may send match:join-queue twice

MCMaxJoins == [s \in Sockets |-> IF s \in Eager THEN 2 ELSE 1]

Symm == Permutations(Sockets) \cup Permutations(Tasks)
====
