---- MODULE MCChat ----
(* Instances of Chat for TLC.                                              *)
EXTENDS Chat, TLC

Symm == Permutations(Clients) \cup Permutations(Tasks)
====
