---- MODULE MCSessions ----
(* Instances of Sessions for TLC: all sessions belong to one user.         *)
EXTENDS Sessions

CONSTANT alice

MCUserOf == [s \in SessionIds |-> alice]
====
