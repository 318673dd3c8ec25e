---- MODULE MCCalls ----
(* Instances of Calls for TLC: a caller with one tab, a callee with two.   *)
EXTENDS Calls

CONSTANTS alice, bob, a1, b1, b2

MCUserOf == [s \in Sockets |-> IF s = a1 THEN alice ELSE bob]

MCDials == {<<a1, bob>>}

MCDialsBoth == {<<a1, bob>>, <<b1, alice>>}

Symm == Permutations(CallIds) \cup Permutations(Tasks)
====
