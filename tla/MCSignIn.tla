---- MODULE MCSignIn ----
(* Instances of SignIn for TLC.                                            *)
EXTENDS SignIn, TLC

Symm == Permutations(Tasks) \cup Permutations(Tabs) \cup Permutations(Passwords \ Weak)
====
