---- MODULE MCContacts ----
(* Instances of Contacts for TLC.                                          *)
EXTENDS Contacts, TLC

Symm == Permutations(Tasks) \cup Permutations(Tabs) \cup Permutations(Users)
====
