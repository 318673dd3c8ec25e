---- MODULE MCDial ----
(* Instances of Dial for TLC: alice calls bob.                             *)
EXTENDS Dial

CONSTANTS alice, bob

MCSockets == Users \X (1 .. MaxPages)

MCUserOf == [s \in Sockets |-> s[1]]

MCDials == {<<s, bob>> : s \in {alice} \X (1 .. MaxPages)}
====
