---- MODULE ContactBook ----
(***************************************************************************)
(* What the contact handshake promises: a user asks, the other agrees or   *)
(* declines, and an agreement puts each into the other's contacts in one   *)
(* step.  An agreement may come to nothing (the statement that saves it    *)
(* fails); it is settled either way, and no other step adds a contact.     *)
(***************************************************************************)
CONSTANT Requests   \* records with the fields from and to

VARIABLES
    stage,  \* per request: unasked, open, agreed or closed
    book    \* pairs <<owner, contact>>

Init ==
    /\ stage = [r \in Requests |-> "unasked"]
    /\ book = {}

Move(r, old, new) ==
    /\ stage[r] = old
    /\ stage' = [stage EXCEPT ![r] = new]

Ask(r) == Move(r, "unasked", "open") /\ UNCHANGED book

Agree(r) == Move(r, "open", "agreed") /\ UNCHANGED book

Decline(r) == Move(r, "open", "closed") /\ UNCHANGED book

Save(r) ==
    /\ Move(r, "agreed", "closed")
    /\ book' = book \cup {<<r.from, r.to>>, <<r.to, r.from>>}

Lose(r) == Move(r, "agreed", "closed") /\ UNCHANGED book

Remove(p) ==
    /\ p \in book
    /\ book' = book \ {p}
    /\ UNCHANGED stage

Next ==
    \/ \E r \in Requests : Ask(r) \/ Agree(r) \/ Decline(r) \/ Save(r) \/ Lose(r)
    \/ \E p \in book : Remove(p)

Settled == \A r \in Requests : WF_<<stage, book>>(Save(r) \/ Lose(r))

SafeSpec == Init /\ [][Next]_<<stage, book>>

Spec == SafeSpec /\ Settled
====
