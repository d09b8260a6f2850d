------------------------------- MODULE Voucher -------------------------------
(***************************************************************************)
(* What a one-time credential promises: it is taken by one attempt at      *)
(* most, pays out once at most, and comes back from neither.  An           *)
(* authorization code and an MFA login ticket both implement it.           *)
(***************************************************************************)
CONSTANT Item

VARIABLE state

vars == <<state>>

Init == state = [i \in Item |-> "new"]

Move(i, from, to) ==
    /\ state[i] = from
    /\ state' = [state EXCEPT ![i] = to]

Issue(i) == Move(i, "new", "open")

Take(i) == Move(i, "open", "taken")

(* It lapses, or is spent on an attempt it does not fit.                   *)
Waste(i) == Move(i, "open", "void")

Pay(i) == Move(i, "taken", "paid")

(* The attempt is refused or fails: the item is not given back.            *)
Forfeit(i) == Move(i, "taken", "void")

Next == \E i \in Item : Issue(i) \/ Take(i) \/ Waste(i) \/ Pay(i) \/ Forfeit(i)

Spec == Init /\ [][Next]_vars

(* Once paid or void, an item stays so.                                    *)
Final == [][\A i \in Item : state[i] \in {"paid", "void"} => state'[i] = state[i]]_state

=============================================================================
