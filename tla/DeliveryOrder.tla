----------------------------- MODULE DeliveryOrder -----------------------------
(***************************************************************************)
(* What the delivery of a ChangeSet promises to somebody who looks at      *)
(* GitHub only: changes are put in place upstream first and are taken away *)
(* downstream first, so that no change is ever in place without those it   *)
(* depends on.  Module DeliveryLoop implements it.                         *)
(***************************************************************************)
CONSTANTS Repos, Deps

VARIABLE phase      \* what has become of each repository's change

Phase == {"unpublished", "proposed", "withdrawn", "in_place", "reverted"}

Become(r, p) == phase' = [phase EXCEPT ![r] = p]

Init == phase = [r \in Repos |-> "unpublished"]

Propose(r)  == phase[r] = "unpublished" /\ Become(r, "proposed")
Withdraw(r) == phase[r] = "proposed" /\ Become(r, "withdrawn")

Merge(r) ==
    /\ phase[r] = "proposed"
    /\ \A d \in Deps[r] : phase[d] = "in_place"
    /\ Become(r, "in_place")

Revert(r) ==
    /\ phase[r] = "in_place"
    /\ \A q \in Repos : r \in Deps[q] => phase[q] # "in_place"
    /\ Become(r, "reverted")

Next == \E r \in Repos : Propose(r) \/ Withdraw(r) \/ Merge(r) \/ Revert(r)

Spec == Init /\ [][Next]_phase
=============================================================================
