----------------------------- MODULE Revocation -----------------------------
(***************************************************************************)
(* What every revoker contract promises: a target is revoked and announced *)
(* in one step, once, and for good.                                        *)
(***************************************************************************)
EXTENDS Sequences

VARIABLES revoked, announced

Init == revoked = {} /\ announced = <<>>

Revoke ==
    \E k \in revoked' \ revoked :
        /\ revoked' = revoked \cup {k}
        /\ announced' = Append(announced, k)

Spec == Init /\ [][Revoke]_<<revoked, announced>>
=============================================================================
