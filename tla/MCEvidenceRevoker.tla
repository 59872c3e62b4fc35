------------------------- MODULE MCEvidenceRevoker --------------------------
(* TLC instance of EvidenceRevoker.  Two certificates of the report key, with *)
(* a gap between them; the second outlives the root, and a third, which the   *)
(* root did not sign, spans the gap.  The key ring of server S1 holds the key *)
(* of S2 as well, whose own certificate is not attested.                      *)
EXTENDS EvidenceRevoker, TLC

Early == [key |-> "R", from |-> 1, to |-> 2, signed |-> TRUE]
Late == [key |-> "R", from |-> 3, to |-> 5, signed |-> TRUE]
Unsigned == [key |-> "R", from |-> 1, to |-> 5, signed |-> FALSE]
Reports == {Early, Late, Unsigned}

Servers ==
    {[key |-> "S1", report |-> Early, attested |-> TRUE, keyRing |-> {"S1", "S2"}],
     [key |-> "S2", report |-> Late, attested |-> FALSE, keyRing |-> {"S2"}],
     [key |-> "S2", report |-> Late, attested |-> TRUE, keyRing |-> {"S1"}]}

Apps ==
    {[key |-> "k1", target |-> "A", issuer |-> "S1"],
     [key |-> "k2", target |-> "A", issuer |-> "S2"],
     [key |-> "k1", target |-> "B", issuer |-> "S2"]}

Symmetry == Permutations(EventId) \cup Permutations(Content)
=============================================================================
