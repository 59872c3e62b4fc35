-------------------------- MODULE MCVotingRevoker ---------------------------
(* TLC instance of VotingRevoker: four stakeholders and an outsider.         *)
EXTENDS VotingRevoker

CONSTANTS a1, a2, a3, a4, outsider

FourStakeholders == <<a1, a2, a3, a4>>
=============================================================================
