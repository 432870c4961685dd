-------------------------- MODULE MCCampaignLedger --------------------------
(* Instances of CampaignLedger for TLC. *)
EXTENDS CampaignLedger, TLC

CONSTANTS o1, o2, r1, r2

\* A Campaign asks in one of the two ways, so both may share their operations.
MCSlots == {o1, o2}
MCAttempts == {o1, o2}
MCRuns == <<r1, r2>>
Symmetry == Permutations(MCSlots)
=============================================================================
