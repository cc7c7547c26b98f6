---------------------------- MODULE MCPitchBatch ----------------------------
(* One user, one campaign of three leads, and two selection requests that   *)
(* race for the leads and for the credits of one free grant.                *)
EXTENDS PitchBatch, TLC

CONSTANTS u1, c1, free1, Slots, Credits

MCGrantUser == free1 :> u1
MCGrantType == free1 :> "FREE_GRANT"
MCGrantAmount == free1 :> Credits
MCCampaignUser == c1 :> u1
MCPipelineCampaign == [p \in Pipeline |-> c1]
MCTargetCount == c1 :> Slots

Symmetry == Permutations(Pipeline) \cup Permutations(Batch)
=============================================================================
