------------------------- MODULE MCSlashingSimulation -------------------------
(* Shares of the alternative validator on both sides of 2/3, of 0.68 and of *)
(* the 0.66 below which the delegation is too small, out of 1000 tokens.    *)
(* The calls of staking-rewards.test.ts and staking-tracker.test.ts, and    *)
(* the one that would be enough for the second.                             *)
EXTENDS SlashingSimulation

MCStakes == {<<s, 1000 - s>> : s \in {400, 659, 660, 661, 666, 667, 679, 680, 909}}
MCStakesAboveTheEdge == {<<s, 1000 - s>> : s \in {661, 666}}
MCCalls == {<<12, 5>>, <<16, 15>>, <<17, 15>>}
MCCallOfRewards == {<<12, 5>>}
MCCallOfTracker == {<<16, 15>>}
===============================================================================
