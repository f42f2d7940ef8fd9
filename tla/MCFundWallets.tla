----------------------------- MODULE MCFundWallets -----------------------------
(* The three Neutron calls and the Gaia call; 1000 mnemonics are one unit    *)
(* per address, 2 units on Neutron.  Genesis: 10^15 untrn and 10^14 of each  *)
(* IBC denom (setup/scripts/2_init_genesis.sh:41) are 100 and 10 units.      *)
EXTENDS FundWallets

MCCall == <<
  [chain |-> "neutron", denom |-> "untrn", units |-> 2],
  [chain |-> "neutron", denom |-> "uibcatom", units |-> 2],
  [chain |-> "neutron", denom |-> "uibcusdc", units |-> 2],
  [chain |-> "gaia", denom |-> "uatom", units |-> 1] >>

MCGenesis == [d \in Denom |-> IF d = "untrn" THEN 100 ELSE 10]
===============================================================================
