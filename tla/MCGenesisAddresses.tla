-------------------------- MODULE MCGenesisAddresses --------------------------
(* What the contracts do with a message is not in the repository.  Suppose  *)
(* that two binaries also take the message of the one stored after them: a  *)
(* contract that is executed later, and one whose message holds every field *)
(* of the other's.                                                          *)
EXTENDS GenesisAddresses

MCAlsoTakes == {<<"INVESTORS_VAULT", "VESTING_INVESTORS">>,
                <<"DISTRIBUTION", "RESERVE">>}
===============================================================================
