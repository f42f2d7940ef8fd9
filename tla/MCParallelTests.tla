---------------------------- MODULE MCParallelTests ----------------------------
(* Two files with slices of two wallets; the list ends inside the second     *)
(* slice, and the second file also broadcasts without waiting.  Transactions *)
(* are signed on Neutron only: the networks share no state but the files.    *)
EXTENDS ParallelTests

MCDirListing == <<"governance.test.ts", "subdao.test.ts">>
MCSuiteFile == {"governance.test.ts", "subdao.test.ts"}
MCSyncFile == {"subdao.test.ts"}
MCNetwork == {"neutron", "cosmos"}
MCMaxSequence == [n \in MCNetwork |-> IF n = "neutron" THEN 2 ELSE 0]
===============================================================================
