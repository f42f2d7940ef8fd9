-------------------------- MODULE MCDownloadArtifacts --------------------------
(* Two repositories, the second of which has a file named like one of the   *)
(* first.                                                                    *)
EXTENDS DownloadArtifacts

MCRepos == <<"neutron-dao", "neutron-dev-contracts">>
MCContracts == [r \in Repo |->
  IF r = "neutron-dao" THEN {"cwd_core.wasm", "reflect.wasm"}
                       ELSE {"reflect.wasm", "ibc_transfer.wasm"}]
===============================================================================
