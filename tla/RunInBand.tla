------------------------------- MODULE RunInBand -------------------------------
(***************************************************************************)
(* Test files, one of which is chosen at the start; what the others work on *)
(* stays as it is.  Those that package.json runs in band have a vitest      *)
(* process and containers of their own; of the files that run in parallel   *)
(* to a DAO's, Daos has what they upload.                                   *)
(***************************************************************************)
EXTENDS KvQueries, InterchainTx, TxQueries, StakingTracker, Daos

(* interchain_kv_query has no list of steps. *)
KvFiles == [kv_queries |-> <<>>]
Files == Over(KvFiles, Over(IcaFiles, Over(TxFiles, Over(TrackerFiles, DaoFiles))))

icaOnly == <<handVars, neutronVars, mock, paused, undone, hermesVars, delegated>>
txOnly == <<lag, registeredAt, handledAt, transfers, mocked, looksLeft, lookedAt>>
trackerOnly == <<chainVars, awaiting, noted, seen, infos>>
daoOnly == <<codeIds, readParams, stale, chainDaoVars>>
allVars == <<vars, scriptVars, icaOnly, txOnly, trackerOnly, daoOnly>>

RunInit ==
  /\ ScriptInit(Files)
  /\ Init /\ IcaInit /\ TxInit /\ TrackerInit /\ DaoInit
  /\ file \notin DOMAIN TxFiles => lag = 0

RunNext ==
  \/ file \in DOMAIN KvFiles /\ Next
       /\ UNCHANGED <<scriptVars, icaOnly, txOnly, trackerOnly, daoOnly>>
  \/ file \in DOMAIN IcaFiles /\ IcaNext /\ UNCHANGED <<vars, txOnly, trackerOnly, daoOnly>>
  \/ file \in DOMAIN TxFiles /\ TxNext /\ UNCHANGED <<vars, icaOnly, trackerOnly, daoOnly>>
  \/ file \in DOMAIN TrackerFiles /\ TrackerNext /\ UNCHANGED <<vars, icaOnly, txOnly, daoOnly>>
  \/ file \in DOMAIN DaoFiles /\ DaoNext /\ UNCHANGED <<vars, icaOnly, txOnly, trackerOnly>>

RunSpec == RunInit /\ [][RunNext]_allVars /\ WF_vars(WaitStep)

-------------------------------------------------------------------------------
(* The variables of every file have their types. *)
RunTypeOK ==
  /\ verdict \in {"running", "bailed", "rejected", "redundant", "delegations_differ", "acks_differ",
                  "failures_differ", "used_up", "transfers_differ", "count_differs",
                  "mismatch", "amount_differs", "too_late", "not_passed", "not_executed"}
  /\ TypeOK /\ IcaTypeOK /\ TxTypeOK /\ TrackerTypeOK /\ DaoTypeOK
===============================================================================
