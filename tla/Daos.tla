--------------------------------- MODULE Daos ---------------------------------
(***************************************************************************)
(* Deploying a main DAO and a subDAO (src/helpers/dao.ts), the proposals    *)
(* that list the subDAO or overrule what it decided, and proposals that     *)
(* change parameters (src/helpers/interchainqueries.ts), as the overrule,    *)
(* subdao and interchain query tests make them.                             *)
(*                                                                          *)
(* The contracts and the chain are external: a vote counts with what was    *)
(* bonded before the block of the proposal; an overrule proposal comes with *)
(* every timelocked one and expires; everybody may execute what has passed. *)
(* Other files upload contracts to the same chain.                          *)
(***************************************************************************)
EXTENDS TestScript, FiniteSets

CONSTANTS
  VotingBlocks,    \* max_voting_period of the overrule and subDAO modules
  SleepBlocks,     \* the fewest blocks the chain makes in waitSeconds(20)
  VoteBlocks,      \* bound: blocks a vote takes, the other transactions take one
  OtherUploads,    \* bound: uploads of other files
  LateExecutions   \* bound: executions the client gives up on

(* A vote takes a block at least, two votes are over before the voting is.  *)
ASSUME DaoAssumption ==
  /\ {VotingBlocks, SleepBlocks, VoteBlocks, OtherUploads, LateExecutions} \subseteq Nat
  /\ VoteBlocks > 0 /\ 2 * VoteBlocks <= VotingBlocks

VARIABLES
  code,        \* the binaries on the chain, by code id
  codeIds,     \* codeIds[b]: the code id of the test's upload of b
  contracts,   \* contracts[l]: the code id of the contract labelled l
  listed,      \* the subDAO is in the main DAO's list
  bonds,       \* bonds[m]: what member m has bonded, and when
  proposals,
  params,      \* parameters of interchainqueries
  readParams,  \* what the test has read of them
  late,        \* proposals whose execution is on its way unawaited
  stale        \* a late execution came after readParams

chainDaoVars == <<code, contracts, listed, bonds, proposals, params, late>>
daoVars == <<scriptVars, codeIds, readParams, stale, chainDaoVars>>

(* Uploads in their order, and the binary behind each label *)
MainUploads ==
  << "DAO_CORE", "DAO_PROPOSAL_SINGLE", "DAO_PREPROPOSAL_SINGLE", "DAO_PROPOSAL_MULTI",
     "DAO_PREPROPOSAL_MULTI", "DAO_PREPROPOSAL_OVERRULE", "VOTING_REGISTRY",
     "NEUTRON_VAULT" >>
VaultContracts == [vault |-> "NEUTRON_VAULT"]
MainContracts ==
  [core |-> "DAO_CORE", registry |-> "VOTING_REGISTRY",
   single |-> "DAO_PROPOSAL_SINGLE", single_pre |-> "DAO_PREPROPOSAL_SINGLE",
   multiple |-> "DAO_PROPOSAL_MULTI", multiple_pre |-> "DAO_PREPROPOSAL_MULTI",
   overrule |-> "DAO_PROPOSAL_SINGLE", overrule_pre |-> "DAO_PREPROPOSAL_OVERRULE"]

SubdaoUploads ==
  << "SUBDAO_CORE", "CW4_VOTING", "CW4_GROUP", "SUBDAO_PROPOSAL", "SUBDAO_PREPROPOSE",
     "SUBDAO_PREPROPOSE_NO_TIMELOCK", "SUBDAO_TIMELOCK" >>
SubdaoContracts ==
  [sub_core |-> "SUBDAO_CORE", sub_voting |-> "CW4_VOTING", sub_group |-> "CW4_GROUP",
   sub_single |-> "SUBDAO_PROPOSAL", sub_single_pre |-> "SUBDAO_PREPROPOSE",
   sub_single_timelock |-> "SUBDAO_TIMELOCK",
   sub_single2 |-> "SUBDAO_PROPOSAL", sub_single2_pre |-> "SUBDAO_PREPROPOSE",
   sub_single2_timelock |-> "SUBDAO_TIMELOCK",
   sub_nt_pause |-> "SUBDAO_PROPOSAL", sub_nt_pause_pre |-> "SUBDAO_PREPROPOSE_NO_TIMELOCK"]

Uploads(binaries) == [i \in DOMAIN binaries |-> Do("upload", binaries[i])]

-------------------------------------------------------------------------------
(* The helpers as lists of steps                                            *)

deployNeutronDao ==
  Uploads(MainUploads) \o << Do("instantiate", VaultContracts), Do("instantiate", MainContracts),
                             Do("waitBlocks", 1) >>
deploySubdao == Uploads(SubdaoUploads) \o << Do("instantiate", SubdaoContracts) >>

BondFunds(member, amount) == Do("bondFunds", [member |-> member, amount |-> amount])
Submit(module, what) == Do("submit", [module |-> module, what |-> what])
Update(name) == [kind |-> "update", name |-> name]

addSubdaoToDao ==
  << Submit("single", [kind |-> "add_subdao"]), Do("voteYes", "user"), Do("execute", "passes") >>
setupSubDaoTimelockSet == deploySubdao \o addSubdaoToDao

(* Both proposals of a parameter: all of them are written, as read before,  *)
(* or the one alone                                                         *)
executeUpdateInterchainQueriesParams(name) ==
  << Do("readParams", 0), Submit("single", Update(name)), Do("voteYes", "user"),
     Do("checkPassed", 0), Do("execute", "passes") >>
acceptInterchainqueriesParamsChangeProposal(name) ==
  << Submit("single", [kind |-> "change", name |-> name]), Do("waitBlocks", 1),
     Do("voteYes", "user"), Do("execute", "passes") >>

(* supportAndExecuteProposal by the one member of the subDAO *)
SupportSubdao(module, outcome) ==
  << Submit(module, [kind |-> "send"]), Do("voteYes", "user"), Do("execute", outcome) >>

OverruleTests ==
  << BondFunds("user", 2), BondFunds("second", 1), Do("waitBlocks", 2) >>
  \o SupportSubdao("sub_single", "rejected") \o addSubdaoToDao
  \o SupportSubdao("sub_single", "passes")
  \o << Do("voteNo", "user"), Do("voteYes", "second"), Do("execute", "passes") >>

SubdaoTests ==
  deployNeutronDao \o << BondFunds("user", 1) >> \o setupSubDaoTimelockSet
  \o SupportSubdao("sub_single", "passes")
  \o << Do("executeTimelocked", "rejected"), Do("waitSeconds", 20),
        Do("executeTimelocked", "passes") >>

(* Updates and then a change, as in interchain_kv_query; the second update  *)
(* is the one of interchain_tx_query_plain.                                 *)
ParamsTests ==
  << BondFunds("user", 1) >>
  \o executeUpdateInterchainQueriesParams("keys")
  \o << Do("test", 0) >> \o executeUpdateInterchainQueriesParams("filters")
  \o << Do("test", 0) >> \o acceptInterchainqueriesParamsChangeProposal("keys")

DaoFiles == [overrule |-> OverruleTests, subdao |-> SubdaoTests, params |-> ParamsTests]

NoParams == [keys |-> 0, filters |-> 0]
DaoInit ==
  /\ code = <<>> /\ codeIds = <<>> /\ contracts = <<>> /\ listed = FALSE
  /\ bonds = [m \in {"user", "second"} |-> [amount |-> 0, at |-> 0]]
  /\ proposals = <<>> /\ params = NoParams /\ readParams = NoParams /\ late = {}
  /\ stale = FALSE

-------------------------------------------------------------------------------
(* Uploading and instantiating                                              *)

(* a slip: the ids are taken to be consecutive *)
UploadPredicted ==
  /\ Running("upload") /\ StepDone
  /\ code' = Append(code, Arg)
  /\ codeIds' = Over([b \in {Arg} |-> Cardinality(DOMAIN codeIds) + 1], codeIds)
  /\ UNCHANGED <<readParams, stale, contracts, listed, bonds, proposals, params, late>>

(* upload: the id is the one in the result. *)
Upload ==
  /\ Running("upload") /\ StepDone
  /\ code' = Append(code, Arg)
  /\ codeIds' = Over([b \in {Arg} |-> Len(code) + 1], codeIds)
  /\ UNCHANGED <<readParams, stale, contracts, listed, bonds, proposals, params, late>>

UploadOfOthers ==
  /\ Running("upload") /\ Len(code) < Cardinality(DOMAIN codeIds) + OtherUploads
  /\ code' = Append(code, "other")
  /\ UNCHANGED <<scriptVars, codeIds, readParams, stale, contracts, listed, bonds, proposals,
                 params, late>>

(* instantiate: a core contract instantiates the modules of its message. *)
Instantiate ==
  /\ Running("instantiate") /\ StepDone
  /\ contracts' = Over([l \in DOMAIN Arg |-> codeIds[Arg[l]]], contracts)
  /\ UNCHANGED <<codeIds, readParams, stale, code, listed, bonds, proposals, params, late>>

-------------------------------------------------------------------------------
(* Proposals                                                                *)

(* a slip: a transaction is not awaited *)
TxNotAwaited(op) == Running(op)

(* The transaction of a step is executed in a block after the one before. *)
Tx(op) == Running(op) /\ BlocksPassed(1)

Bond ==
  /\ Tx("bondFunds") /\ StepDone
  /\ bonds' = [bonds EXCEPT ![Arg.member] = [amount |-> Arg.amount, at |-> height]]
  /\ UNCHANGED <<codeIds, readParams, stale, code, contracts, listed, proposals, params, late>>

Proposal(module, what) ==
  [module |-> module, what |-> what, start |-> height, yes |-> {}, status |-> "open"]

(* a slip: the parameters are not read again *)
ReadParamsOnce ==
  /\ Running("readParams") /\ StepDone
  /\ UNCHANGED <<codeIds, readParams, stale, chainDaoVars>>

ReadParams ==
  /\ Running("readParams") /\ StepDone
  /\ readParams' = params /\ stale' = FALSE
  /\ UNCHANGED <<codeIds, chainDaoVars>>

(* The message of an update has every parameter, with a new value for one. *)
MessageOf(what) ==
  IF what.kind = "update"
    THEN [kind |-> "update", params |-> [readParams EXCEPT ![what.name] = 1]]
    ELSE what

SubmitProposal ==
  /\ Tx("submit") /\ StepDone
  /\ proposals' = Append(proposals, Proposal(Arg.module, MessageOf(Arg.what)))
  /\ UNCHANGED <<codeIds, readParams, stale, code, contracts, listed, bonds, params, late>>

Latest == Len(proposals)
Power(p, m) == IF bonds[m].at < proposals[p].start THEN bonds[m].amount ELSE 0
VotesOf(p, members) ==
  LET Counts(m) == IF m \in members THEN Power(p, m) ELSE 0
  IN  Counts("user") + Counts("second")
Yes(p) == VotesOf(p, proposals[p].yes)
Total(p) == VotesOf(p, DOMAIN bonds)

(* The majority of everything that is bonded, 10 % of it, or one vote *)
HasPassed(p) ==
  CASE proposals[p].module = "single" -> 2 * Yes(p) > Total(p)
    [] proposals[p].module = "overrule" -> Yes(p) > 0 /\ 10 * Yes(p) >= Total(p)
    [] OTHER -> proposals[p].yes # {}

Expired(p) == proposals[p].module # "single" /\ height > proposals[p].start + VotingBlocks

(* A vote on the latest proposal *)
Vote ==
  /\ \/ Tx("voteYes") /\ proposals' =
          IF Expired(Latest) THEN proposals
          ELSE [proposals EXCEPT ![Latest].yes = @ \union {Arg}]
     \/ Tx("voteNo") /\ UNCHANGED proposals
  /\ Expect(~ Expired(Latest), "too_late")
  /\ UNCHANGED <<codeIds, readParams, stale, code, contracts, listed, bonds, params, late>>

CheckPassed ==
  /\ Running("checkPassed")
  /\ Expect(HasPassed(Latest), "not_passed")
  /\ UNCHANGED <<codeIds, readParams, stale, chainDaoVars>>

(* A timelock takes proposals of listed subDAOs only. *)
Executable(p) ==
  /\ proposals[p].status = "open" /\ HasPassed(p)
  /\ proposals[p].what.kind = "send" => listed

SetStatus(p, status) == [proposals EXCEPT ![p].status = status]

(* What the execution of p does: a subDAO's proposal becomes timelocked and *)
(* gets its overrule proposal.                                              *)
Executes(p) ==
  LET what == proposals[p].what
  IN  /\ proposals' =
           CASE what.kind = "send" ->
                  Append(SetStatus(p, "timelocked"),
                         Proposal("overrule", [kind |-> "overrule", of |-> p]))
             [] what.kind = "overrule" ->
                  [SetStatus(p, "executed") EXCEPT ![what.of].status = "overruled"]
             [] OTHER -> SetStatus(p, "executed")
      /\ listed' = (listed \/ what.kind = "add_subdao")
      /\ params' = CASE what.kind = "update" -> what.params
                     [] what.kind = "change" -> [params EXCEPT ![what.name] = 2]
                     [] OTHER -> params

ExecuteProposal ==
  /\ Tx("execute")
  /\ IF Executable(Latest) THEN Executes(Latest) ELSE UNCHANGED <<proposals, listed, params>>
  /\ Expect(Executable(Latest) <=> Arg = "passes", "not_executed")
  /\ UNCHANGED <<codeIds, readParams, stale, code, contracts, bonds, late>>

(* The client gives up on the transaction, the test throws. *)
GiveUpExecution ==
  /\ Running("execute") /\ proposals[Latest].what.kind \in {"update", "change"}
  /\ Cardinality(late) < LateExecutions
  /\ late' = late \union {Latest} /\ Throws
  /\ UNCHANGED <<codeIds, readParams, stale, code, contracts, listed, bonds, proposals, params>>

ExecuteLate(p) ==
  /\ Executable(p) /\ Executes(p)
  /\ late' = late \ {p} /\ stale' = TRUE
  /\ UNCHANGED <<scriptVars, codeIds, readParams, code, contracts, bonds>>

(* executeTimelockedProposal, when nobody has overruled it; a refusal may   *)
(* come from the simulation, before there is a transaction.                 *)
ExecuteTimelocked ==
  /\ Running("executeTimelocked") /\ (Arg = "passes" => Tx("executeTimelocked"))
  /\ LET p == proposals[Latest].what.of
         free == proposals[p].status = "timelocked" /\ Expired(Latest) /\ ~ HasPassed(Latest)
     IN  /\ proposals' = IF free THEN SetStatus(p, "executed") ELSE proposals
         /\ Expect(free <=> Arg = "passes", "not_executed")
  /\ UNCHANGED <<codeIds, readParams, stale, code, contracts, listed, bonds, params, late>>

DaoStep ==
  /\ \/ Running("test")
     \/ Running("waitBlocks") /\ BlocksPassed(Arg)
     \/ Running("waitSeconds") /\ BlocksPassed(SleepBlocks)
  /\ StepDone
  /\ UNCHANGED <<codeIds, readParams, stale, chainDaoVars>>

DaoBlock ==
  /\ verdict = "running" /\ step <= Len(tests)
  /\ ~ \E op \in {"upload", "instantiate", "readParams", "test"} : Running(op)
  /\ ~ BlocksPassed(CASE Running("waitBlocks") -> Arg
                      [] Running("waitSeconds") -> SleepBlocks + 2
                      [] Running("voteYes") \/ Running("voteNo") -> VoteBlocks
                      [] OTHER -> 1)
  /\ height' = height + 1
  /\ UNCHANGED <<file, tests, step, verdict, begun, codeIds, readParams, stale, chainDaoVars>>

DaoNext ==
  \/ Upload \/ UploadOfOthers \/ Instantiate \/ Bond \/ ReadParams \/ SubmitProposal \/ Vote
  \/ CheckPassed \/ ExecuteProposal \/ GiveUpExecution \/ ExecuteTimelocked
  \/ \E p \in late : ExecuteLate(p)
  \/ DaoStep \/ DaoBlock

DaoSpec == ScriptInit(DaoFiles) /\ DaoInit /\ [][DaoNext]_daoVars

-------------------------------------------------------------------------------
(* The variables have their types. *)
DaoTypeOK ==
  /\ ScriptTypeOK
  /\ \A b \in DOMAIN codeIds : codeIds[b] \in DOMAIN code
  /\ \A l \in DOMAIN contracts : contracts[l] \in DOMAIN code
  /\ listed \in BOOLEAN /\ stale \in BOOLEAN
  /\ late \subseteq DOMAIN proposals
  /\ \A p \in DOMAIN proposals :
       proposals[p].status \in {"open", "executed", "timelocked", "overruled"}

(* Every contract of the two DAOs runs the binary meant for it, whatever    *)
(* other files upload in between.                                           *)
RightBinaries ==
  \A l \in DOMAIN contracts :
    code[contracts[l]] = Over(VaultContracts, Over(MainContracts, SubdaoContracts))[l]

(* What a file bonded before it proposes carries its proposals, and a       *)
(* subDAO's are timelocked from when it is listed on, not before.  All      *)
(* votes come before the end of the voting, as slow as they may be.  A      *)
(* timelocked one is executed after waitSeconds(20), unless the chain made  *)
(* fewer blocks in that time than its overrule proposal is open for.        *)
ProposalsPass ==
  verdict \in {"too_late", "not_passed", "not_executed"} =>
    /\ tests[step].op = "executeTimelocked"
    /\ begun < proposals[Latest].start + VotingBlocks

(* An update of one parameter takes none of the others back, unless the     *)
(* execution of an earlier one was given up and came after they were read.  *)
UpdateKeepsOthers ==
  [][params' # params /\ late' = late =>
       \/ stale
       \/ \E n \in DOMAIN params :
            \A m \in DOMAIN params \ {n} : params'[m] = params[m]]_daoVars
===============================================================================
