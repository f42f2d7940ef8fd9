--------------------------- MODULE GenesisAddresses ---------------------------
(***************************************************************************)
(* How the contracts get into the genesis of the chain under test           *)
(* (setup/scripts/3_update-genesis.sh), and what the chain makes of it.     *)
(*                                                                          *)
(* The script stores the binaries, predicts the address of every contract   *)
(* from the order it expects them to be instantiated in, writes those       *)
(* addresses into the init messages, the executed messages and the module   *)
(* parameters, and only then adds the instantiate messages.  The two lists  *)
(* are kept consistent by hand ("WARNING!", twice).                         *)
(*                                                                          *)
(* The chain (wasmd) is external: it runs the genesis messages in order and *)
(* runs the messages a contract sends from its instantiation at once, so    *)
(* the contracts it starts come before those of the next message.           *)
(***************************************************************************)
EXTENDS Naturals, FiniteSets, Sequences, SequencesExt

CONSTANTS
  MaxStoreFailures,   \* bound: `store` commands that fail
  AlsoTakes           \* <<binary, contract>>: the binary also takes the init
                      \* message of the contract, and starts what it names,
                      \* though the script has written it for another binary

ASSUME MaxStoreFailuresAssumption == MaxStoreFailures \in Nat

VARIABLES
  step,        \* the command of the script that comes next
  codeId,      \* codeId[b]: the _BINARY_ID variables
  address,     \* address[c]: the _CONTRACT_ADDRESS variables, <<instance, code>>
  INSTANCE_ID_COUNTER,
  genMsgs,     \* app_state.wasm.gen_msgs
  notStored,   \* binaries whose `store` failed
  neutron,     \* "off", "genesis", "started", "panic"
  next,        \* the genesis message the chain runs next
  codes,       \* the codes the chain has, by id
  pending,     \* contracts to be instantiated for the message being run
  contracts    \* the contracts the chain has, by instance id

scriptVars == <<step, codeId, address, INSTANCE_ID_COUNTER, genMsgs, notStored>>
chainVars == <<neutron, next, codes, pending, contracts>>
genesisVars == <<scriptVars, chainVars>>

-------------------------------------------------------------------------------
(* The data of the script.                                                  *)

StoreOrder == <<
  "DAO", "PRE_PROPOSAL", "PRE_PROPOSAL_MULTIPLE", "PRE_PROPOSAL_OVERRULE",
  "PROPOSAL", "PROPOSAL_MULTIPLE", "VOTING_REGISTRY", "NEUTRON_VAULT",
  "INVESTORS_VAULT", "VESTING_INVESTORS", "DISTRIBUTION", "RESERVE",
  "SUBDAO_CORE", "SUBDAO_TIMELOCK", "SUBDAO_PRE_PROPOSE", "SUBDAO_PROPOSAL",
  "CW4_VOTING", "CW4_GROUP", "CHAIN_MANAGER", "STAKING_TRACKER",
  "STAKING_VAULT", "STAKING_REWARDS", "STAKING_INFO_PROXY" >>

(* The calls of genaddr: the contract and the binary it is predicted for.   *)
Predictions == <<
  <<"NEUTRON_VAULT", "NEUTRON_VAULT">>,
  <<"INVESTORS_VAULT", "INVESTORS_VAULT">>,
  <<"VESTING_INVESTORS", "VESTING_INVESTORS">>,
  <<"DAO", "DAO">>,
  <<"VOTING_REGISTRY", "VOTING_REGISTRY">>,
  <<"PROPOSAL_SINGLE", "PROPOSAL">>,
  <<"PRE_PROPOSAL", "PRE_PROPOSAL">>,
  <<"PROPOSAL_MULTIPLE", "PROPOSAL_MULTIPLE">>,
  <<"PRE_PROPOSAL_MULTIPLE", "PRE_PROPOSAL_MULTIPLE">>,
  <<"PROPOSAL_OVERRULE", "PROPOSAL">>,
  <<"PRE_PROPOSAL_OVERRULE", "PRE_PROPOSAL_OVERRULE">>,
  <<"RESERVE", "RESERVE">>,
  <<"DISTRIBUTION", "DISTRIBUTION">>,
  <<"SECURITY_CORE", "SUBDAO_CORE">>,
  <<"SECURITY_VOTING", "CW4_VOTING">>,
  <<"SECURITY_GROUP", "CW4_GROUP">>,
  <<"SECURITY_PROPOSAL", "SUBDAO_PROPOSAL">>,
  <<"SECURITY_PRE_PROPOSE", "SUBDAO_PROPOSAL">>,
  <<"GRANTS_CORE", "SUBDAO_CORE">>,
  <<"GRANTS_VOTING", "CW4_VOTING">>,
  <<"GRANTS_PROPOSAL", "SUBDAO_PROPOSAL">>,
  <<"GRANTS_PRE_PROPOSE", "SUBDAO_PRE_PROPOSE">>,
  <<"GRANTS_TIMELOCK", "SUBDAO_TIMELOCK">>,
  <<"GRANTS_GROUP", "CW4_GROUP">>,
  <<"CHAIN_MANAGER", "CHAIN_MANAGER">>,
  <<"STAKING_TRACKER", "STAKING_TRACKER">>,
  <<"STAKING_VAULT", "STAKING_VAULT">>,
  <<"STAKING_REWARDS", "STAKING_REWARDS">>,
  <<"STAKING_INFO_PROXY", "STAKING_INFO_PROXY">> >>

(* a slip: the vesting contract before the vault that names it *)
InitOrderSwapped == <<
  "NEUTRON_VAULT", "VESTING_INVESTORS", "INVESTORS_VAULT", "DAO", "RESERVE",
  "DISTRIBUTION", "SECURITY_CORE", "GRANTS_CORE", "CHAIN_MANAGER",
  "STAKING_TRACKER", "STAKING_VAULT", "STAKING_REWARDS", "STAKING_INFO_PROXY" >>

(* a slip: the last contract is forgotten *)
InitOrderShort == <<
  "NEUTRON_VAULT", "INVESTORS_VAULT", "VESTING_INVESTORS", "DAO", "RESERVE",
  "DISTRIBUTION", "SECURITY_CORE", "GRANTS_CORE", "CHAIN_MANAGER",
  "STAKING_TRACKER", "STAKING_VAULT", "STAKING_REWARDS" >>

(* The calls of init_contract.                                              *)
InitOrder == <<
  "NEUTRON_VAULT", "INVESTORS_VAULT", "VESTING_INVESTORS", "DAO", "RESERVE",
  "DISTRIBUTION", "SECURITY_CORE", "GRANTS_CORE", "CHAIN_MANAGER",
  "STAKING_TRACKER", "STAKING_VAULT", "STAKING_REWARDS", "STAKING_INFO_PROXY" >>

(* The commands `add-wasm-message execute` at the end.                      *)
ExecuteOrder == <<"DAO", "VESTING_INVESTORS", "VESTING_INVESTORS">>

(* The _instantiate_info entries of the init messages: the contracts that a *)
(* contract instantiates, in order.  A core contract starts its voting      *)
(* module before its proposal modules, as Predictions has it.               *)
Instantiates(c) ==
  CASE c = "DAO" -> <<"VOTING_REGISTRY", "PROPOSAL_SINGLE", "PROPOSAL_MULTIPLE",
                      "PROPOSAL_OVERRULE">>
    [] c = "PROPOSAL_SINGLE" -> <<"PRE_PROPOSAL">>
    [] c = "PROPOSAL_MULTIPLE" -> <<"PRE_PROPOSAL_MULTIPLE">>
    [] c = "PROPOSAL_OVERRULE" -> <<"PRE_PROPOSAL_OVERRULE">>
    [] c = "SECURITY_CORE" -> <<"SECURITY_VOTING", "SECURITY_PROPOSAL">>
    [] c = "SECURITY_VOTING" -> <<"SECURITY_GROUP">>
    [] c = "SECURITY_PROPOSAL" -> <<"SECURITY_PRE_PROPOSE">>
    [] c = "GRANTS_CORE" -> <<"GRANTS_VOTING", "GRANTS_PROPOSAL">>
    [] c = "GRANTS_VOTING" -> <<"GRANTS_GROUP">>
    [] c = "GRANTS_PROPOSAL" -> <<"GRANTS_PRE_PROPOSE">>
    [] c = "GRANTS_PRE_PROPOSE" -> <<"GRANTS_TIMELOCK">>
    [] OTHER -> <<>>

(* The binary a contract is instantiated with: the code_id of its entry, or *)
(* the first argument of init_contract.                                     *)
Binary(c) ==
  CASE c \in {"PROPOSAL_SINGLE", "PROPOSAL_OVERRULE"} -> "PROPOSAL"
    [] c \in {"SECURITY_CORE", "GRANTS_CORE"} -> "SUBDAO_CORE"
    [] c \in {"SECURITY_VOTING", "GRANTS_VOTING"} -> "CW4_VOTING"
    [] c \in {"SECURITY_GROUP", "GRANTS_GROUP"} -> "CW4_GROUP"
    [] c \in {"SECURITY_PROPOSAL", "GRANTS_PROPOSAL"} -> "SUBDAO_PROPOSAL"
    [] c = "SECURITY_PRE_PROPOSE" -> "PRE_PROPOSAL"
    [] c = "GRANTS_PRE_PROPOSE" -> "SUBDAO_PRE_PROPOSE"
    [] c = "GRANTS_TIMELOCK" -> "SUBDAO_TIMELOCK"
    [] OTHER -> c

(* The init message of a contract, by the name of its variable: two are     *)
(* used twice.                                                              *)
Message(c) ==
  CASE c \in {"PRE_PROPOSAL", "PRE_PROPOSAL_MULTIPLE"} -> "PRE_PROPOSE_INIT_MSG"
    [] c \in {"SECURITY_VOTING", "GRANTS_VOTING"} -> "CW4_VOTE_INIT_MSG"
    [] OTHER -> c

(* The contracts whose predicted address is written somewhere: into an init *)
(* message, an executed message or a parameter of a module.                 *)
Referenced == {
  "DAO", "NEUTRON_VAULT", "INVESTORS_VAULT", "STAKING_VAULT", "DISTRIBUTION",
  "VESTING_INVESTORS", "SECURITY_CORE", "GRANTS_CORE", "PRE_PROPOSAL_OVERRULE",
  "STAKING_TRACKER", "STAKING_INFO_PROXY", "STAKING_REWARDS", "CHAIN_MANAGER" }

Contract == {Predictions[i][1] : i \in DOMAIN Predictions}
BinaryName == ToSet(StoreOrder)

-------------------------------------------------------------------------------
(* The script, one command per step.                                        *)

Commands(name, operands) == [i \in DOMAIN operands |-> <<name, operands[i]>>]

Script ==
  Commands("store", StoreOrder) \o Commands("genaddr", Predictions)
    \o Commands("instantiate", InitOrder) \o Commands("execute", ExecuteOrder)

Runs(name) == /\ neutron = "off" /\ step <= Len(Script)
              /\ Script[step][1] = name
              /\ step' = step + 1

Operand == Script[step][2]

Stored == Cardinality({i \in DOMAIN genMsgs : genMsgs[i][1] = "store"})

(* store_binary.  The function runs in a command substitution, which does   *)
(* not inherit `set -e`: after a `store` that failed it goes on, and its    *)
(* answer is the number of the store messages there are.                    *)
StoreBinary ==
  /\ Runs("store")
  /\ \/ /\ genMsgs' = Append(genMsgs, <<"store", Operand>>)
        /\ codeId' = [codeId EXCEPT ![Operand] = Stored + 1]
        /\ UNCHANGED notStored
     \/ /\ Cardinality(notStored) < MaxStoreFailures
        /\ codeId' = [codeId EXCEPT ![Operand] = Stored]
        /\ notStored' = notStored \union {Operand}
        /\ UNCHANGED genMsgs
  /\ UNCHANGED <<address, INSTANCE_ID_COUNTER, chainVars>>

GenAddr ==
  /\ Runs("genaddr")
  /\ address' = [address EXCEPT
                   ![Operand[1]] = <<INSTANCE_ID_COUNTER, codeId[Operand[2]]>>]
  /\ INSTANCE_ID_COUNTER' = INSTANCE_ID_COUNTER + 1
  /\ UNCHANGED <<codeId, genMsgs, notStored, chainVars>>

(* init_contract and `add-wasm-message execute` append a message.           *)
AddMessage ==
  /\ Runs("instantiate") \/ Runs("execute")
  /\ genMsgs' = Append(genMsgs, Script[step])
  /\ UNCHANGED <<codeId, address, INSTANCE_ID_COUNTER, notStored, chainVars>>

(* The rest of the script copies the genesis to the nodes, which start.     *)
StartChain ==
  /\ neutron = "off" /\ step > Len(Script)
  /\ neutron' = "genesis"
  /\ UNCHANGED <<scriptVars, next, codes, pending, contracts>>

-------------------------------------------------------------------------------
(* The chain runs the genesis messages.                                     *)

Handles(name) ==
  /\ neutron = "genesis" /\ pending = <<>> /\ next <= Len(genMsgs)
  /\ genMsgs[next][1] = name
  /\ next' = next + 1

StoreCode ==
  /\ Handles("store")
  /\ codes' = Append(codes, genMsgs[next][2])
  /\ UNCHANGED <<scriptVars, neutron, pending, contracts>>

InstantiateMessage ==
  /\ Handles("instantiate")
  /\ pending' = <<genMsgs[next][2]>>
  /\ UNCHANGED <<scriptVars, neutron, codes, contracts>>

(* The binaries that take the init message of a contract: those that the    *)
(* script sends the same message to, whatever contract it means.            *)
Takes(binary, c) ==
  \/ \E d \in Contract : Binary(d) = binary /\ Message(d) = Message(c)
  \/ <<binary, c>> \in AlsoTakes

(* The code is there and takes the init message: the chain does not know    *)
(* which binary was meant.                                                  *)
CodeFits(c) ==
  LET id == codeId[Binary(c)] IN id \in DOMAIN codes /\ Takes(codes[id], c)

(* A contract is instantiated, and then at once the contracts it starts. *)
Instantiate ==
  /\ neutron = "genesis" /\ pending # <<>>
  /\ LET c == Head(pending) IN
       IF CodeFits(c)
         THEN /\ contracts' = Append(contracts, c)
              /\ pending' = Instantiates(c) \o Tail(pending)
              /\ UNCHANGED neutron
         ELSE /\ neutron' = "panic"
              /\ UNCHANGED <<contracts, pending>>
  /\ UNCHANGED <<scriptVars, next, codes>>

AddressOf(i) == <<i, codeId[Binary(contracts[i])]>>

(* A message to a contract of another binary may be refused. *)
ExecuteMessage ==
  /\ Handles("execute")
  /\ LET c == genMsgs[next][2]
         there == \E i \in DOMAIN contracts :
                    contracts[i] = c /\ AddressOf(i) = address[c]
         meant == codes[codeId[Binary(c)]] = Binary(c)
     IN \/ there /\ UNCHANGED neutron
        \/ ~(there /\ meant) /\ neutron' = "panic"
  /\ UNCHANGED <<scriptVars, codes, pending, contracts>>

GenesisDone ==
  /\ neutron = "genesis" /\ pending = <<>> /\ next > Len(genMsgs)
  /\ neutron' = "started"
  /\ UNCHANGED <<scriptVars, next, codes, pending, contracts>>

GenesisInit ==
  /\ step = 1
  /\ codeId = [b \in BinaryName |-> 0]
  /\ address = [c \in Contract |-> <<0, 0>>]
  /\ INSTANCE_ID_COUNTER = 1
  /\ genMsgs = <<>> /\ notStored = {}
  /\ neutron = "off" /\ next = 1 /\ codes = <<>> /\ pending = <<>> /\ contracts = <<>>

GenesisNext ==
  \/ StoreBinary \/ GenAddr \/ AddMessage \/ StartChain
  \/ StoreCode \/ InstantiateMessage \/ Instantiate \/ ExecuteMessage
  \/ GenesisDone

GenesisSpec == GenesisInit /\ [][GenesisNext]_genesisVars

-------------------------------------------------------------------------------
(* Every address the script writes down is the address of the contract it   *)
(* is meant for, also when a binary was not stored and two ids coincide.    *)
AddressesRight ==
  \A i \in DOMAIN contracts :
    contracts[i] \in Referenced => address[contracts[i]] = AddressOf(i)

(* The binaries that can be missing unnoticed: another takes the messages   *)
(* of all their contracts.                                                  *)
Replaceable ==
  {b \in BinaryName : \E a \in BinaryName \ {b} :
     \A c \in Contract : Binary(c) = b => Takes(a, c)}

(* A chain that starts has every contract, each with the binary that the    *)
(* script meant if that was stored; and if a `store` has failed, which the  *)
(* script does not see, it was one of a binary that another can replace.    *)
StartedComplete ==
  neutron = "started" =>
    /\ ToSet(contracts) = Contract
    /\ notStored \subseteq Replaceable
    /\ \A c \in Contract :
         Binary(c) \notin notStored => codes[codeId[Binary(c)]] = Binary(c)

(* The chain panics at genesis only if a binary was not stored.             *)
GenesisRuns == neutron = "panic" => notStored # {}
===============================================================================
