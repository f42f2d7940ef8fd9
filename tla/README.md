# Verification of the Neutron integration-test harness

The repository runs the integration tests of the Neutron chain: it fetches the
contract binaries, builds a genesis that contains them, starts two chains and
an IBC relayer in containers, prefunds a thousand wallets, runs test files in
worker processes, and tears everything down again.  The chains, the contracts,
docker and vitest belong to other projects.  What is this repository's own is
the *harness*: the decisions about who may use which wallet, when the tests
may begin, what is retried, what is waited for, and what one run leaves for
the next.  Its faults do not show up as failures of one test, but as tests
that fail now and then.  That is what these modules are about.

Contents

1. [Inventory](#1-inventory)
2. [Plan](#2-plan)
3. [The modules and the code](#3-the-modules-and-the-code)
4. [Runs: what is checked](#4-runs-what-is-checked)
5. [Fairness](#5-fairness)
6. [Proofs](#6-proofs)
7. [Disagreements found](#7-disagreements-found)
8. [What is not modelled](#8-what-is-not-modelled)

Paths of the code are relative to the repository.

## 1. Inventory

| Part | Code | State | Operations | Module |
|---|---|---|---|---|
| Wallet allocator | `src/helpers/local_state.ts` | position of the file, next offset per network | `create`/`init`, `next*Wallet`, `relayerLink` | `LocalState` |
| Signing client | `src/helpers/neutron_test_client.ts` | none of its own: sequence numbers are the chain's | `execute`, `signAndBroadcast`, `signAndBroadcastSync`, `upload`, `instantiate` | `ParallelTests`; the last two `Daos` |
| Prefunding | `src/global_setup.ts` (`fundWallets`) | attempt counters, the last hash | derive, connect, broadcast, `getTx` | `FundWallets` |
| Start of the containers | `src/helpers/setup.ts` | `alreadySetUp`, the clock | `waitForHTTP`, `waitForChannel`, sleeps | `CosmoparkSetup` |
| Hermes container | `setup/dockerbuilds/Dockerfile.hermes`, `setup/hermes/*` | connections, channel, client | create connection, client and channel, start | `CosmoparkSetup` |
| Global setup and teardown | `src/global_setup.ts`, `src/helpers/setup.ts`, `setup/Makefile` | the containers, from run to run | stop, start, wait, fund, stop twice | `GlobalSetup` |
| Genesis script | `setup/scripts/3_update-genesis.sh` | code ids, predicted addresses, genesis messages | `store_binary`, `genaddr`, `init_contract`, execute | `GenesisAddresses` |
| Slashing simulation | `src/helpers/staking.ts` | a paused container | look, delegate, pause, wait, unpause, wait | `SlashingSimulation` |
| Artifact downloader | `download_artifacts.js` | files on disk, `REWRITE_FILES`, attempt counter | find commit, checksums, poll, ask, download, verify | `DownloadArtifacts` |
| Polling helper | `src/helpers/misc.ts` | attempt counter | `getWithAttempts` | `KvQueries` |
| Interchain queries | `src/helpers/interchainqueries.ts` | what a wait has read so far; the rest is the contract's and the relayer's | register, remove, wait, watch, validate; count transfers, resubmit; change parameters | `KvQueries`, `TxQueries`, `Daos` |
| Interchain transactions | `src/helpers/interchaintxs.ts` | none; packets are the chains' | wait for an acknowledgement, relay by hand | `InterchainTx` |
| Staking queries and transactions | `src/helpers/staking.ts` | none; compared answers | delegate, undelegate, redelegate, stake infos, comparison | `StakingTracker` |
| DAO helpers | `src/helpers/dao.ts` | code ids of the uploads | deploy both DAOs, list the subDAO | `Daos` |
| Test files | `src/testcases/` | the step they are at | the tests of the last four rows, one await after the other | `TestScript`, `RunInBand` |

`PROJECT.json` lists these and the parts that hold no behaviour, with the
hazards of each at the line where it bites.

### How the parts interact

* `yarn test:*` starts a vitest process for the parallel tests, and one for
  each file of the run-in-band tests.  Its **global
  setup** calls `setup()` (containers), then `fundWallets()` four times, then
  provides the list of mnemonics to the workers, and returns the teardown.
  The process shares nothing with the next one but the containers.
* The **containers** run on their own.  `setup()` never speaks to hermes: it
  polls the REST servers of the chains and sleeps.
* The **test files** run in workers that share no memory.  They have the list
  of mnemonics and the names in their directory in common, and each
  `LocalState` computes its slice of the list from those.
* A test signs through a **client** that reads the account's sequence from the
  chain, signs, broadcasts and polls.  The chain is the only place where two
  workers meet.
* A test of **interchain queries** waits for a query relayer it never speaks to:
  it reads the height of the remote chain and polls Neutron until a result of
  that height is there.
* A test of **interchain transactions** shares its packets with hermes, which
  relays them too; it pauses the container to have them for itself.
* **DAO** tests upload contracts to the chain that other files upload to, and
  count their waits in blocks of it.
* The **genesis script** predicts contract addresses by counting; the chain
  assigns them by running the messages.  Nothing compares the two.

### What is hard, and what correctness means

| Part | Hard behaviour | It is correct when |
|---|---|---|
| Wallet allocator | workers without shared state; a slice that runs out; a rejected call that still spends an offset; a directory that cannot be read | no wallet of a network is handed out twice, to any file |
| Signing client | the gap between reading the sequence and broadcasting; a wait that is given up while the transaction is pending | a file meets "account sequence mismatch" only through its own calls |
| Prefunding | retries of a broadcast that may have been executed; `NO_DOCKER` | success means that this run's sends were executed; setup ends |
| Start of the containers | two programs that only have the clock in common; a handshake observed half-way; a step that is tried once | after `setup()` the block, the channel and the relayer are there |
| Global setup | killed runs; a `down` that fails or leaves something | a run does not meet another run's chain; a good run leaves nothing |
| Genesis script | `set -e` that does not reach into `$( )`; two hand-kept lists | what is written down as an address is the address |
| Slashing simulation | votes lag a block behind; the chain may halt; rounding | the validator is jailed on return; the chain goes on |
| Interchain queries | results that were fetched before the call, lost, or submitted late; several waits at once | a wait that returns has a result newer than the call; it ends |
| Transfers queries | a relayer with a schedule of its own; a wait for an exact total of two queries; failures counted once | the order the test arranged is the order it sees; a wait that fails has missed nothing |
| Interchain transactions | hermes' broadcasts outlive its pause; a failing handler that is switched off again; a look where a wait was meant | a packet relayed by hand was nobody else's; no result is stored that should have failed |
| Staking queries | three heights in one comparison; a transaction whose code is not looked at, or that comes after its test gave up | the comparison fails only for such a transaction |
| DAO helpers | uploads between uploads of others; votes, sleeps and executions against a voting period in blocks; all parameters written back as once read | every contract has its binary; what should pass passes in time; an update keeps what it is not about |
| Artifact downloader | concurrent downloads to one directory; broken bodies; an answer kept for later | what is reported is verified; nothing is overwritten unasked; it ends |

## 2. Plan

Order of the work, most important first.

1. `WalletPool` (abstract), `LocalState` (implements it), `ParallelTests`
   (composes `LocalState` with a chain per network and the clients) - done.
2. `FundWallets`, `CosmoparkSetup`, `GlobalSetup`: everything before and after
   the tests - done.
3. `GenesisAddresses`, `SlashingSimulation`, `DownloadArtifacts`, `KvQueries` -
   done.
4. `TestScript` (a test file as the list of its awaits), and on it
   `InterchainTx`, `TxQueries`, `StakingTracker`, `Daos`; `RunInBand` chooses
   one of the files of these and of `KvQueries` - done.
5. Proofs of every safety invariant the passing runs check, and of the
   refinement of `WalletPool` - done.  For `RunInBand` first for each of its
   modules alone, then for the specification that chooses among them.
6. Next: the toggled failure of the contract's callbacks
   (`src/testcases/run_in_band/interchain_kv_query.test.ts:621-676`), and the
   tests of the staking tracker that slash and bond again
   (`src/testcases/run_in_band/staking-tracker.test.ts:542-760`).

Abstract specifications worth stating: the common pool of wallets (done);
"the tests begin when relaying works" for the composition of `GlobalSetup`
and `CosmoparkSetup`.

No module that is proved about uses a recursive operator; bounds are constants
that appear in guards under their own names.

## 3. The modules and the code

### `WalletPool`, `LocalState`

`WalletPool` is the promise: one pool of mnemonics, from which any file takes
any mnemonic not taken on that network.  `LocalState` is the code.
`walletIndexes` and `testFilePosition` are the fields of the class; `phase`
says whether `create()` has finished or rejected and whether `relayerLink()`
is between its two awaits; `given` is a history of what was handed out.
`InitState` is `init()` (with the `readdir` error that becomes an empty list),
`NextWallet` each of `next*Wallet()`, `RelayerLink` and `RelayerLinkGaia` the
two halves of `relayerLink()`.  A call throws in two ways that differ in what
they leave: past the slice nothing changes; past the list the offset is spent
(`NextWalletThrows`).  A file that does not pass its suite gets position 0;
such files run in a process of their own (`RunInBandAssumption`).

### `ParallelTests`

Extends `LocalState` by a chain per network and a client per wallet.  `Sign`
reads the committed sequence; `SignAndBroadcast` succeeds only with the number
that follows the committed and pending ones, otherwise `Refused`; `Observe`
and `GiveUp` are the two ends of the poll in cosmjs; `SignAndBroadcastSync`
returns at once.  The chain (`InOrder`, `Accept`, `Commit`) is external and
modelled from what the client expects of it.  `timedOut` and `mismatch` record
which files had which trouble.

### `FundWallets`

`pc` walks through the four calls of `fundWallets()`; `GetAccounts`, `Connect`
and `Broadcast`/`BroadcastThrows`/`PollThrows` are the three retry loops, with
`Retry` their common counter; `GetTx` is the single look at the result that is
not retried.  `BroadcastThrows` includes the case in which the chain has the
transaction.  `Rerun` starts `yarn test` again, on a new chain or, with
`NO_DOCKER`, on the one there was, where a send of an earlier run may still be
pending.  A block may execute a send or fail it, for lack of funds or of gas.
Amounts are in units of what one Gaia call sends in total.

### `CosmoparkSetup`

`setup()` (`SeesBlock`, `SeesChannel`, `WakesUp`, `TimesOut`) beside the
hermes container (`CreateConnection` to `HermesRelays`) and two chains.  Both
have a clock, `elapsed` and `hermesElapsed`, advanced together by `Tick`;
nobody may oversleep.  `CounterpartyKnown` is the condition that
`waitForChannel` really tests: on Neutron it holds from the Ack on, on Gaia
already from the Try on.  `create channel` is tried once, over `connection-0`,
and `&&` ends the container when it fails (`ChannelFails`).  The `NO_WAIT_`
variables are any subset.

### `GlobalSetup`

One `pc` per process of vitest, and `chain`, the run whose `up -d` created the
containers.  `down` may work, fail, or leave something behind (the "hack"
comment of the teardown); `up -d` leaves running containers alone; a process
may be killed anywhere.  `stops` is a history of how each of the three stops of
the run ended, so that the properties can name the stop that has to go wrong.

### `GenesisAddresses`

The script is a sequence of commands made from its four lists; `StoreBinary`
can fail without stopping the script, because a command substitution does not
inherit `set -e`; it then answers the id of the binary before.  The chain runs
the messages in order, and what a contract instantiates right after it.  The
lists `StoreOrder`, `Predictions`, `InitOrder`, `ExecuteOrder` and the
entries `Instantiates`, `Binary`, `Message`, `Referenced` are the data of the
script.  The chain does not know which binary was meant: a contract starts when
the code with its id takes its message (`Takes`, `CodeFits`).  A binary takes the
messages the script sends to it, under whatever contract's name, so the two
pre-propose modules that are sent one `PRE_PROPOSE_INIT_MSG` take each other's;
which binaries take more than that is not in the repository and is the constant
`AlsoTakes`.  `ExecuteMessage` to a contract with the wrong binary may panic or not.

### `SlashingSimulation`

`simulateSlashingAndJailing()` against a chain of two validators with stakes.
`Look` keeps what was read (`alternativeValidatorPower`, `totalBondedTokens`).
`Delegate` broadcasts; a block executes the delegation or fails it (`Execute`),
and its code is not looked at (`Delegated`).  A block needs more than 2/3 of the
power in force on it (`set`), and what it does to the stakes is in force on the
block after the next one (`nextSet`), while the helper pauses the container as
soon as the delegation is back.  A block records the votes for the block before
it (`votedLast`), and the vote for the next block may have been sent before the
pause (`cast`), so the first block after the pause or after its end may go either
way (`Votes`).  A call has the blocks it asks for and the blocks of the window
that may be missed at the time (`Calls`).  `Throws` is every exception; the
container stays as it is.

### `DownloadArtifacts`

`Main` is the loop of `main()` over the repositories (`FindCommit`,
`GetChecksums`, `Poll`, `Ask`, `Report`, `Drain`); `Download(f)` is the
download of one file, all files of a repository at once.  A body may be
refused (the process ends), damaged (the checksum does not match, and the file
is requested again), or break off, in which case nothing ever settles and node
exits when nothing else is left to do.

### `KvQueries`

A call of `watchForKvCallbackUpdates()` goes through the places of `pc` in the
order of its awaits: the statuses before, one by one (`ReadPrev`), the remote
height (`ReadTarget`), the waits, the statuses after (`ReadStatus`), the
comparison (`ExpectNewer`).  Each query has its own `getWithAttempts`, which
advances on its own: `Look` is `getFunc` and `readyFunc` together, `NextAttempt`
and `NoBlock` are the two ways `waitBlocks(1)` ends; the first wait that rejects
rejects the call.  `Perform` is the test that changes the watched state itself,
waits with `waitForICQResultWithRemoteHeight()` and compares the contract's
result with the remote chain (`Validate`).  Every single query may throw.
Registering and removing happens between calls.  A result, a status and a
balance are reduced to the heights they stem from, as no helper looks at more
than whether they are new enough.  The relayer and both chains are external:
`Fetch` takes the state of any height whose header is there (a relayer that is
behind included), `Lose` drops it, `LocalBlock` submits any set of results,
of which Neutron refuses the ones that are not newer and those of a query that
was removed.

### `TestScript`, `RunInBand`

A test file awaits one thing after the other, so it is a list of steps (`Do`)
with a place in it, `step`; what a step does is an action of the module that
has the helper.  `height` is the height of Neutron, `begun` that at which the
step began: `waitBlocks(n)` is over n blocks later.  An `expect` that fails
ends the file, as does anything that throws with `--bail 1` (all scripts of
`package.json`); `vitest.config.mts` has no such bound, and without it the next
test begins (`Throws`).  `RunInBand` chooses one of eleven files: the tests of KV queries,
three lists of steps each from the tests of interchain transactions, of
transfers queries and of the DAOs, and one from those of the staking tracker.
The lists of all modules are joined with `Over`, as the operator `@@` of the
module TLC is unknown to the provers.

### `InterchainTx`

A packet is sent by `ExecuteDelegate`, received, acknowledged or timed out, and
its result goes through the contract's handler (`Sudo`), which stores it or,
with the mock, fails and leaves it to the contract manager.  What hermes
broadcasts (`HermesRelaysPacket`, `HermesRelaysResult`) is executed in steps of
its own (`RemoteExecutes`, `NeutronExecutes`), also when the container was paused
in between.  `relayPacketFromA` has three awaits and is three actions
(`RelayPackets`, which throws when the packet was relayed already,
`GetPendingAcks`, `RelayAcks`).  A wait may find what it waits for, or have used
up its attempts.  A timeout closes an ordered channel, and `RegisterAgain`
registers the account again.

### `TxQueries`

The contract's count of transfers is what `waitForTransfersAmount` polls, once
a block (`LookAtNumber`); the relayer handles a query when it is registered and
once a period, up to `lag` blocks late (`Handle`), and what it submits is in the
contract, or among the failures, a block later.  The periods and the attempts are
those of the tests; the blocks before failures are counted are a constant.

### `StakingTracker`

`bonded` is the history of the delegations by height.  A stake at height h is
that before block h, while the staking module answers with the latest; so the
three queries of `checkVotingPowerMatchBondedTokens` look at up to three heights,
and blocks come between them.  `SeesTx` looks at the code of a transaction
except for delegations, as the helpers do, so that one that failed shows only in
a later `ExpectGrowth`; `GivesUpTx` leaves it in the mempool,
where any later block may execute it.

### `Daos`

`deployNeutronDao` and `deploySubdao` are their uploads and the binary behind
each label; ids are assigned by the chain, and other files upload in between
(`UploadOfOthers`).  A proposal has a height, votes and a status; the power of a
vote is what was bonded before it.  A subDAO's proposal that is executed is
timelocked and gets an overrule proposal, open for ten blocks; after
`waitSeconds(20)` the test executes it.  An update of the parameters reads all of
them, changes one and writes all of them (`ReadParams`, `MessageOf`).  An execution
the client gave up on may come later (`ExecuteLate`).

## 4. Runs: what is checked

Each property of a passing run is also checked against a slip of the code (the
operators commented "a slip"), which breaks it.

| Run | Instance | What it shows |
|---|---|---|
| `parallel_tests` | 2 files, slices of 2 of 3 mnemonics, 2 transactions per account on Neutron, one file uses `signAndBroadcastSync` | `TypeOK`, `WalletsUnique`, the slices implement `WalletPool` (`PoolSpec`), `MismatchIsOwnFault`, `InFlightAlone` |
| `fund_wallets` | the four calls, 1 mnemonic, 3 attempts, 2 runs | `FundedOnSuccess`, `EnoughFunds`, `SetupEnds` |
| `fund_wallets_once` | the same, 1 run | `FundedOnce` does not hold |
| `cosmopark_setup` | small durations with the order of the real ones, all subsets of the flags | `RelayerReady`, `ChannelReady`, `SetupEnds` |
| `global_setup` | 3 runs; any stop may fail or leave something, any process may be killed | `FreshChain`, `NothingLeft` |
| `genesis_addresses` | the real lists, up to 2 failed stores, two more pairs in `AlsoTakes` | `AddressesRight`, `StartedComplete`, `GenesisRuns` |
| `slashing` | 9 stakes around 66%, 2/3 and 68%; calls for 12 blocks with 5 to miss, 16 and 17 with 15 | `Jailed`, `QuorumKept` |
| `slashing_delay` | stakes of 66.1% and 66.6%, the call of `staking-rewards.test.ts` | `EnoughVotingPower` does not hold |
| `slashing_jailed` | the same stakes, the call of `staking-tracker.test.ts` | `JailedByTheCall` does not hold |
| `run_in_band` | eleven files; 2 KV queries, 2 attempts, heights up to 3; the periods, waits and voting periods of the tests | see below |
| `interchain_tx` | the three files of interchain transactions | `DelegatedBefore` does not hold |
| `download_artifacts` | 2 repositories with a file name in common, 2 polls | `ReportedVerified`, `NothingOverwritten`, `Ends` |

`run_in_band` shows, besides `RunTypeOK`:

* KV queries: `CallbacksNewer`, `BalancesEqual` and `WaitEnds`.
* Interchain transactions: the delegations are those the test relayed, unless
  hermes had work left when it was paused (`DelegationsRight`); no packet is
  relayed twice and no wait by a paused hermes is in vain (`RelayedByHand`); the
  mock is off only when what was sent under it is handled (`AcksRight`).
* Transfers queries: the test that arranges the order of two queries sees that
  order, if it is quick enough and the relayer handles queries in the two blocks
  it is given (`NotOverlooked`); twice the period is enough attempts for a relayer
  up to two blocks short of a period late (`WaitSuffices`); the failures are all
  there when they are counted if the wait is longer than the period and the
  relayer's delay together (`FailuresCounted`).  With the file's five blocks and its
  period of four that is a relayer that is never late; for one a block late the
  run waits six.
* Staking tracker: the comparison fails only for a transaction that an earlier
  test gave up on (`MatchHolds`), which with `--bail 1` there is none of; the growth is wrong only if a
  delegation failed unseen or came late (`AmountsRight`); and a delegation that failed
  unseen does not get past the expectation, unless a late one makes up for it
  (`FailureNoticed`).
* DAOs: every contract runs its binary (`RightBinaries`); votes, passing,
  timelocking and execution happen as the tests expect, unless the chain makes
  fewer than ten blocks in twenty seconds (`ProposalsPass`); an update of one
  parameter takes no other back, unless an execution given up on came after the
  parameters were read (`UpdateKeepsOthers`).

### Bounds

* `parallel_tests`: the second file's slice is longer than what is left of the
  list, so both ways to run out happen.  Two transactions are what a sequence
  mismatch takes; `MaxSequence` bounds them per account, and on Gaia, which has
  the same client, wallets are only taken.  The proofs are for any number of
  files, networks, wallets and transactions.
* `fund_wallets`: 3 attempts are the code's.  Mnemonics are handled alike, so
  one is enough for the loop and its retry.  The second run meets a pending
  send of the first; with two runs on a chain of 10 units per IBC denom
  (`setup/scripts/2_init_genesis.sh:41`) the retries of both can use them up.
* `cosmopark_setup`: `ConfirmDelay + HermesSleep + BootDelay = 5 < 6 =
  3 * Sleep`; the proof is for all durations with that order.  Two connections
  let a failed attempt precede a good one.
* `global_setup`: a chain that is left over by run 1 must survive run 2's stop
  to reach run 3.  How often something goes wrong is not bounded.
* `genesis_addresses`: nothing is scaled down but the number of failures; two
  let ids coincide twice.  What a contract takes besides its own messages is
  unknown, so `MCAlsoTakes` supposes two cases: one binary is missing that is later
  sent an executed message, which may panic, and one that is not.
* `slashing`: the calls are those of the tests, with their real blocks: 12 with a
  window of 10 and 0.5 (`src/testcases/run_in_band/staking-rewards.test.ts:282`), 16
  with a window of 30 and 0.5 (`src/testcases/run_in_band/staking-tracker.test.ts:552`),
  and 17, the least that is enough there.  `MaxIdle` lets up to three blocks more
  than awaited pass in every step: the delegation can be executed, and be in force,
  before the pause or only after it.
* `run_in_band`, KV queries: an old result, one that is on its way and a new one need three
  remote heights; two blocks of Neutron after the first separate an old callback
  from a new one, and two attempts a look that is repeated from the last one.
  `MaxRemote` and `MaxLocal` stop the chains, which also makes them stand still
  in the middle of a wait.  The proofs are without these bounds' values.
* `run_in_band`, interchain transactions: the lists of steps are finite and have
  no bound besides.  Repeated tests (fees off, fees empty) are left out, and one of
  the sudo failures stands for those that differ in the kind of mock.
* `run_in_band`, transfers queries: periods 4 and 12 are the tests'; the wait
  before failures are counted is one longer than the test's 5, so that the relayer
  that is a block late is in time too (the proof has any wait, that of 5 included);
  two transfers per query stand for five.  `MaxLag` is the least with which the
  test's own wait would be too short, `MaxSlow` a block that the test takes itself.
* `run_in_band`, staking: one transaction given up on (`MaxGivenUp`) is enough for a
  late one; two blocks in a step (`MaxPause`) put each of the three queries at a
  height of its own.  `Others` is any number.
* `run_in_band`, DAOs: voting takes ten blocks, as in the code.  `VoteBlocks` lets
  each of two votes take five, which fills the period exactly.  `SleepBlocks` is one less than the overrule proposal
  needs, so that a chain too slow for the sleep is among the behaviours.  Two
  uploads of others fall between any two of the test's.
* `download_artifacts`: a file that a later repository overwrites needs two
  repositories; two files per repository interleave.

Deadlock is not checked: in every module the system stops when its work is
done (a run that ended, a list used up, a bound reached).

## 5. Fairness

Only the modules with a liveness property have fairness conditions.

* `FundWallets`: weak fairness of the client.  Every await of `fundWallets()`
  settles, because cosmjs polls with a timeout and the retries are counted.
  Nothing is assumed of the chain: a send need never be executed.
* `CosmoparkSetup`: weak fairness of `setup()` and of time.  The steps of
  hermes with a bounded delay are fair because time cannot pass the bound; the
  handshake itself and the blocks are not: hermes may hang for ever.
* `KvQueries`, `RunInBand`: weak fairness of the steps of a wait: queries and `waitBlocks`
  settle, the latter with a timeout.  Nothing is assumed of the relayer or the
  chains, so `WaitEnds` is about a wait that nobody answers too.
* `DownloadArtifacts`: weak fairness of `main()` and of the downloads, and
  strong fairness of a good body: a file that is requested over and over is
  not damaged every time.  Without that `downloadFile` calls itself without
  end; the code has no limit there.

## 6. Proofs

TLAPS checks the following for every value of the constants that satisfies
the named assumptions, however many steps a behaviour has.  Each `*_proofs`
module extends the modules it is about: `Setup_proofs` `GlobalSetup` and
`GenesisAddresses`, `Interchain_proofs` `KvQueries`, `TxQueries` and
`InterchainTx`, `RunInBand_proofs` these and `StakingTracker`, `Daos` and
`RunInBand`.

| Module | Theorem | Statement |
|---|---|---|
| `ParallelTests_proofs` | `TypeCorrect`, `Uniqueness`, `Refinement` (of `LocalState`) | `[]AllocTypeOK`, `[]WalletsUnique`, `Pool!Spec` |
| | `TypeCorrectParallel`, `UniqueParallel`, `PoolParallel`, `Alone`, `OwnFault` | `[]TypeOK`, `[]WalletsUnique`, `PoolSpec`, `[]InFlightAlone`, `[]MismatchIsOwnFault` |
| `FundWallets_proofs` | `TypeCorrect`, `Funded`, `Enough` | `[]TypeOK`, `[]FundedOnSuccess`, `[]EnoughFunds` |
| `CosmoparkSetup_proofs` | `TypeCorrect`, `Relaying`, `ChannelOpened` | `[]TypeOK`, `[]RelayerReady`, `[]ChannelReady` |
| `Setup_proofs` | `TypeCorrect`, `Fresh`, `CleanEnd` (of `GlobalSetup`) | `[]TypeOK`, `[]FreshChain`, `[]NothingLeft` |
| | `AddressesAgree`, `NothingMissing`, `GenesisNeverPanics` (of `GenesisAddresses`) | `[]AddressesRight`, `[]StartedComplete`, `[]GenesisRuns` |
| | `OnlyMultipleMissed` | with `AlsoTakes = {}`, a chain that starts lacks the binary of the multiple-choice pre-propose module at most |
| `SlashingSimulation_proofs` | `TypeCorrect`, `JailedOnReturn`, `EnoughKeepsQuorum` | `[]TypeOK`, `[]Jailed`, `[]QuorumKept` |
| | `TwoMoreAreEnough` | a call for two blocks more than may be missed returns with the validator jailed |
| `Interchain_proofs` | `TypeCorrect`, `NewerOnReturn`, `EqualAfterWait` (of `KvQueries`) | `[]TypeOK`, `[]CallbacksNewer`, `[]BalancesEqual` |
| | `TxTypeCorrect`, `OrderSeen`, `AttemptsSuffice`, `AllFailuresCounted` (of `TxQueries`) | `[]TxTypeOK`, `[]NotOverlooked`, `[]WaitSuffices`, `[]FailuresCounted` |
| | `IcaTypeCorrect`, `DelegationsFound`, `NothingRelayedTwice`, `AcksAsExpected` (of `InterchainTx`) | `[]IcaTypeOK`, `[]DelegationsRight`, `[]RelayedByHand`, `[]AcksRight` |
| `RunInBand_proofs` | `TrackerTypeCorrect`, `PowerMatches`, `AmountsAddUp` (of `StakingTracker`) | `[]TrackerTypeOK`, `[]MatchHolds`, `[]AmountsRight` |
| | `DaoTypeCorrect`, `BinariesRight`, `ProposalsCarried`, `OthersKept` (of `Daos`) | `[]DaoTypeOK`, `[]RightBinaries`, `[]ProposalsPass`, `UpdateKeepsOthers` |
| | `RunTypeCorrect`, `RunProperties`, `RunUpdates` (of `RunInBand`) | `[]RunTypeOK`, the twelve other invariants of its run, `UpdateKeepsOthers` |
| `DownloadArtifacts_proofs` | `TypeCorrect`, `Verified`, `Consent` | `[]TypeOK`, `[]ReportedVerified`, `NothingOverwritten` |

The arguments:

* **Wallets.**  Assumptions: the names of the directory are distinct, files
  without a suite run alone.  `WalletsUnique` speaks of what was handed out and
  says nothing of the next offset, so it is not inductive.  The invariant says
  that a file's k-th wallet lies in the file's slice and below its next offset,
  that offsets stay within the slice, that what a file has grows strictly, and
  that the position of a file is its index in the listing.  Slices of distinct
  positions are disjoint (a lemma of arithmetic), so no wallet can be the same;
  and as the next offset is above all earlier ones, a step of the slice is a
  `Take` of the pool, or a stutter when the call throws.
* **Sequences.**  `InFlightAlone` and `MismatchIsOwnFault` are about clients and
  mempools together.  The invariant adds to the one of the wallets that what was
  handed out is prefunded (`GivenCounted`), that a client without a wallet is idle,
  that nothing is pending of an account nobody was given (a wallet is clean when
  it is handed out), and that a file that waits leaves nothing pending between
  its calls (`IdleQuiet`).  A step of one wallet's client reaches no other,
  because by `WalletsUnique` no other has that wallet.
* **Funds.**  The properties speak of outcomes, so the invariant counts attempts:
  what a denom lacks was spent by sends, each of which, as the one pending, was
  an attempt of some run on this chain (`Spent`), and the attempts of a call are
  bounded (`AttemptsLeft`).  Of the pending send it says whose it is
  (`PendingKnown`): one of an earlier run has another hash, so its execution is not taken for
  this run's.
* **Relaying.**  Assumption `HermesInTime`: what hermes still does once Neutron's
  end is open (confirm, the sleep of its own, the start) takes less than three
  sleeps of `setup()`.  It is an assumption about the world: the code has no
  other reason to work, and its FIXME says so.  The invariant has three parts:
  what the channel's ends are at each place of hermes; what `setup()` must have
  seen to be where it is; and a comparison of two quantities, the time hermes
  still needs at most (`HermesLeft`) and the time `setup()` still sleeps at least
  (`SetupLeft`): the former is the smaller one once the channel was seen, a tick
  takes one from both, and when `setup()` returns with nothing left to sleep
  hermes has nothing left to do.
* **Runs.**  The invariant ties `chain` to what `stops` says at each place of the
  process: a stop that is done leaves no containers, so after the stop of a run
  they are an earlier run's only if it was not done; past the first stop of a
  teardown that one left something or did not.
* **Addresses.**  Assumption: the number of failures is a number.  The lists of
  the script and the order in which the chain instantiates are compared once, in
  lemmas about the tables: `NextContract` says that what is left to instantiate
  after each of the 29 contracts is what is left before the next one,
  `MessageContract` where each message begins, `ReferencedPredicted` that every
  contract whose address is written down is predicted at the place where the
  chain comes to it, with its binary.  `GenesisInv` ties the variables to the
  tables: what is an id of a stored binary and what has no message (`IdsRight`),
  which messages follow those that store (`MessagesRight`), what has been
  predicted (`PredictionsRight`), and how far the chain is (`ChainRight`).  A
  contract is only there if its code took its message.  A binary that was stored is
  the one its id names; every binary is some contract's, so one that was not stored
  and is not missed has another in its place that took the messages of all its
  contracts: it is in `Replaceable`.  Which that are without `AlsoTakes` is read off
  the table of messages.
* **Jailed.**  The next blocks that are not missed are those whose votes are there or
  were sent before the pause, two at most (`Ahead`); so a validator that is not
  jailed has missed all blocks of the wait but those (`JailInv`), and of the two
  blocks after it at least one tells, as a vote comes a block later than it is cast.
  It has missed at most `maxMissed`.
* **Quorum.**  Until the delegation is executed what was read is what there is; then
  the alternative validator has 68% of it, and the voters have the power from before
  or from after it (`StakesInv`).  With more than 66%, 68% of the total before the
  delegation are more than 2/3 of the total after it, once they are in force
  (`InForce`); one that was found with 2/3 keeps them with either.
* **Queries.**  Assumptions: a positive number of attempts, positive bounds.  Both
  properties only speak of the end of a call, so the invariant says what each
  place knows.  What Neutron has of the remote chain is behind it by a header
  (`Heights`); so when the target height is read, no result of that height can
  be there, nor be on its way.  One that is there later was submitted after the
  first statuses were read, and Neutron calls back in a later block than any
  before: its status is newer (`TargetInv`).  Results only grow, so what ended
  one wait is still there when the others end (`ReadyInv`).
* **Transfers.**  Assumption `PeriodAssumption`: the test itself checks that one
  period is three times the other or more
  (`src/testcases/run_in_band/interchain_tx_query_plain.test.ts:639`), so it is not
  the shorter one.  `FailuresCounted` has as its hypothesis that the wait
  (`src/testcases/parallel/interchain_tx_query_resubmit.test.ts:119`) is longer than
  the period and the delay (`CountInTime`).  The invariant counts blocks: a query was handled at most a
  period and the lag ago (`Handling`), so what was sent before a step began is
  there by then (`Due`); and a wait has looked in every block since it began
  (`Looks`), so it has seen the number it asks for, or the number was passed in
  between two blocks.
* **Packets.**  A packet's fate depends on hermes, two chains, a timeout and the
  mock, in any order; what is certain is what a step of the test has waited for.
  For each of the three files the invariant says which packets are handled at
  which steps (`SendInv`, `SudoFailureInv`, `UnorderedInv`); what was delegated
  follows from the packets that were executed (`Added`).  The only packet nobody
  waits for is the one of the finding in section 7.
* **Stakes.**  After the blocks a test waits for, the delegations have been the
  same since before that step, or since the last late transaction (`Quiet`,
  `Since`): each of the three heights of a comparison is after that, so the
  answers agree (`Agreed`).  The first test's growth is what it delegated,
  because nothing was delegated before it (`Before`, `Delegated`).
* **Proposals.**  Assumption `DaoAssumption`: two votes fit in the voting period
  (in the code two transactions in ten blocks).  The proposal in hand is the
  latest one, open, and of the kind the step expects (`Pending`); the step of a
  vote began when it was opened or a vote later, so the vote is in time
  (`InVoting`), and enough has been voted when it is executed (`Voted`).
  `Uploaded` ties an answer to its own transaction, which ids counted by the test
  would not be.  `Fresh` says that an update in hand is what there is but for one
  parameter, unless `stale` was set by a late execution.
* **One file of many.**  `RunInv` has for each module its invariant when one of its
  files was chosen, and its initial state otherwise: the invariants speak of the
  steps of their own files and need not hold of another's.  The files of two
  modules have no name in common, so a step of one leaves the others' state alone.
* **Downloads.**  The state of a task is tied to the file on disk: a task that
  is done has the content of the current repository; and a repository reported
  keeps its files until one with the same name is handled.  `Consent` also
  needs that a download of a directory with old files only runs with
  `REWRITE_FILES`.

### Only model-checked

* Liveness: `SetupEnds` (twice), `WaitEnds`, `Ends`.
  TLAPS proves nothing under fairness.
* That the modules' bounds let the interesting cases happen: it is what the slips
  of section 4 show.
* `FailureNoticed`.
* The four properties that do not hold (section 7).

The theorems about `InterchainTx`, which has no constant, say what the run says;
they are there for `RunProperties` and for the argument, which a run does not give.

## 7. Disagreements found

* `fund_wallets_once`: the broadcast is retried after any exception, also one
  thrown after the chain has the transaction (`src/global_setup.ts:214`).  Every
  wallet can get its amount up to three times.  `EnoughFunds` shows that the rich account can
  afford it on a fresh chain.
* `slashing_delay`: the container is paused right after the delegation
  (`src/helpers/staking.ts:252`), but new power counts two blocks later.  A validator
  found with 661 of 1000 tokens gets enough and still has no quorum on the next
  block, so the chain halts until the wait times out.  Where a test delegates for the
  same reason it waits two blocks
  (`src/testcases/run_in_band/staking-tracker.test.ts:725`).
* `slashing_jailed`: the call asks for 16 blocks
  (`src/testcases/run_in_band/staking-tracker.test.ts:559`) where 15 may be missed, and
  the test throws if the validator is not jailed then (line 567).  A vote sent before
  the pause makes it miss 15.  `TwoMoreAreEnough` says what would do; the call of
  `staking-rewards.test.ts` asks for that, and more.
* `interchain_tx`: the delegation of 100 on the unordered channel is followed by
  one call of `getAck`, whose answer nobody reads, where every other test calls
  `waitForAck` (`src/testcases/run_in_band/interchaintx.test.ts:1336`).  The next
  test pauses hermes, and expects the delegation to be there (line 1373).
  `DelegationsRight` shows that this is the only reason for which the numbers
  can be wrong.

Three more stand in what the passing runs and the theorems say:

* The 68% are of the total before the delegation (`src/helpers/staking.ts:241`), which
  the delegation raises.  A validator with 400 of 1000 tokens ends up with 680 of
  1280, and the chain halts when the other one is paused, even with the delegation in
  force.  The 66% in `QuorumKept` are the limit from which on it is enough.
* `set -e` (`setup/scripts/3_update-genesis.sh:2`) does not hold in the command
  substitution of `store_binary`.  A binary that was not stored makes the chain panic,
  unless another takes its messages.  That is so for the multiple-choice pre-propose
  module: it is sent the message of the single-choice one (lines 336 and 370), whose
  id it gets, so the chain starts with the wrong binary and nothing has reported it.
  `StartedComplete` has this case, and `OnlyMultipleMissed` says that by the script's own
  messages it is the only one.
* The section that predicts addresses and the one that instantiates are not
  consistent, as the script asks for (line 244): the pre-propose contract of the security
  subDAO is predicted with another binary than it is instantiated with (lines 280 and
  550), and the group of the grants subDAO is predicted last (line 286) and
  instantiated right after its voting module.  `AddressesRight` shows why nothing
  breaks: none of the five addresses this makes wrong is written anywhere.

## 8. What is not modelled

* The contracts, the chains' modules, hermes' relaying and the query relayer:
  programs of other repositories.  Where the harness depends on them they are
  modelled from its use of them and marked external in `PROJECT.json`.
* The test cases other than those of interchain queries and transactions,
  of the staking tracker and of the DAOs: straight-line clients of the helpers,
  and of contracts of other repositories.  Of the modelled ones those that repeat
  steps, or only look at a field of an answer.
* `migrate` and `simulateFeeBurning` of the client, `getTrackedValidators` and the
  like: single transactions and queries that nothing is compared with.
* Signers, encodings, constants, builders of messages and proposals: functions
  without state.
* `2_init_genesis.sh`, the configuration of the nodes, the CI workflows:
  straight lines of commands without a decision.
* Node's and docker's own failures beyond those named in the modules: a
  process that is killed is modelled where it leaves something (`GlobalSetup`).
* Fees: they are eight orders of magnitude below the amounts sent.  That the
  fixed gas of a send may not suffice is modelled (`FundWallets`, `Commit`).
