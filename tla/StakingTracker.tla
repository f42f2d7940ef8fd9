---------------------------- MODULE StakingTracker ----------------------------
(***************************************************************************)
(* Delegating, undelegating and redelegating, and comparing what the        *)
(* staking tracker, the vault and the staking module say of a delegator     *)
(* (src/helpers/staking.ts), as "Delegate/Undelegate/Redelegate tokens to   *)
(* multiple validators" of staking-tracker.test.ts does.  Every comparison  *)
(* is made of several queries, between which the chain goes on.             *)
(*                                                                          *)
(* The contracts are external: a stake at height h is the one before block  *)
(* h, a query without a height means the latest; the staking module answers *)
(* with the state after the latest block.  A transaction the client gave up *)
(* on stays in the mempool and may be executed by any later block, also     *)
(* after its test threw and vitest, without --bail, went on to the next.    *)
(***************************************************************************)
EXTENDS TestScript, FiniteSets

CONSTANTS
  Others,      \* what everybody else has delegated
  MaxGivenUp,  \* bound: transactions the client gives up on
  MaxPause     \* bound: blocks a step takes

ASSUME TrackerAssumption == {Others, MaxGivenUp, MaxPause} \subseteq Nat

VARIABLES
  bonded,      \* bonded[h][v]: the delegation to v after block h
  mempool,     \* transactions on their way
  awaiting,    \* what became of the one the test awaits: "sent", "ok", "failed"
  lateAt,      \* height of the last one executed that was not awaited, or 0
  failed,      \* a delegation failed, unseen
  noted,       \* noted[n]: heights the test keeps
  seen,        \* the answers of the step so far
  infos        \* the stake infos of the test

trackerVars == <<scriptVars, bonded, mempool, awaiting, lateAt, failed, noted, seen, infos>>

Validators == {"weak", "strong"}
StakingTx(op, from, to, amount) ==
  Do(op, [from |-> from, to |-> to, amount |-> amount])

Delegation(v) == StakingTx("delegateTokens", "none", v, 2)
Undelegation(v) == StakingTx("undelegateTokens", v, "none", 1)
Compare == << Do("checkVotingPowerMatchBondedTokens", 0) >>

StakingTests ==
  << Do("test", 0), Do("getHeight", "before"), Delegation("weak"), Delegation("strong"),
     Do("waitBlocks", 2), Do("getHeight", "after"),
     Do("getTrackedStakeInfo", "before"), Do("getTrackedStakeInfo", "after"),
     Do("expectGrowth", 4) >> \o Compare \o
  << Do("test", 0), StakingTx("redelegateTokens", "weak", "strong", 1),
     Do("waitBlocks", 2) >> \o Compare \o
  << Do("test", 0), Undelegation("weak"), Undelegation("strong"), Do("waitBlocks", 2),
     Do("getVaultVPInfo", "latest") >> \o Compare

TrackerFiles == [staking_tracker |-> StakingTests]

TrackerInit ==
  /\ bonded = << [v \in Validators |-> 0] >>
  /\ mempool = {} /\ awaiting = "no" /\ lateAt = 0 /\ failed = FALSE
  /\ noted = [n \in {"before", "after"} |-> 0] /\ seen = <<>> /\ infos = <<>>

chainVars == <<bonded, mempool, lateAt, failed>>

(* Blocks before the first have changed nothing. *)
Stake(h) == IF h = 0 THEN 0 ELSE bonded[h]["weak"] + bonded[h]["strong"]

(* stake_at_height, voting_power_at_height and their totals *)
StakeAtHeight(h) == Stake(h - 1)
TotalAtHeight(h) == Stake(h - 1) + Others

TestThrows ==
  /\ Throws
  /\ seen' = <<>> /\ infos' = <<>> /\ UNCHANGED noted

-------------------------------------------------------------------------------
(* Transactions                                                             *)

StakingOp == {"delegateTokens", "undelegateTokens", "redelegateTokens"}
InStakingTx == \E op \in StakingOp : Running(op)

(* signAndBroadcast: the transaction is in the mempool. *)
BroadcastStaking ==
  /\ InStakingTx /\ awaiting = "no"
  /\ mempool' = mempool \union {[id |-> step, tx |-> Arg, op |-> tests[step].op]}
  /\ awaiting' = "sent"
  /\ UNCHANGED <<scriptVars, bonded, lateAt, failed, noted, seen, infos>>

Awaited == {m \in mempool : awaiting = "sent" /\ m.id = step}

(* The client sees the transaction in a block: the code of a delegation is  *)
(* not looked at, `expect` throws on that of the others.                    *)
SeesTx ==
  /\ awaiting \in {"ok", "failed"} /\ awaiting' = "no"
  /\ IF awaiting = "failed" /\ ~ Running("delegateTokens")
       THEN TestThrows ELSE StepDone /\ UNCHANGED <<noted, seen, infos>>
  /\ failed' = (failed \/ (awaiting = "failed" /\ Running("delegateTokens")))
  /\ UNCHANGED <<bonded, mempool, lateAt>>

(* It is not seen in time. *)
GivesUpTx ==
  /\ Awaited # {} /\ Cardinality(mempool) <= MaxGivenUp
  /\ awaiting' = "no" /\ TestThrows
  /\ UNCHANGED chainVars

(* What a transaction makes of the delegations *)
Moved(b, tx) ==
  [v \in Validators |-> b[v] + (IF v = tx.to THEN tx.amount ELSE 0)
                             - (IF v = tx.from THEN tx.amount ELSE 0)]
Possible(b, tx) == tx.from \in Validators => b[tx.from] >= tx.amount

(* A block has one transaction at most, which may fail (what a late one     *)
(* that fails does is like never coming).  Blocks come while the test waits *)
(* or is between two queries of a step.                                     *)
TrackerBlock ==
  /\ verdict = "running" /\ step <= Len(tests)
  /\ IF Running("waitBlocks") THEN ~ BlocksPassed(Arg)
     ELSE Awaited # {} \/ seen # <<>>
  /\ ~ BlocksPassed(MaxPause)
  /\ height' = height + 1
  /\ \/ /\ bonded' = Append(bonded, bonded[height])
        /\ UNCHANGED <<mempool, awaiting, lateAt>>
     \/ \E m \in mempool :
          /\ mempool' = mempool \ {m} /\ Possible(bonded[height], m.tx)
          /\ bonded' = Append(bonded, Moved(bonded[height], m.tx))
          /\ IF m \in Awaited THEN awaiting' = "ok" /\ UNCHANGED lateAt
                              ELSE lateAt' = height + 1 /\ UNCHANGED awaiting
     \/ /\ Awaited # {} /\ mempool' = mempool \ Awaited
        /\ bonded' = Append(bonded, bonded[height])
        /\ awaiting' = "failed" /\ UNCHANGED lateAt
  /\ UNCHANGED <<file, tests, step, verdict, begun, failed, noted, seen, infos>>

-------------------------------------------------------------------------------
(* Steps of one query or none                                               *)

BeginTest ==
  /\ Running("test") /\ StepDone
  /\ UNCHANGED <<chainVars, awaiting, noted, seen, infos>>

(* a slip: the comparison follows the transaction at once *)
TrackerWaitNone ==
  /\ Running("waitBlocks") /\ StepDone
  /\ UNCHANGED <<chainVars, awaiting, noted, seen, infos>>

TrackerWaitBlocks ==
  /\ Running("waitBlocks") /\ BlocksPassed(Arg) /\ StepDone
  /\ UNCHANGED <<chainVars, awaiting, noted, seen, infos>>

NoteHeight ==
  /\ Running("getHeight") /\ StepDone
  /\ noted' = [noted EXCEPT ![Arg] = height]
  /\ UNCHANGED <<chainVars, awaiting, seen, infos>>

(* a slip: any growth will do *)
ExpectAnyGrowth ==
  /\ Running("expectGrowth")
  /\ Expect(infos[2].stake > infos[1].stake, "amount_differs")
  /\ infos' = <<>>
  /\ UNCHANGED <<chainVars, awaiting, noted, seen>>

ExpectGrowth ==
  /\ Running("expectGrowth")
  /\ Expect(infos[1].stake = 0 /\ infos[2].stake = Arg, "amount_differs")
  /\ infos' = <<>>
  /\ UNCHANGED <<chainVars, awaiting, noted, seen>>

-------------------------------------------------------------------------------
(* Steps of several queries, with blocks between them                       *)

Answer(value) ==
  /\ seen' = Append(seen, value)
  /\ UNCHANGED <<scriptVars, chainVars, awaiting, noted, infos>>

(* a slip: the height is not passed on *)
InfoHeightLatest(name) == height

(* The height that was given, or the latest *)
InfoHeight(name) == IF name = "latest" THEN height ELSE noted[name]

Info(op) ==
  /\ Running(op)
  /\ \/ seen = <<>> /\ Answer(InfoHeight(Arg))
     \/ Len(seen) = 1 /\ Answer(StakeAtHeight(seen[1]))
     \/ /\ Len(seen) = 2 /\ StepDone
        /\ infos' = Append(infos, [height |-> seen[1], stake |-> seen[2],
                                   total |-> TotalAtHeight(seen[1])])
        /\ seen' = <<>>
        /\ UNCHANGED <<chainVars, awaiting, noted>>

getTrackedStakeInfo == Info("getTrackedStakeInfo")
getVaultVPInfo == Info("getVaultVPInfo")

(* The balances of all delegations added up *)
getBondedTokens == Stake(height)

checkVotingPowerMatchBondedTokens ==
  /\ Running("checkVotingPowerMatchBondedTokens")
  /\ \/ Len(seen) < 2 /\ Answer(StakeAtHeight(height))
     \/ /\ Len(seen) = 2
        /\ Expect(seen[1] = seen[2] /\ getBondedTokens = seen[2], "mismatch")
        /\ seen' = <<>>
        /\ UNCHANGED <<chainVars, awaiting, noted, infos>>

TrackerNext ==
  \/ BroadcastStaking \/ SeesTx \/ GivesUpTx \/ TrackerBlock
  \/ BeginTest \/ TrackerWaitBlocks \/ NoteHeight \/ ExpectGrowth
  \/ getTrackedStakeInfo \/ getVaultVPInfo \/ checkVotingPowerMatchBondedTokens

TrackerSpec ==
  ScriptInit(TrackerFiles) /\ TrackerInit /\ [][TrackerNext]_trackerVars

-------------------------------------------------------------------------------
(* The variables have their types. *)
TrackerTypeOK ==
  /\ ScriptTypeOK
  /\ file = "staking_tracker" => Len(bonded) = height
  /\ \A h \in DOMAIN bonded : bonded[h] \in [Validators -> Nat]
  /\ {m.id : m \in mempool} \subseteq 1 .. Len(tests)
  /\ awaiting \in {"no", "sent", "ok", "failed"} /\ failed \in BOOLEAN
  /\ lateAt \in 0 .. height /\ noted \in [{"before", "after"} -> 0 .. height]
  /\ Len(seen) <= 2 /\ Len(infos) <= 2

(* checkVotingPowerMatchBondedTokens reads at up to three heights, the      *)
(* first two without the last block: after waitBlocks(2) they agree, unless *)
(* a transaction that an earlier test gave up on is executed in the very    *)
(* block the comparison begins at or later.                                 *)
MatchHolds == verdict = "mismatch" => lateAt >= begun

(* The growth between two heights is the one of the transactions awaited    *)
(* between them, unless one of them failed unseen or came late.             *)
AmountsRight == verdict = "amount_differs" => failed \/ lateAt > 0

(* A delegation that failed, whose code nobody looked at, does not get past *)
(* the expectation of the growth, unless one that came late makes up for    *)
(* it.                                                                      *)
FailureNoticed ==
  [][Running("expectGrowth") /\ step' # step /\ failed => lateAt > 0]_trackerVars
===============================================================================
