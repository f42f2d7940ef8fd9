--------------------------- MODULE RunInBand_proofs ---------------------------
(***************************************************************************)
(* Proofs about the staking tracker and the DAOs, and about all the files   *)
(* together.                                                                *)
(*                                                                          *)
(* StakingTracker: after the blocks a test waits for, the delegations have  *)
(* been the same since before the step began, or since the last transaction *)
(* that was given up on (Quiet, Since), so answers at different heights     *)
(* agree (Agreed); what was delegated at each step of the first test, and   *)
(* before it, gives the growth it expects (Delegated, Before).              *)
(*                                                                          *)
(* Daos: an upload is answered with the id of its own transaction           *)
(* (Uploaded).  The proposal that is voted on is the latest, of the module  *)
(* and of the kind the step is for (Pending, Voted); the step of a vote     *)
(* began when the proposal was opened, or one vote later (InVoting).  The   *)
(* parameters of an update are those there are, but one (Fresh).            *)
(*                                                                          *)
(* RunInBand: one file is run, and the variables of the others rest in      *)
(* their initial states, where their invariants need not hold (RunInv).     *)
(* What is proved of each file in Interchain_proofs and here is then true   *)
(* of the specification that the run checks.                                *)
(***************************************************************************)
EXTENDS RunInBand, Interchain_proofs, FiniteSetTheorems, TLAPS

-------------------------------------------------------------------------------
(* StakingTracker                                                           *)

LEMMA StakingSteps ==
  /\ Len(StakingTests) = 20
  /\ \A i \in {1, 11, 15} : StakingTests[i] = Do("test", 0)
  /\ StakingTests[2] = Do("getHeight", "before")
  /\ StakingTests[3] = Delegation("weak") /\ StakingTests[4] = Delegation("strong")
  /\ \A i \in {5, 13, 18} : StakingTests[i] = Do("waitBlocks", 2)
  /\ StakingTests[6] = Do("getHeight", "after")
  /\ StakingTests[7] = Do("getTrackedStakeInfo", "before")
  /\ StakingTests[8] = Do("getTrackedStakeInfo", "after")
  /\ StakingTests[9] = Do("expectGrowth", 4)
  /\ \A i \in {10, 14, 20} : StakingTests[i] = Do("checkVotingPowerMatchBondedTokens", 0)
  /\ StakingTests[12] = StakingTx("redelegateTokens", "weak", "strong", 1)
  /\ StakingTests[16] = Undelegation("weak") /\ StakingTests[17] = Undelegation("strong")
  /\ StakingTests[19] = Do("getVaultVPInfo", "latest")
BY DEF StakingTests, Compare

TxAt == {3, 4, 12, 16, 17}

LEMMA StakingOps ==
  ASSUME tests = StakingTests, step \in 1 .. 21
  PROVE  /\ Running("test") => step \in {1, 11, 15}
         /\ Running("getHeight") => step \in {2, 6} /\ Arg = IF step = 2 THEN "before" ELSE "after"
         /\ Running("delegateTokens") => step \in {3, 4}
         /\ InStakingTx => step \in TxAt
         /\ step \in TxAt /\ verdict = "running"
                 => InStakingTx /\ (Running("delegateTokens") <=> step \in {3, 4})
         /\ Running("waitBlocks") => step \in {5, 13, 18} /\ Arg = 2
         /\ Running("getTrackedStakeInfo")
                 => step \in {7, 8} /\ Arg = IF step = 7 THEN "before" ELSE "after"
         /\ Running("expectGrowth") => step = 9 /\ Arg = 4
         /\ Running("checkVotingPowerMatchBondedTokens") => step \in {10, 14, 20}
         /\ Running("getVaultVPInfo") => step = 19 /\ Arg = "latest"
<1>1. Len(tests) = 20
  BY StakingSteps
<1> QED BY <1>1, StakingSteps DEF Running, Do, InStakingTx, StakingOp, Delegation, Undelegation,
          StakingTx, TxAt, Arg

-------------------------------------------------------------------------------
Delegations == [Validators -> Nat]
StakeInfos == [height : Nat, stake : Nat, total : Nat]

(* The variables have their types; what is in the mempool comes from the     *)
(* script.                                                                  *)
TrackerScript ==
  /\ file = "staking_tracker" /\ tests = StakingTests
  /\ step \in 1 .. 21 /\ height \in Nat \ {0} /\ begun \in 1 .. height

TrackerChain ==
  /\ bonded \in Seq(Delegations) /\ Len(bonded) = height
  /\ \A m \in mempool : m.id \in TxAt /\ m.tx = StakingTests[m.id].arg
  /\ lateAt \in 0 .. height

TrackerTest ==
  /\ awaiting \in {"no", "sent", "ok", "failed"}
  /\ noted \in [{"before", "after"} -> 0 .. height]
  /\ seen \in Seq(Nat) /\ Len(seen) <= 2
  /\ infos \in Seq(StakeInfos)

(* Where a transaction is awaited and answers are kept                      *)
Places ==
  /\ awaiting # "no" => step \in TxAt /\ verdict = "running"
  /\ seen # <<>> => step \in {7, 8, 10, 14, 19, 20}
  /\ step < 8 \/ step \in 10 .. 19 => infos = <<>>
  /\ step = 8 => Len(infos) = 1
  /\ step = 9 => Len(infos) = IF verdict = "running" THEN 2 ELSE 0
  /\ step >= 20 => Len(infos) <= 1

(* The delegations have been the same since block h, or the last late one.  *)
Since(h) ==
  \A k \in 1 .. height : lateAt <= k /\ h <= k => bonded[k] = bonded[height]

Quiet ==
  /\ step \in {5, 13, 18} => Since(begun)
  /\ step \in {6, 7, 8, 9, 10, 14, 19, 20} => begun >= 3 /\ Since(begun - 1)

(* Answers of a comparison agree, and with what there is.                   *)
Agreed ==
  step \in {10, 14, 20} /\ lateAt < begun =>
    \A i \in 1 .. Len(seen) : seen[i] = Stake(height)

(* What has been delegated at each step of the first test                   *)
Delegated ==
  lateAt = 0 /\ ~ failed =>
    /\ step <= 3 => Stake(height) = IF awaiting = "ok" THEN 2 ELSE 0
    /\ step = 4 => Stake(height) = IF awaiting = "ok" THEN 4 ELSE 2
    /\ step \in 5 .. 9 => Stake(height) = 4
    /\ step \in 7 .. 9 => Stake(noted["after"] - 1) = 4
    /\ step = 9 /\ verdict = "running" => infos[2].stake = 4

(* and at its beginning                                                     *)
Before ==
  /\ Stake(1) = 0
  /\ step <= 2 \/ (step = 3 /\ awaiting = "no" /\ verdict = "running") => height = 1
  /\ step \in 3 .. 9 => noted["before"] = 1
  /\ step \in 7 .. 9 => noted["after"] > 1
  /\ step \in {8, 9} /\ Len(infos) > 0 => infos[1].stake = 0

(* The answers of a stake info                                              *)
InfoAnswers ==
  /\ step \in {7, 8, 19} /\ Len(seen) >= 1 => seen[1] \in 1 .. height
  /\ step \in {7, 8} =>
       /\ Len(seen) >= 1 => seen[1] = IF step = 7 THEN 1 ELSE noted["after"]
       /\ Len(seen) = 2 => seen[2] = Stake(seen[1] - 1)

TrackerInv ==
  /\ TrackerScript /\ TrackerChain /\ TrackerTest
  /\ failed \in BOOLEAN
  /\ Places
  /\ Quiet /\ Agreed
  /\ Delegated /\ Before /\ InfoAnswers
  /\ MatchHolds /\ AmountsRight

LEMMA TrackerInitInv ==
  ASSUME ScriptInit(TrackerFiles), TrackerInit
  PROVE  TrackerInv
<1>1. /\ file = "staking_tracker" /\ tests = StakingTests /\ step = 1
      /\ verdict = "running" /\ height = 1 /\ begun = 1
  BY DEF TrackerFiles, ScriptInit
<1>2. /\ bonded = << [v \in Validators |-> 0] >>
      /\ mempool = {} /\ awaiting = "no" /\ lateAt = 0 /\ failed = FALSE
      /\ noted = [n \in {"before", "after"} |-> 0] /\ seen = <<>> /\ infos = <<>>
  BY DEF TrackerInit
<1>3. [v \in Validators |-> 0] \in Delegations /\ Stake(1) = 0
  BY <1>2 DEF Stake, Delegations, Validators
<1>4. TrackerScript
  BY <1>1 DEF TrackerScript
<1>5. TrackerChain
  BY <1>1, <1>2, <1>3 DEF TrackerChain
<1>6. TrackerTest
  BY <1>1, <1>2 DEF TrackerTest
<1>7. Places /\ Quiet /\ Agreed /\ Delegated /\ Before /\ InfoAnswers
  BY <1>1, <1>2, <1>3 DEF Places, Quiet, Agreed, Delegated, Before, InfoAnswers
<1>8. failed \in BOOLEAN
  BY <1>2
<1> QED BY <1>1, <1>4, <1>5, <1>6, <1>7, <1>8 DEF TrackerInv, MatchHolds, AmountsRight

(* Without --bail the test goes on with the next one.                       *)
LEMMA TrackerNextTest ==
  ASSUME TrackerScript, step <= 20, NextTestBegins
  PROVE  step' \in {11, 15, 21} /\ step' > step
<1> DEFINE later == {i \in step + 1 .. Len(tests) : tests[i].op = "test"}
<1>1. Len(tests) = 20 /\ step \in 1 .. 20 /\ tests = StakingTests
  BY StakingSteps DEF TrackerScript
<1>2. later = {11, 15} \intersect step + 1 .. 20
  BY <1>1, StakingSteps DEF Do, Delegation, Undelegation, StakingTx
<1>3. step' = CHOOSE i \in later \union {21} : \A j \in later : i <= j
  BY <1>1 DEF NextTestBegins
<1> HIDE DEF later
<1>4. \E i \in later \union {21} : \A j \in later : i <= j
  <2>1. CASE step < 11
    BY <1>1, <1>2, <2>1
  <2>2. CASE step >= 11 /\ step < 15
    BY <1>1, <1>2, <2>2
  <2>3. CASE step >= 15
    BY <1>1, <1>2, <2>3
  <2> QED BY <1>1, <2>1, <2>2, <2>3
<1> QED BY <1>1, <1>2, <1>3, <1>4

(* What the state after a block is worth                                    *)
LEMMA StakeTypes ==
  ASSUME TrackerScript, TrackerChain, NEW h \in 0 .. height
  PROVE  Stake(h) \in Nat /\ Stake(0) = 0
BY DEF TrackerScript, TrackerChain, Stake, Delegations, Validators

-------------------------------------------------------------------------------
(* Transactions                                                             *)

(* The test throws while it awaits a transaction.                           *)
LEMMA TrackerThrows ==
  ASSUME TrackerInv, verdict = "running", step \in TxAt,
         step \in {3, 4} => awaiting = "sent",
         TestThrows, awaiting' = "no", failed' \in BOOLEAN, failed => failed',
         UNCHANGED <<bonded, mempool, lateAt>>
  PROVE  TrackerInv'
<1> USE DEF TxAt
<1>1. /\ seen' = <<>> /\ infos' = <<>> /\ UNCHANGED <<noted, file, tests, height>>
      /\ \/ verdict' = "bailed" /\ UNCHANGED <<step, begun>>
         \/ step' \in {11, 15, 21} /\ verdict' = "running" /\ begun' = height
  <2>1. step <= 20 /\ TrackerScript
    BY DEF TrackerInv
  <2>2. CASE Ends("bailed")
    BY <2>2 DEF TestThrows, Ends
  <2>3. CASE NextTestBegins
    <3>1. begun' = height /\ UNCHANGED <<file, tests, verdict, height>>
      BY <2>3 DEF NextTestBegins
    <3> QED BY <2>1, <2>3, <3>1, TrackerNextTest DEF TestThrows
  <2> QED BY <2>2, <2>3 DEF TestThrows, Throws
<1>2. TrackerScript'
  BY <1>1 DEF TrackerInv, TrackerScript
<1>3. TrackerChain' /\ TrackerTest'
  BY <1>1 DEF TrackerInv, TrackerChain, TrackerTest
<1>4. Places' /\ Quiet' /\ Agreed' /\ InfoAnswers'
  BY <1>1 DEF TrackerInv, Places, Quiet, Agreed, InfoAnswers
<1>5. Stake(height)' = Stake(height) /\ Stake(1)' = Stake(1)
  BY <1>1 DEF Stake
<1>6. Delegated' /\ Before'
  BY <1>1, <1>5 DEF TrackerInv, Delegated, Before, Places
<1> QED BY <1>1, <1>2, <1>3, <1>4, <1>6 DEF TrackerInv, MatchHolds, AmountsRight

LEMMA BroadcastStakingInv ==
  ASSUME TrackerInv, BroadcastStaking
  PROVE  TrackerInv'
<1>1. step \in TxAt /\ verdict = "running" /\ awaiting = "no"
  BY StakingOps DEF TrackerInv, TrackerScript, BroadcastStaking, InStakingTx, Running
<1>2. /\ mempool' = mempool \union {[id |-> step, tx |-> Arg, op |-> tests[step].op]}
      /\ awaiting' = "sent"
      /\ UNCHANGED <<file, tests, step, verdict, height, begun, bonded, lateAt, failed, noted,
                     seen, infos>>
  BY DEF BroadcastStaking, scriptVars
<1>3. Arg = StakingTests[step].arg
  BY DEF Arg, TrackerInv, TrackerScript
<1>4. TrackerScript' /\ TrackerTest' /\ (failed \in BOOLEAN)'
  BY <1>2 DEF TrackerInv, TrackerScript, TrackerTest
<1>5. TrackerChain'
  BY <1>1, <1>2, <1>3 DEF TrackerInv, TrackerChain
<1>6. Places' /\ Quiet' /\ Agreed' /\ InfoAnswers'
  BY <1>1, <1>2 DEF TrackerInv, Places, Quiet, Since, Agreed, InfoAnswers, Stake
<1>7. Stake(height)' = Stake(height) /\ Stake(1)' = Stake(1)
  BY <1>2 DEF Stake
<1>8. Delegated' /\ Before'
  BY <1>1, <1>2, <1>7 DEF TrackerInv, Delegated, Before, TxAt, Stake
<1> QED BY <1>2, <1>4, <1>5, <1>6, <1>8 DEF TrackerInv, MatchHolds, AmountsRight

LEMMA SeesTxInv ==
  ASSUME TrackerInv, SeesTx
  PROVE  TrackerInv'
<1>1. /\ step \in TxAt /\ verdict = "running"
      /\ awaiting \in {"ok", "failed"} /\ awaiting' = "no"
      /\ UNCHANGED <<bonded, mempool, lateAt>>
  BY DEF TrackerInv, Places, SeesTx
<1>2. Running("delegateTokens") <=> step \in {3, 4}
  BY <1>1, StakingOps DEF TrackerInv, TrackerScript
<1>3. failed' \in BOOLEAN /\ (failed => failed')
  BY DEF SeesTx, TrackerInv
<1>4. CASE awaiting = "failed" /\ ~ Running("delegateTokens")
  <2>1. TestThrows /\ step \notin {3, 4}
    BY <1>2, <1>4 DEF SeesTx
  <2> QED BY <1>1, <1>3, <2>1, TrackerThrows
<1>5. CASE awaiting = "ok" \/ step \in {3, 4}
  <2>1. /\ step' = step + 1 /\ begun' = height
        /\ UNCHANGED <<file, tests, verdict, height, noted, seen, infos>>
    BY <1>1, <1>2, <1>5 DEF SeesTx, StepDone
  <2>2. ~ failed' => ~ failed /\ (step \in {3, 4} => awaiting = "ok")
    BY <1>1, <1>2, <1>5 DEF SeesTx
  <2>3. TrackerScript' /\ TrackerChain' /\ TrackerTest'
    BY <1>1, <2>1 DEF TrackerInv, TrackerScript, TrackerChain, TrackerTest, TxAt
  <2>4. Places' /\ Agreed' /\ InfoAnswers'
    BY <1>1, <2>1 DEF TrackerInv, Places, Agreed, InfoAnswers, TxAt
  <2>5. Quiet'
    BY <1>1, <2>1 DEF TrackerInv, TrackerScript, Quiet, Since, TxAt
  <2>6. Stake(height)' = Stake(height) /\ Stake(1)' = Stake(1)
    BY <1>1, <2>1 DEF Stake
  <2>7. Delegated' /\ Before'
    BY <1>1, <2>1, <2>2, <2>6 DEF TrackerInv, Delegated, Before, TxAt
  <2> QED BY <1>1, <1>3, <2>1, <2>3, <2>4, <2>5, <2>7 DEF TrackerInv, MatchHolds, AmountsRight
<1> QED BY <1>1, <1>2, <1>4, <1>5

LEMMA GivesUpTxInv ==
  ASSUME TrackerInv, GivesUpTx
  PROVE  TrackerInv'
<1>1. awaiting = "sent" /\ step \in TxAt /\ verdict = "running"
  BY DEF TrackerInv, Places, GivesUpTx, Awaited
<1>2. /\ TestThrows /\ awaiting' = "no" /\ UNCHANGED <<bonded, mempool, lateAt, failed>>
  BY DEF GivesUpTx, chainVars
<1>3. failed' \in BOOLEAN /\ (failed => failed')
  BY <1>2 DEF TrackerInv
<1> QED BY <1>1, <1>2, <1>3, TrackerThrows

-------------------------------------------------------------------------------
(* Blocks                                                                   *)

(* A block that moves nothing, or what a late transaction or the awaited    *)
(* one moves.                                                               *)
LEMMA BlockStake ==
  ASSUME TrackerScript, TrackerChain, NEW b \in Delegations, bonded' = Append(bonded, b)
  PROVE  /\ bonded' \in Seq(Delegations) /\ Len(bonded') = height + 1
         /\ bonded'[height + 1] = b
         /\ \A k \in 1 .. height : bonded'[k] = bonded[k]
         /\ \A h \in 0 .. height : Stake(h)' = Stake(h)
BY DEF TrackerScript, TrackerChain, Stake

LEMMA MovedTx ==
  ASSUME TrackerInv, NEW m \in mempool, Possible(bonded[height], m.tx)
  PROVE  /\ Moved(bonded[height], m.tx) \in Delegations
         /\ m.id \in {3, 4} =>
              LET b == Moved(bonded[height], m.tx)
              IN  b["weak"] + b["strong"] = Stake(height) + 2
<1>1. m.id \in TxAt /\ m.tx = StakingTests[m.id].arg
  BY DEF TrackerInv, TrackerChain
<1>2. /\ m.tx.amount \in {1, 2} /\ m.tx.from \in {"none", "weak", "strong"}
      /\ m.tx.to \in {"none", "weak", "strong"}
      /\ m.id \in {3, 4} => m.tx.amount = 2 /\ m.tx.from = "none" /\ m.tx.to # "none"
  BY <1>1, StakingSteps DEF TxAt, Delegation, Undelegation, StakingTx, Do
<1>3. bonded[height] \in [{"weak", "strong"} -> Nat] /\ height # 0
  BY DEF TrackerInv, TrackerScript, TrackerChain, Delegations, Validators
<1>4. ASSUME NEW v \in Validators
      PROVE  Moved(bonded[height], m.tx)[v] \in Nat
  BY <1>2, <1>3, <1>4 DEF Moved, Possible, Validators
<1>5. Moved(bonded[height], m.tx) \in Delegations
  BY <1>4 DEF Moved, Delegations
<1> QED BY <1>2, <1>3, <1>5 DEF Moved, Validators, Stake

LEMMA TrackerBlockInv ==
  ASSUME TrackerInv, TrackerBlock
  PROVE  TrackerInv'
<1>1. /\ verdict = "running" /\ step \in 1 .. 20 /\ height' = height + 1
      /\ UNCHANGED <<file, tests, step, verdict, begun, failed, noted, seen, infos>>
  BY StakingSteps DEF TrackerBlock, TrackerInv, TrackerScript
<1>2. /\ step \in TxAt => awaiting = "sent"
      /\ step \notin TxAt => Awaited = {}
  <2>1. Awaited # {} => awaiting = "sent"
    BY DEF Awaited
  <2>2. Running("waitBlocks") => step \in {5, 13, 18}
    BY StakingOps DEF TrackerInv, TrackerScript
  <2>3. seen # <<>> => step \notin TxAt
    BY DEF TrackerInv, Places, TxAt
  <2>4. awaiting # "no" => step \in TxAt
    BY DEF TrackerInv, Places
  <2> QED BY <2>1, <2>2, <2>3, <2>4 DEF TrackerBlock, TxAt
<1>3. /\ height \in Nat \ {0} /\ bonded[height] \in Delegations
      /\ lateAt \in 0 .. height /\ begun \in 1 .. height
  BY DEF TrackerInv, TrackerScript, TrackerChain
<1>4. PICK b \in Delegations :
        /\ bonded' = Append(bonded, b) /\ mempool' \subseteq mempool
        /\ lateAt' \in {lateAt, height + 1} /\ awaiting' \in {"no", "sent", "ok", "failed"}
        /\ awaiting' = "no" <=> step \notin TxAt
        /\ step \notin TxAt /\ lateAt' = lateAt => b = bonded[height]
        /\ lateAt' = lateAt /\ step \in {3, 4} =>
             b["weak"] + b["strong"] = Stake(height) + IF awaiting' = "ok" THEN 2 ELSE 0
  <2>1. bonded[height]["weak"] + bonded[height]["strong"] = Stake(height)
        /\ Stake(height) \in Nat /\ (step \notin TxAt => awaiting = "no")
    BY <1>3, StakeTypes DEF Stake, TrackerInv, Places
  <2>2. CASE bonded' = Append(bonded, bonded[height]) /\ UNCHANGED <<mempool, awaiting, lateAt>>
    BY <1>2, <1>3, <2>1, <2>2 DEF TrackerInv, TrackerTest, TxAt
  <2>3. CASE /\ Awaited # {} /\ mempool' = mempool \ Awaited
             /\ bonded' = Append(bonded, bonded[height])
             /\ awaiting' = "failed" /\ UNCHANGED lateAt
    BY <1>2, <1>3, <2>1, <2>3 DEF TxAt
  <2>4. ASSUME NEW m \in mempool,
               mempool' = mempool \ {m}, Possible(bonded[height], m.tx),
               bonded' = Append(bonded, Moved(bonded[height], m.tx)),
               IF m \in Awaited THEN awaiting' = "ok" /\ UNCHANGED lateAt
                                ELSE lateAt' = height + 1 /\ UNCHANGED awaiting
        PROVE  \E b \in Delegations :
                 /\ bonded' = Append(bonded, b) /\ mempool' \subseteq mempool
                 /\ lateAt' \in {lateAt, height + 1}
                 /\ awaiting' \in {"no", "sent", "ok", "failed"}
                 /\ awaiting' = "no" <=> step \notin TxAt
                 /\ step \notin TxAt /\ lateAt' = lateAt => b = bonded[height]
                 /\ lateAt' = lateAt /\ step \in {3, 4} =>
                      b["weak"] + b["strong"] = Stake(height) + IF awaiting' = "ok" THEN 2 ELSE 0
    <3> DEFINE b == Moved(bonded[height], m.tx)
    <3>1. /\ b \in Delegations
          /\ m.id \in {3, 4} => b["weak"] + b["strong"] = Stake(height) + 2
      BY <2>4, MovedTx
    <3>2. CASE m \in Awaited
      <4>1. m.id = step /\ step \in TxAt
        BY <1>2, <3>2 DEF Awaited
      <4> QED BY <2>4, <3>1, <3>2, <4>1
    <3>3. CASE m \notin Awaited
      BY <1>2, <1>3, <2>1, <2>4, <3>1, <3>3 DEF TrackerInv, TrackerTest
    <3> QED BY <3>2, <3>3
  <2> QED BY <2>2, <2>3, <2>4 DEF TrackerBlock
<1>5. /\ bonded' \in Seq(Delegations) /\ Len(bonded') = height + 1
      /\ bonded'[height + 1] = b
      /\ \A k \in 1 .. height : bonded'[k] = bonded[k]
      /\ \A h \in 0 .. height : Stake(h)' = Stake(h)
  BY <1>4, BlockStake DEF TrackerInv
<1>6. Stake(height)' = b["weak"] + b["strong"]
  BY <1>1, <1>3, <1>5 DEF Stake
<1>7. TrackerScript' /\ (failed \in BOOLEAN)'
  BY <1>1, <1>3 DEF TrackerInv, TrackerScript
<1>8. TrackerChain'
  BY <1>1, <1>3, <1>4, <1>5 DEF TrackerInv, TrackerChain
<1>9. TrackerTest'
  BY <1>1, <1>3, <1>4 DEF TrackerInv, TrackerTest
<1>10. Places'
  BY <1>1, <1>4 DEF TrackerInv, Places
<1>11. ASSUME NEW h \in Nat, Since(h), step \notin TxAt
       PROVE  Since(h)'
  <2>1. CASE lateAt' = height + 1
    BY <1>1, <1>3, <2>1 DEF Since
  <2>2. CASE lateAt' = lateAt
    BY <1>1, <1>3, <1>4, <1>5, <1>11, <2>2 DEF Since
  <2> QED BY <1>4, <2>1, <2>2
<1>12. Quiet'
  <2>1. CASE step \in {5, 13, 18}
    BY <1>1, <1>3, <1>11, <2>1 DEF TrackerInv, Quiet, TxAt
  <2>2. CASE step \in {6, 7, 8, 9, 10, 14, 19, 20}
    <3>1. begun >= 3 /\ Since(begun - 1) /\ begun - 1 \in Nat /\ step \notin TxAt
      BY <1>3, <2>2 DEF TrackerInv, Quiet, TxAt
    <3>2. Since(begun - 1)'
      BY <1>1, <1>11, <3>1
    <3>3. (begun - 1)' = begun - 1
      BY <1>1
    <3> QED BY <1>1, <2>2, <3>1, <3>2, <3>3 DEF Quiet
  <2> QED BY <1>1, <2>1, <2>2 DEF Quiet
<1>13. Agreed'
  <2>1. CASE lateAt' = height + 1
    BY <1>1, <1>3, <2>1 DEF Agreed
  <2>2. CASE lateAt' = lateAt
    <3>1. step \notin TxAt => Stake(height)' = Stake(height)
      BY <1>3, <1>4, <1>6, <2>2 DEF Stake
    <3> QED BY <1>1, <2>2, <3>1 DEF TrackerInv, Agreed, TxAt
  <2> QED BY <1>4, <2>1, <2>2
<1>14. Delegated'
  <2>1. CASE lateAt' = height + 1
    BY <1>3, <2>1 DEF Delegated
  <2>2. CASE lateAt' = lateAt
    <3>1. step \notin TxAt => Stake(height)' = Stake(height)
      BY <1>3, <1>4, <1>6, <2>2 DEF Stake
    <3>2. step \in {3, 4} => Stake(height)' = Stake(height) + IF awaiting' = "ok" THEN 2 ELSE 0
      BY <1>4, <1>6, <2>2
    <3>3. step \in {3, 4} => awaiting = "sent"
      BY <1>2 DEF TxAt
    <3>4. step \in 7 .. 9 /\ noted["after"] > 1
            => Stake(noted["after"] - 1)' = Stake(noted["after"] - 1)
      BY <1>1, <1>3, <1>5 DEF TrackerInv, TrackerTest
    <3>5. Stake(height) \in Nat
      BY <1>3, StakeTypes DEF TrackerInv
    <3>6. step \in 1 .. 20 /\ Delegated /\ Before
      BY <1>1 DEF TrackerInv
    <3>7. ASSUME lateAt = 0, ~ failed
          PROVE  /\ step <= 3 => Stake(height)' = IF awaiting' = "ok" THEN 2 ELSE 0
                 /\ step = 4 => Stake(height)' = IF awaiting' = "ok" THEN 4 ELSE 2
                 /\ step \in 5 .. 9 => Stake(height)' = 4
      <4>1. CASE step \in {3, 4}
        BY <3>2, <3>3, <3>6, <3>7, <4>1 DEF Delegated
      <4>2. CASE step \notin {3, 4}
        <5>1. step \in {1, 2} \cup 5 .. 9 => awaiting # "ok" /\ awaiting' # "ok" /\ step \notin TxAt
          BY <1>4 DEF TxAt, TrackerInv, Places
        <5> QED BY <3>1, <3>6, <3>7, <4>2, <5>1 DEF Delegated
      <4> QED BY <4>1, <4>2
    <3> QED BY <1>1, <2>2, <3>4, <3>6, <3>7 DEF Delegated, Before
  <2> QED BY <1>4, <2>1, <2>2
<1>15. Before'
  <2>1. step > 2
    <3>1. step \notin {1, 2} \/ ~ Running("waitBlocks")
      BY StakingOps DEF TrackerInv, TrackerScript
    <3>2. step \in {1, 2} => seen = <<>> /\ Awaited = {}
      BY <1>2 DEF TrackerInv, Places, TxAt
    <3> QED BY <1>1, <3>1, <3>2 DEF TrackerBlock
  <2>2. step = 3 => awaiting' # "no"
    BY <1>4 DEF TxAt
  <2> QED BY <1>1, <1>3, <1>5, <2>1, <2>2 DEF TrackerInv, Before
<1>16. InfoAnswers'
  <2>1. ASSUME step \in {7, 8}, Len(seen) >= 1
        PROVE  seen[1] \in 1 .. height
    BY <1>3, <2>1 DEF TrackerInv, TrackerTest, InfoAnswers, Before
  <2> QED BY <1>1, <1>3, <1>5, <2>1 DEF TrackerInv, InfoAnswers
<1>17. MatchHolds' /\ AmountsRight'
  BY <1>1 DEF MatchHolds, AmountsRight
<1> QED BY <1>1, <1>7, <1>8, <1>9, <1>10, <1>12, <1>13, <1>14, <1>15, <1>16, <1>17 DEF TrackerInv

-------------------------------------------------------------------------------
(* Steps of no transaction                                                  *)

(* Between two blocks only the test moves.                                  *)
LEMMA ChainRests ==
  ASSUME TrackerInv, UNCHANGED <<file, tests, height, bonded, mempool, lateAt, failed>>
  PROVE  /\ TrackerChain' /\ (failed \in BOOLEAN)'
         /\ Stake(height)' = Stake(height)
         /\ \A h \in 0 .. height : Stake(h)' = Stake(h)
         /\ \A h \in Nat : Since(h) => Since(h)'
         /\ Since(height)
<1>1. TrackerChain' /\ (failed \in BOOLEAN)'
  BY DEF TrackerInv, TrackerChain
<1>2. Stake(height)' = Stake(height) /\ \A h \in 0 .. height : Stake(h)' = Stake(h)
  BY DEF Stake
<1>3. \A h \in Nat : Since(h) => Since(h)'
  BY DEF Since
<1>4. Since(height)
  BY DEF Since, TrackerInv, TrackerScript
<1> QED BY <1>1, <1>2, <1>3, <1>4

(* It goes on quietly in a later step.                                      *)
LEMMA QuietGoesOn ==
  ASSUME TrackerInv, step \in {6, 7, 8, 9, 19}, step' \in {7, 8, 9, 10, 20}, begun' = height,
         UNCHANGED <<height, bonded, lateAt>>
  PROVE  Quiet'
<1>1. begun >= 3 /\ Since(begun - 1) /\ begun \in 1 .. height /\ height \in Nat /\ lateAt \in Nat
  BY DEF TrackerInv, TrackerScript, TrackerChain, Quiet
<1>2. \A k \in 1 .. height : lateAt <= k /\ height - 1 <= k => bonded[k] = bonded[height]
  BY <1>1 DEF Since
<1>3. Since(begun - 1)'
  BY <1>1, <1>2 DEF Since
<1> QED BY <1>1, <1>3 DEF Quiet

LEMMA BeginTestInv ==
  ASSUME TrackerInv, BeginTest
  PROVE  TrackerInv'
<1>1. /\ step \in {1, 11, 15} /\ step' = step + 1 /\ begun' = height /\ verdict = "running"
      /\ UNCHANGED <<file, tests, verdict, height, bonded, mempool, lateAt, failed, awaiting,
                     noted, seen, infos>>
  BY StakingOps DEF BeginTest, Running, StepDone, chainVars, TrackerInv, TrackerScript
<1>2. TrackerChain' /\ (failed \in BOOLEAN)' /\ Stake(height)' = Stake(height)
        /\ Stake(1)' = Stake(1)
  BY <1>1, ChainRests DEF Stake
<1>3. TrackerScript' /\ TrackerTest'
  BY <1>1 DEF TrackerInv, TrackerScript, TrackerTest
<1>4. Places' /\ Quiet' /\ Agreed' /\ InfoAnswers'
  BY <1>1 DEF TrackerInv, Places, Quiet, Agreed, InfoAnswers, TxAt
<1>5. Delegated' /\ Before'
  BY <1>1, <1>2 DEF TrackerInv, Delegated, Before, Places, TxAt
<1> QED BY <1>1, <1>2, <1>3, <1>4, <1>5 DEF TrackerInv, MatchHolds, AmountsRight

(* After two blocks without a transaction of the test's own, the last one   *)
(* is as the one before it.                                                 *)
LEMMA TrackerWaitInv ==
  ASSUME TrackerInv, TrackerWaitBlocks
  PROVE  TrackerInv'
<1>1. /\ step \in {5, 13, 18} /\ height >= begun + 2
      /\ step' = step + 1 /\ begun' = height /\ verdict = "running"
      /\ UNCHANGED <<file, tests, verdict, height, bonded, mempool, lateAt, failed, awaiting,
                     noted, seen, infos>>
  BY StakingOps DEF TrackerWaitBlocks, Running, BlocksPassed, StepDone, chainVars, TrackerInv,
     TrackerScript
<1>2. TrackerChain' /\ (failed \in BOOLEAN)' /\ Stake(height)' = Stake(height)
        /\ Stake(1)' = Stake(1)
  BY <1>1, ChainRests DEF Stake
<1>3. TrackerScript' /\ TrackerTest'
  BY <1>1 DEF TrackerInv, TrackerScript, TrackerTest
<1>4. seen = <<>>
  BY <1>1 DEF TrackerInv, Places
<1>5. Quiet'
  <2>1. Since(begun) /\ begun \in Nat \ {0} /\ height \in Nat
    BY <1>1 DEF TrackerInv, TrackerScript, Quiet
  <2>2. \A k \in 1 .. height : lateAt <= k /\ height - 1 <= k => bonded[k] = bonded[height]
    BY <1>1, <2>1 DEF Since, TrackerInv, TrackerChain
  <2>3. Since(begun - 1)'
    BY <1>1, <2>2 DEF Since
  <2> QED BY <1>1, <2>1, <2>3 DEF Quiet
<1>6. Places' /\ Agreed' /\ InfoAnswers'
  BY <1>1, <1>4 DEF TrackerInv, TrackerScript, Places, Agreed, InfoAnswers, TxAt
<1>7. Delegated' /\ Before'
  BY <1>1, <1>2 DEF TrackerInv, Delegated, Before, Places, TxAt
<1> QED BY <1>1, <1>2, <1>3, <1>5, <1>6, <1>7 DEF TrackerInv, MatchHolds, AmountsRight

LEMMA NoteHeightInv ==
  ASSUME TrackerInv, NoteHeight
  PROVE  TrackerInv'
<1>1. /\ step \in {2, 6} /\ step' = step + 1 /\ begun' = height /\ verdict = "running"
      /\ noted' = [noted EXCEPT ![IF step = 2 THEN "before" ELSE "after"] = height]
      /\ UNCHANGED <<file, tests, verdict, height, bonded, mempool, lateAt, failed, awaiting,
                     seen, infos>>
  BY StakingOps DEF NoteHeight, Running, StepDone, chainVars, TrackerInv, TrackerScript
<1>2. TrackerChain' /\ (failed \in BOOLEAN)' /\ Stake(height)' = Stake(height)
        /\ Stake(1)' = Stake(1)
  BY <1>1, ChainRests DEF Stake
<1>3. TrackerScript'
  BY <1>1 DEF TrackerInv, TrackerScript
<1>4. TrackerTest'
  BY <1>1 DEF TrackerInv, TrackerScript, TrackerTest
<1>5. seen = <<>> /\ Len(infos) = 0 /\ awaiting = "no"
  BY <1>1 DEF TrackerInv, Places, TxAt
<1>6. Quiet'
  <2>1. CASE step = 2
    BY <1>1, <2>1 DEF Quiet
  <2>2. CASE step = 6
    BY <1>1, <2>2, QuietGoesOn
  <2> QED BY <1>1, <2>1, <2>2
<1>7. Places' /\ Agreed' /\ InfoAnswers'
  BY <1>1, <1>5 DEF TrackerInv, TrackerScript, Places, Agreed, InfoAnswers, TxAt
<1>8. Before'
  BY <1>1, <1>2, <1>5 DEF TrackerInv, TrackerTest, TrackerScript, Before, Quiet
<1>9. Delegated'
  <2>1. CASE step = 2
    BY <1>1, <1>2, <1>5, <2>1 DEF TrackerInv, Delegated
  <2>2. CASE step = 6
    <3>1. lateAt = 0 => Stake(height - 1)' = Stake(height)
      BY <1>1, <2>2 DEF TrackerInv, TrackerScript, Quiet, Since, Stake
    <3>2. noted'["after"] = height
      BY <1>1, <2>2 DEF TrackerInv, TrackerTest
    <3> QED BY <1>1, <1>2, <2>2, <3>1, <3>2 DEF TrackerInv, Delegated
  <2> QED BY <1>1, <2>1, <2>2
<1> QED BY <1>1, <1>2, <1>3, <1>4, <1>6, <1>7, <1>8, <1>9 DEF TrackerInv, MatchHolds, AmountsRight

LEMMA ExpectGrowthInv ==
  ASSUME TrackerInv, ExpectGrowth
  PROVE  TrackerInv'
<1>1. /\ step = 9 /\ verdict = "running" /\ infos' = <<>>
      /\ \/ /\ step' = 10 /\ begun' = height /\ verdict' = verdict
         \/ /\ ~ (infos[1].stake = 0 /\ infos[2].stake = 4)
            /\ verdict' = "amount_differs" /\ UNCHANGED <<step, begun>>
      /\ UNCHANGED <<file, tests, height, bonded, mempool, lateAt, failed, awaiting, noted,
                     seen>>
  BY StakingOps DEF ExpectGrowth, Expect, Ends, Running, StepDone, chainVars, TrackerInv,
     TrackerScript
<1>2. TrackerChain' /\ (failed \in BOOLEAN)' /\ Stake(height)' = Stake(height)
      /\ \A h \in 0 .. height : Stake(h)' = Stake(h)
  BY <1>1, ChainRests
<1>3. TrackerScript' /\ TrackerTest'
  BY <1>1 DEF TrackerInv, TrackerScript, TrackerTest
<1>4. seen = <<>> /\ Len(infos) = 2 /\ awaiting = "no" /\ noted["after"] \in 2 .. height
  BY <1>1 DEF TrackerInv, TrackerTest, TrackerScript, Places, TxAt, Before
<1>5. Quiet'
  <2>1. CASE step' = 10 /\ begun' = height
    BY <1>1, <2>1, QuietGoesOn
  <2>2. CASE UNCHANGED <<step, begun>>
    BY <1>1, <2>2 DEF TrackerInv, Quiet, Since
  <2> QED BY <1>1, <2>1, <2>2
<1>6. Places' /\ Agreed' /\ InfoAnswers'
  BY <1>1, <1>4 DEF TrackerInv, TrackerScript, Places, Agreed, InfoAnswers, TxAt
<1>7. Before' /\ Delegated'
  BY <1>1, <1>2, <1>4 DEF TrackerInv, TrackerScript, Before, Delegated
<1>8. AmountsRight'
  <2>1. lateAt = 0 /\ ~ failed => infos[1].stake = 0 /\ infos[2].stake = 4
    BY <1>1, <1>4 DEF TrackerInv, Delegated, Before
  <2>2. lateAt \in Nat
    BY DEF TrackerInv, TrackerScript, TrackerChain
  <2> QED BY <1>1, <2>1, <2>2 DEF AmountsRight
<1>9. MatchHolds'
  BY <1>1 DEF MatchHolds
<1> QED BY <1>2, <1>3, <1>5, <1>6, <1>7, <1>8, <1>9 DEF TrackerInv

-------------------------------------------------------------------------------
(* Steps of several queries                                                 *)

LEMMA BelowTwo ==
  ASSUME NEW n \in Nat, n < 2
  PROVE  n \in {0, 1}
OBVIOUS

LEMMA AppendShort ==
  ASSUME NEW S, NEW s \in Seq(S), NEW e \in S, Len(s) <= 1
  PROVE  /\ Append(s, e) \in Seq(S) /\ Len(Append(s, e)) = Len(s) + 1
         /\ Append(s, e)[Len(s) + 1] = e
         /\ Len(s) = 1 => Append(s, e)[1] = s[1]
OBVIOUS

LEMMA AnswerInv ==
  ASSUME TrackerInv, verdict = "running", step \in {7, 8, 10, 14, 19, 20}, Len(seen) \in {0, 1},
         NEW value \in Nat, Answer(value),
         step \in {10, 14, 20} /\ lateAt < begun => value = Stake(height),
         step \in {7, 8, 19} /\ Len(seen) = 0 => value \in 1 .. height,
         step \in {7, 8} =>
           value = IF Len(seen) = 0 THEN (IF step = 7 THEN 1 ELSE noted["after"])
                                    ELSE Stake(seen[1] - 1)
  PROVE  TrackerInv'
<1>1. /\ seen' = Append(seen, value)
      /\ UNCHANGED <<file, tests, step, verdict, height, begun, bonded, mempool, lateAt, failed,
                     awaiting, noted, infos>>
  BY DEF Answer, scriptVars, chainVars
<1>2. TrackerChain' /\ (failed \in BOOLEAN)' /\ Stake(height)' = Stake(height)
      /\ \A h \in 0 .. height : Stake(h)' = Stake(h)
  BY <1>1, ChainRests
<1>3. /\ seen \in Seq(Nat) /\ Len(seen') = Len(seen) + 1 /\ seen'[Len(seen) + 1] = value
      /\ \A i \in 1 .. Len(seen) : seen'[i] = seen[i]
      /\ (Len(seen) = 0 \/ Len(seen) = 1) /\ seen' \in Seq(Nat)
  BY <1>1 DEF TrackerInv, TrackerTest
<1>4. TrackerScript' /\ TrackerTest'
  <2>1. seen' \in Seq(Nat) /\ Len(seen') <= 2
    BY <1>3
  <2> QED BY <1>1, <2>1 DEF TrackerInv, TrackerScript, TrackerTest
<1>5. Quiet' /\ Places'
  BY <1>1 DEF TrackerInv, Quiet, Since, Places
<1>6. Agreed'
  BY <1>1, <1>2, <1>3 DEF TrackerInv, Agreed
<1>7. Delegated' /\ Before'
  <2>1. step \in 7 .. 9 => noted["after"] - 1 \in 0 .. height
    BY DEF TrackerInv, TrackerScript, TrackerTest, Before
  <2>2. 1 \in 0 .. height
    BY DEF TrackerInv, TrackerScript
  <2> QED BY <1>1, <1>2, <2>1, <2>2 DEF TrackerInv, Delegated, Before
<1>8. InfoAnswers'
  <2>1. ASSUME step \in {7, 8}, Len(seen) = 1
        PROVE  seen[1] \in 1 .. height
    BY <2>1 DEF TrackerInv, TrackerScript, TrackerTest, InfoAnswers, Before
  <2> QED BY <1>1, <1>2, <1>3, <2>1 DEF TrackerInv, TrackerScript, InfoAnswers
<1> QED BY <1>1, <1>2, <1>4, <1>5, <1>6, <1>7, <1>8 DEF TrackerInv, MatchHolds, AmountsRight

LEMMA InfoInv ==
  ASSUME TrackerInv, getTrackedStakeInfo \/ getVaultVPInfo
  PROVE  TrackerInv'
<1>1. /\ verdict = "running" /\ step \in {7, 8, 19}
      /\ Arg = IF step = 7 THEN "before" ELSE IF step = 8 THEN "after" ELSE "latest"
  BY StakingOps DEF TrackerInv, TrackerScript, getTrackedStakeInfo, getVaultVPInfo, Info, Running
<1>2. InfoHeight(Arg) = IF step = 7 THEN 1 ELSE IF step = 8 THEN noted["after"] ELSE height
  BY <1>1 DEF InfoHeight, TrackerInv, Before
<1>3. CASE seen = <<>> /\ Answer(InfoHeight(Arg))
  <2>1. InfoHeight(Arg) \in 1 .. height /\ InfoHeight(Arg) \in Nat
    BY <1>1, <1>2 DEF TrackerInv, TrackerScript, TrackerTest, Before
  <2> QED BY <1>1, <1>2, <1>3, <2>1, AnswerInv
<1>4. CASE Len(seen) = 1 /\ Answer(StakeAtHeight(seen[1]))
  <2>1. seen[1] \in 1 .. height /\ height \in Nat
    BY <1>1, <1>4 DEF TrackerInv, TrackerScript, InfoAnswers
  <2>2. seen[1] - 1 \in 0 .. height
    BY <2>1
  <2>3. StakeAtHeight(seen[1]) \in Nat
    BY <2>2, StakeTypes DEF StakeAtHeight, TrackerInv
  <2> QED BY <1>1, <1>4, <2>3, AnswerInv DEF StakeAtHeight
<1>5. CASE /\ Len(seen) = 2 /\ StepDone
           /\ infos' = Append(infos, [height |-> seen[1], stake |-> seen[2],
                                      total |-> TotalAtHeight(seen[1])])
           /\ seen' = <<>>
           /\ UNCHANGED <<chainVars, awaiting, noted>>
  <2> DEFINE info == [height |-> seen[1], stake |-> seen[2], total |-> TotalAtHeight(seen[1])]
  <2>1. /\ step' = step + 1 /\ begun' = height /\ seen' = <<>> /\ infos' = Append(infos, info)
        /\ UNCHANGED <<file, tests, verdict, height, bonded, mempool, lateAt, failed, awaiting,
                       noted>>
    BY <1>5 DEF StepDone, chainVars
  <2>2. TrackerChain' /\ (failed \in BOOLEAN)' /\ Stake(height)' = Stake(height)
        /\ \A h \in 0 .. height : Stake(h)' = Stake(h)
    BY <2>1, ChainRests
  <2>3. seen[1] \in 1 .. height /\ seen[2] \in Nat /\ height \in Nat
    <3>1. seen[1] \in 1 .. height
      BY <1>1, <1>5 DEF TrackerInv, InfoAnswers
    <3>2. seen \in Seq(Nat)
      BY DEF TrackerInv, TrackerTest
    <3>3. 2 \in 1 .. Len(seen)
      BY <1>5
    <3>4. seen[2] \in Nat
      BY <3>2, <3>3, ElementOfSeq
    <3> QED BY <3>1, <3>4 DEF TrackerInv, TrackerScript
  <2>4. seen[1] - 1 \in 0 .. height
    BY <2>3
  <2>5. info \in StakeInfos
    BY <2>3, <2>4, StakeTypes, TrackerAssumption DEF TotalAtHeight, TrackerInv, StakeInfos
  <2> HIDE DEF info
  <2>6. /\ infos \in Seq(StakeInfos)
        /\ step = 7 => Len(infos) = 0
        /\ step = 8 => Len(infos) = 1
        /\ step = 19 => Len(infos) = 0
    BY DEF TrackerInv, TrackerTest, Places
  <2>7. /\ infos' \in Seq(StakeInfos)
        /\ step \in {7, 19} => Len(infos') = 1 /\ infos'[1] = info
        /\ step = 8 => Len(infos') = 2 /\ infos'[1] = infos[1] /\ infos'[2] = info
    <3>1. step \in {7, 8, 19}
      BY <1>1
    <3>2. infos' = Append(infos, info) /\ Len(infos) \in {0, 1}
      BY <2>1, <2>6, <3>1
    <3>3. /\ Append(infos, info) \in Seq(StakeInfos)
          /\ Len(Append(infos, info)) = Len(infos) + 1
          /\ Append(infos, info)[Len(infos) + 1] = info
          /\ Len(infos) = 1 => Append(infos, info)[1] = infos[1]
      BY <2>5, <2>6, <3>2, AppendShort
    <3> QED BY <2>6, <3>2, <3>3
  <2>8. TrackerScript' /\ TrackerTest'
    BY <1>1, <2>1, <2>7 DEF TrackerInv, TrackerScript, TrackerTest
  <2>9. Places' /\ Agreed' /\ InfoAnswers'
    BY <1>1, <2>1, <2>7 DEF TrackerInv, Places, Agreed, InfoAnswers, TxAt
  <2>10. Quiet'
    BY <1>1, <2>1, <2>2, QuietGoesOn DEF TrackerInv
  <2>11. info.stake = seen[2]
    BY DEF info
  <2>12. Before' /\ Delegated'
    <3>1. step = 7 => info.stake = 0
      BY <1>1, <1>5, <2>11 DEF TrackerInv, InfoAnswers, Before, Stake
    <3>2. step = 8 => seen[2] = Stake(noted["after"] - 1)
      BY <1>1, <1>5 DEF TrackerInv, InfoAnswers
    <3>3. step \in {7, 8} => noted["after"] - 1 \in 0 .. height
      BY DEF TrackerInv, TrackerScript, TrackerTest, Before
    <3>4. Before'
      BY <1>1, <2>1, <2>2, <2>7, <3>1 DEF TrackerInv, TrackerScript, Before
    <3>5. Delegated'
      BY <1>1, <2>1, <2>2, <2>7, <2>11, <3>2, <3>3 DEF TrackerInv, Delegated
    <3> QED BY <3>4, <3>5
  <2> QED BY <1>1, <2>1, <2>2, <2>8, <2>9, <2>10, <2>12 DEF TrackerInv, MatchHolds, AmountsRight
<1> QED BY <1>3, <1>4, <1>5 DEF getTrackedStakeInfo, getVaultVPInfo, Info

(* The answers are of the last block but one, which is like the last one    *)
(* unless something came late.                                              *)
LEMMA CheckInv ==
  ASSUME TrackerInv, checkVotingPowerMatchBondedTokens
  PROVE  TrackerInv'
<1>1. verdict = "running" /\ step \in {10, 14, 20}
  BY StakingOps DEF TrackerInv, TrackerScript, checkVotingPowerMatchBondedTokens, Running
<1>2. /\ height \in Nat /\ begun \in 1 .. height /\ begun >= 3
      /\ height - 1 \in 1 .. height /\ Since(begun - 1) /\ lateAt \in Nat
  BY <1>1 DEF TrackerInv, TrackerScript, TrackerChain, Quiet
<1>3. StakeAtHeight(height) \in Nat
  BY <1>2, StakeTypes DEF StakeAtHeight, TrackerInv
<1>4. lateAt < begun => StakeAtHeight(height) = Stake(height)
  BY <1>2 DEF StakeAtHeight, Stake, Since
<1>5. CASE Len(seen) < 2 /\ Answer(StakeAtHeight(height))
  <2>1. seen \in Seq(Nat)
    BY DEF TrackerInv, TrackerTest
  <2>2. Len(seen) \in Nat
    BY <2>1
  <2>3. Len(seen) < 2
    BY <1>5
  <2>4. Len(seen) \in {0, 1}
    BY <2>2, <2>3, BelowTwo
  <2> QED BY <1>1, <1>3, <1>4, <1>5, <2>4, AnswerInv
<1>6. CASE /\ Len(seen) = 2
           /\ Expect(seen[1] = seen[2] /\ getBondedTokens = seen[2], "mismatch")
           /\ seen' = <<>>
           /\ UNCHANGED <<chainVars, awaiting, noted, infos>>
  <2>1. lateAt < begun => seen[1] = seen[2] /\ getBondedTokens = seen[2]
    BY <1>1, <1>6 DEF TrackerInv, Agreed, getBondedTokens
  <2>2. /\ seen' = <<>>
        /\ \/ step' = step + 1 /\ begun' = height /\ verdict' = verdict
           \/ lateAt >= begun /\ verdict' = "mismatch" /\ UNCHANGED <<step, begun>>
        /\ UNCHANGED <<file, tests, height, bonded, mempool, lateAt, failed, awaiting, noted,
                       infos>>
    BY <1>2, <1>6, <2>1 DEF Expect, Ends, StepDone, chainVars
  <2>3. TrackerChain' /\ (failed \in BOOLEAN)' /\ Stake(height)' = Stake(height)
        /\ \A h \in 0 .. height : Stake(h)' = Stake(h)
    BY <2>2, ChainRests
  <2>4. TrackerScript' /\ TrackerTest'
    <3>1. TrackerScript'
      <4>1. CASE step' = step + 1 /\ begun' = height
        BY <1>1, <1>2, <2>2, <4>1 DEF TrackerInv, TrackerScript
      <4>2. CASE UNCHANGED <<step, begun>>
        BY <1>1, <1>2, <2>2, <4>2 DEF TrackerInv, TrackerScript
      <4> QED BY <2>2, <4>1, <4>2
    <3>2. TrackerTest'
      BY <2>2 DEF TrackerInv, TrackerTest
    <3> QED BY <3>1, <3>2
  <2>5. Places'
    BY <1>1, <2>2 DEF TrackerInv, Places, TxAt
  <2>6. Agreed' /\ InfoAnswers'
    BY <1>1, <2>2 DEF Agreed, InfoAnswers
  <2>7. Quiet'
    BY <1>1, <1>2, <2>2 DEF Quiet, Since
  <2>8. Before' /\ Delegated'
    BY <1>1, <1>2, <2>2, <2>3 DEF TrackerInv, Before, Delegated
  <2>9. MatchHolds' /\ AmountsRight'
    BY <1>1, <2>2 DEF MatchHolds, AmountsRight
  <2> QED BY <2>3, <2>4, <2>5, <2>6, <2>7, <2>8, <2>9 DEF TrackerInv
<1> QED BY <1>5, <1>6 DEF checkVotingPowerMatchBondedTokens

-------------------------------------------------------------------------------
LEMMA TrackerNextInv ==
  ASSUME TrackerInv, TrackerNext
  PROVE  TrackerInv'
BY BroadcastStakingInv, SeesTxInv, GivesUpTxInv, TrackerBlockInv, BeginTestInv, TrackerWaitInv,
   NoteHeightInv, ExpectGrowthInv, InfoInv, CheckInv DEF TrackerNext

LEMMA TrackerStutters ==
  ASSUME TrackerInv, UNCHANGED trackerVars
  PROVE  TrackerInv'
<1>1. UNCHANGED <<file, tests, step, verdict, height, begun, bonded, mempool, awaiting, lateAt,
                  failed, noted, seen, infos>>
  BY DEF trackerVars, scriptVars
<1>2. TrackerScript' /\ TrackerChain' /\ TrackerTest'
  BY <1>1 DEF TrackerInv, TrackerScript, TrackerChain, TrackerTest
<1>3. (failed \in BOOLEAN)' /\ MatchHolds' /\ AmountsRight'
  BY <1>1 DEF TrackerInv, MatchHolds, AmountsRight
<1>4. Places' /\ InfoAnswers' /\ Quiet' /\ Agreed'
  BY <1>1 DEF TrackerInv, Places, InfoAnswers, Stake, Quiet, Since, Agreed
<1>5. Before' /\ Delegated'
  BY <1>1 DEF TrackerInv, Before, Delegated, Stake
<1> QED BY <1>2, <1>3, <1>4, <1>5 DEF TrackerInv

(* The invariant holds in every state.                                      *)
THEOREM TrackerInvariant == TrackerSpec => []TrackerInv
<1>1. ScriptInit(TrackerFiles) /\ TrackerInit => TrackerInv
  BY TrackerInitInv
<1>2. TrackerInv /\ [TrackerNext]_trackerVars => TrackerInv'
  BY TrackerNextInv, TrackerStutters
<1> QED BY <1>1, <1>2, PTL DEF TrackerSpec

LEMMA TrackerTypesHold ==
  ASSUME TrackerInv
  PROVE  TrackerTypeOK
<1>1. /\ tests = StakingTests /\ step \in 1 .. 21
      /\ height \in Nat \ {0} /\ begun \in 1 .. height
  BY DEF TrackerInv, TrackerScript
<1>2. Len(tests) = 20
  BY <1>1, StakingSteps
<1>3. ScriptTypeOK
  BY <1>1, <1>2 DEF ScriptTypeOK
<1>4. bonded \in Seq(Delegations) /\ Len(bonded) = height /\ lateAt \in 0 .. height
  BY DEF TrackerInv, TrackerChain
<1>5. \A h \in DOMAIN bonded : bonded[h] \in [Validators -> Nat]
  BY <1>4 DEF Delegations
<1>6. {m.id : m \in mempool} \subseteq 1 .. Len(tests)
  <2>1. \A m \in mempool : m.id \in TxAt
    BY DEF TrackerInv, TrackerChain
  <2> QED BY <1>2, <2>1 DEF TxAt
<1>7. awaiting \in {"no", "sent", "ok", "failed"} /\ failed \in BOOLEAN
  BY DEF TrackerInv, TrackerTest
<1>8. noted \in [{"before", "after"} -> 0 .. height] /\ Len(seen) <= 2
  BY DEF TrackerInv, TrackerTest
<1>9. Len(infos) <= 2
  <2>1. infos \in Seq(StakeInfos) /\ Places
    BY DEF TrackerInv, TrackerTest
  <2>2. step < 8 \/ step = 8 \/ step = 9 \/ step \in 10 .. 19 \/ step >= 20
    BY <1>1
  <2>3. CASE step < 8 \/ step \in 10 .. 19
    <3>1. infos = <<>>
      BY <2>1, <2>3 DEF Places
    <3> QED BY <3>1
  <2>4. CASE step = 8 \/ step = 9
    <3>1. /\ step = 8 => Len(infos) = 1
          /\ step = 9 => Len(infos) = IF verdict = "running" THEN 2 ELSE 0
      BY ONLY <2>1, Zenon DEF Places
    <3> QED BY ONLY <2>4, <3>1
  <2>5. CASE step >= 20
    BY <1>1, <2>1, <2>5 DEF Places
  <2> QED BY <2>2, <2>3, <2>4, <2>5
<1>10. file = "staking_tracker" => Len(bonded) = height
  BY <1>4
<1> QED BY ONLY <1>3, <1>4, <1>5, <1>6, <1>7, <1>8, <1>9, <1>10, Zenon DEF TrackerTypeOK

(* The variables have their types, for any time to wait and any pause.      *)
THEOREM TrackerTypeCorrect == TrackerSpec => []TrackerTypeOK
BY TrackerInvariant, TrackerTypesHold, PTL

(* The voting power a test reads is that of the stake it compares with,     *)
(* unless a transaction of its own was still on its way.                    *)
THEOREM PowerMatches == TrackerSpec => []MatchHolds
<1>1. TrackerInv => MatchHolds
  BY DEF TrackerInv
<1> QED BY <1>1, TrackerInvariant, PTL

(* The stake has grown by what the test delegated between its two heights,  *)
(* when every transaction was in a block as it was awaited.                 *)
THEOREM AmountsAddUp == TrackerSpec => []AmountsRight
<1>1. TrackerInv => AmountsRight
  BY DEF TrackerInv
<1> QED BY <1>1, TrackerInvariant, PTL

-------------------------------------------------------------------------------
(* Daos                                                                     *)

Members == {"user", "second"}
Names == {"keys", "filters"}
Params == [Names -> Nat]

Binaries == {MainUploads[i] : i \in 1 .. 8} \union {SubdaoUploads[i] : i \in 1 .. 7}
        \union {"other"}

ProposalMessage ==
  [kind : {"send", "add_subdao"}] \union [kind : {"update"}, params : Params]
    \union [kind : {"change"}, name : Names] \union [kind : {"overrule"}, of : Nat]

Proposals ==
  [module : {"single", "sub_single", "overrule"}, what : ProposalMessage, start : Nat,
   yes : SUBSET Members, status : {"open", "executed", "timelocked", "overruled"}]

DaoScript ==
  /\ file \in {"overrule", "subdao", "params"} /\ tests = DaoFiles[file]
  /\ step \in 1 .. Len(tests) + 1 /\ height \in Nat \ {0} /\ begun \in 1 .. height

DaoTypes ==
  /\ code \in Seq(Binaries)
  /\ bonds \in [Members -> [amount : Nat, at : Nat]]
  /\ proposals \in Seq(Proposals)
  /\ params \in Params /\ readParams \in Params
  /\ late \subseteq DOMAIN proposals
  /\ listed \in BOOLEAN /\ stale \in BOOLEAN

(* Uploads                                                                  *)
Uploaded ==
  /\ \A b \in DOMAIN codeIds : codeIds[b] \in DOMAIN code /\ code[codeIds[b]] = b
  /\ file = "subdao" =>
       /\ \A i \in 1 .. 8 : step > i => MainUploads[i] \in DOMAIN codeIds
       /\ \A i \in 1 .. 7 : step > 12 + i => SubdaoUploads[i] \in DOMAIN codeIds
  /\ \A l \in DOMAIN contracts : contracts[l] \in DOMAIN code

(* Bonds come before proposals and count.                                   *)
Bonded ==
  /\ \A m \in Members : bonds[m].at <= begun
  /\ \A p \in DOMAIN proposals : \A m \in Members : bonds[m].at < proposals[p].start
  /\ file = "overrule" => /\ step <= 3 => Len(proposals) = 0
                          /\ step >= 2 => bonds["user"].amount = 2
                          /\ step >= 3 => bonds["second"].amount = 1
  /\ file = "subdao" => /\ step <= 12 => Len(proposals) = 0
                        /\ step >= 13 => bonds["user"].amount = 1
                        /\ bonds["second"].amount = 0
  /\ file = "params" => /\ step <= 1 => Len(proposals) = 0
                        /\ step >= 2 => bonds["user"].amount = 1
                        /\ bonds["second"].amount = 0

(* Which steps are between the submission of the latest proposal and the    *)
(* end of its execution                                                     *)
OfSingle == \/ file = "overrule" /\ step \in 8 .. 9
            \/ file = "subdao" /\ step \in 22 .. 23
            \/ file = "params" /\ step \in (4 .. 6) \union (10 .. 12) \union (15 .. 17)
OfSubdao == \/ file = "overrule" /\ step \in (5 .. 6) \union (11 .. 12)
            \/ file = "subdao" /\ step \in 25 .. 26
OfOverrule == \/ file = "overrule" /\ step \in 13 .. 15
              \/ file = "subdao" /\ step \in 27 .. 29

Open(module) ==
  /\ Latest > 0 /\ Latest \notin late
  /\ proposals[Latest].module = module /\ proposals[Latest].status = "open"

Pending ==
  verdict = "running" =>
  /\ OfSingle => Open("single")
  /\ OfSubdao => Open("sub_single") /\ proposals[Latest].what.kind = "send"
  /\ OfOverrule => /\ Open("overrule") /\ proposals[Latest].what.kind = "overrule"
                   /\ proposals[Latest].what.of \in 1 .. Latest - 1
  /\ file # "params" /\ OfSingle => proposals[Latest].what.kind = "add_subdao"
  /\ file = "params" /\ step \in (4 .. 6) \union (10 .. 12)
          => proposals[Latest].what.kind = "update"
  /\ file = "params" /\ step \in 15 .. 17 => proposals[Latest].what.kind = "change"
  /\ file = "subdao" /\ OfOverrule =>
       /\ proposals[Latest].yes = {}
       /\ proposals[proposals[Latest].what.of].status = "timelocked"

Voted ==
  /\ file = "overrule" /\ step \in {9, 12} => "user" \in proposals[Latest].yes
  /\ file = "overrule" /\ step = 15 => "second" \in proposals[Latest].yes
  /\ file = "subdao" /\ step \in {23, 26} => "user" \in proposals[Latest].yes
  /\ file = "params" /\ step \in {5, 6, 11, 12, 17} => "user" \in proposals[Latest].yes

Listed ==
  /\ file = "overrule" => (listed <=> step >= 10)
  /\ file = "subdao" /\ step >= 24 => listed

(* What is late are executions of proposals for parameters.                 *)
LateOnes ==
  /\ late # {} => file = "params"
  /\ \A p \in late : proposals[p].what.kind \in {"update", "change"}

(* The votes are in time.                                                   *)
InVoting ==
  /\ step <= Len(tests) /\ tests[step].op \in {"voteYes", "voteNo"} => height <= begun + VoteBlocks
  /\ file = "subdao" /\ step = 27 => height <= begun + 1
  /\ file = "overrule" /\ step \in {5, 11, 13} => begun = proposals[Latest].start
  /\ file = "subdao" /\ step \in {25, 27} => begun = proposals[Latest].start
  /\ file = "overrule" /\ step = 14 => begun <= proposals[Latest].start + VoteBlocks

Fresh ==
  file = "params" /\ ~ stale =>
    /\ step \in {3, 9} => readParams = params
    /\ step \in (4 .. 6) \union (10 .. 12) =>
         \E n \in Names : proposals[Latest].what.params = [params EXCEPT ![n] = 1]

DaoInv ==
  /\ DaoScript /\ DaoTypes /\ Uploaded /\ Bonded /\ Pending /\ Voted /\ Listed /\ LateOnes
  /\ InVoting /\ Fresh /\ RightBinaries /\ ProposalsPass

-------------------------------------------------------------------------------
(* The steps of the three files                                             *)

LEMMA OverruleSteps ==
  /\ Len(OverruleTests) = 15
  /\ OverruleTests[1] = BondFunds("user", 2) /\ OverruleTests[2] = BondFunds("second", 1)
  /\ OverruleTests[3] = Do("waitBlocks", 2)
  /\ OverruleTests[4] = Submit("sub_single", [kind |-> "send"])
  /\ OverruleTests[5] = Do("voteYes", "user") /\ OverruleTests[6] = Do("execute", "rejected")
  /\ OverruleTests[7] = Submit("single", [kind |-> "add_subdao"])
  /\ OverruleTests[8] = Do("voteYes", "user") /\ OverruleTests[9] = Do("execute", "passes")
  /\ OverruleTests[10] = Submit("sub_single", [kind |-> "send"])
  /\ OverruleTests[11] = Do("voteYes", "user") /\ OverruleTests[12] = Do("execute", "passes")
  /\ OverruleTests[13] = Do("voteNo", "user") /\ OverruleTests[14] = Do("voteYes", "second")
  /\ OverruleTests[15] = Do("execute", "passes")
BY DEF OverruleTests, SupportSubdao, addSubdaoToDao

LEMMA ParamsSteps ==
  /\ Len(ParamsTests) = 17
  /\ ParamsTests[1] = BondFunds("user", 1)
  /\ ParamsTests[2] = Do("readParams", 0) /\ ParamsTests[3] = Submit("single", Update("keys"))
  /\ ParamsTests[4] = Do("voteYes", "user") /\ ParamsTests[5] = Do("checkPassed", 0)
  /\ ParamsTests[6] = Do("execute", "passes") /\ ParamsTests[7] = Do("test", 0)
  /\ ParamsTests[8] = Do("readParams", 0) /\ ParamsTests[9] = Submit("single", Update("filters"))
  /\ ParamsTests[10] = Do("voteYes", "user") /\ ParamsTests[11] = Do("checkPassed", 0)
  /\ ParamsTests[12] = Do("execute", "passes") /\ ParamsTests[13] = Do("test", 0)
  /\ ParamsTests[14] = Submit("single", [kind |-> "change", name |-> "keys"])
  /\ ParamsTests[15] = Do("waitBlocks", 1) /\ ParamsTests[16] = Do("voteYes", "user")
  /\ ParamsTests[17] = Do("execute", "passes")
BY DEF ParamsTests, executeUpdateInterchainQueriesParams,
   acceptInterchainqueriesParamsChangeProposal

LEMMA SubdaoSteps ==
  /\ Len(SubdaoTests) = 29
  /\ \A i \in 1 .. 8 : SubdaoTests[i] = Do("upload", MainUploads[i])
  /\ SubdaoTests[9] = Do("instantiate", VaultContracts)
  /\ SubdaoTests[10] = Do("instantiate", MainContracts)
  /\ SubdaoTests[11] = Do("waitBlocks", 1) /\ SubdaoTests[12] = BondFunds("user", 1)
  /\ \A i \in 1 .. 7 : SubdaoTests[12 + i] = Do("upload", SubdaoUploads[i])
  /\ SubdaoTests[20] = Do("instantiate", SubdaoContracts)
  /\ SubdaoTests[21] = Submit("single", [kind |-> "add_subdao"])
  /\ SubdaoTests[22] = Do("voteYes", "user") /\ SubdaoTests[23] = Do("execute", "passes")
  /\ SubdaoTests[24] = Submit("sub_single", [kind |-> "send"])
  /\ SubdaoTests[25] = Do("voteYes", "user") /\ SubdaoTests[26] = Do("execute", "passes")
  /\ SubdaoTests[27] = Do("executeTimelocked", "rejected")
  /\ SubdaoTests[28] = Do("waitSeconds", 20)
  /\ SubdaoTests[29] = Do("executeTimelocked", "passes")
<1>1. /\ Uploads(MainUploads) = << Do("upload", MainUploads[1]), Do("upload", MainUploads[2]),
           Do("upload", MainUploads[3]), Do("upload", MainUploads[4]), Do("upload", MainUploads[5]),
           Do("upload", MainUploads[6]), Do("upload", MainUploads[7]), Do("upload",
                   MainUploads[8]) >>
  BY DEF Uploads, MainUploads
<1>2. /\ Uploads(SubdaoUploads) = << Do("upload", SubdaoUploads[1]), Do("upload", SubdaoUploads[2]),
           Do("upload", SubdaoUploads[3]), Do("upload", SubdaoUploads[4]),
           Do("upload", SubdaoUploads[5]), Do("upload", SubdaoUploads[6]),
           Do("upload", SubdaoUploads[7]) >>
  BY DEF Uploads, SubdaoUploads
<1> QED BY <1>1, <1>2 DEF SubdaoTests, deployNeutronDao, deploySubdao, setupSubDaoTimelockSet,
          SupportSubdao, addSubdaoToDao

LEMMA DaoTests ==
  ASSUME DaoScript
  PROVE  /\ file = "overrule" => tests = OverruleTests /\ Len(tests) = 15 /\ step \in 1 .. 16
         /\ file = "subdao" => tests = SubdaoTests /\ Len(tests) = 29 /\ step \in 1 .. 30
         /\ file = "params" => tests = ParamsTests /\ Len(tests) = 17 /\ step \in 1 .. 18
         /\ step \in Nat /\ Len(tests) \in Nat
<1>1. /\ DaoFiles["overrule"] = OverruleTests /\ DaoFiles["subdao"] = SubdaoTests
      /\ DaoFiles["params"] = ParamsTests
  BY DEF DaoFiles
<1>2. CASE file = "overrule"
  <2>1. tests = OverruleTests /\ step \in 1 .. Len(tests) + 1
    BY <1>1, <1>2 DEF DaoScript
  <2>2. Len(tests) = 15
    BY <2>1, OverruleSteps
  <2> QED BY <1>2, <2>1, <2>2
<1>3. CASE file = "subdao"
  <2>1. tests = SubdaoTests /\ step \in 1 .. Len(tests) + 1
    BY <1>1, <1>3 DEF DaoScript
  <2>2. Len(tests) = 29
    BY <2>1, SubdaoSteps
  <2> QED BY <1>3, <2>1, <2>2
<1>4. CASE file = "params"
  <2>1. tests = ParamsTests /\ step \in 1 .. Len(tests) + 1
    BY <1>1, <1>4 DEF DaoScript
  <2>2. Len(tests) = 17
    BY <2>1, ParamsSteps
  <2> QED BY <1>4, <2>1, <2>2
<1> QED BY <1>2, <1>3, <1>4 DEF DaoScript

LEMMA OverruleOps ==
  ASSUME DaoScript, file = "overrule", step <= Len(tests)
  PROVE  LET op == tests[step].op
         IN  /\ op = "bondFunds" => step \in {1, 2}
             /\ step = 1 => Arg = [member |-> "user", amount |-> 2]
             /\ step = 2 => Arg = [member |-> "second", amount |-> 1]
             /\ op = "submit" => step \in {4, 7, 10}
             /\ step = 7 => Arg = [module |-> "single", what |-> [kind |-> "add_subdao"]]
             /\ step \in {4, 10} => Arg = [module |-> "sub_single", what |-> [kind |-> "send"]]
             /\ op = "voteYes" <=> step \in {5, 8, 11, 14}
             /\ step \in {5, 8, 11} => Arg = "user"
             /\ step = 14 => Arg = "second"
             /\ op = "voteNo" <=> step = 13
             /\ op = "execute" => step \in {6, 9, 12, 15} /\ (Arg = "passes" <=> step # 6)
             /\ op = "waitBlocks" => step = 3
             /\ op \in {"bondFunds", "submit", "voteYes", "voteNo", "execute", "waitBlocks"}
<1>0. tests = OverruleTests /\ Len(tests) = 15 /\ step \in 1 .. 16
  BY DaoTests
<1>1. tests = OverruleTests /\ Len(tests) = 15 /\ step \in 1 .. 15
  BY <1>0
<1>2. step \in {1, 2, 3}
      \/ step \in {4, 5, 6} \/ step \in {7, 8, 9} \/ step \in {10, 11, 12} \/ step \in {13, 14, 15}
  BY <1>1
<1> QED BY <1>1, <1>2, OverruleSteps DEF Do, Arg, BondFunds, Submit

LEMMA SubdaoOps ==
  ASSUME DaoScript, file = "subdao", step <= Len(tests)
  PROVE  LET op == tests[step].op
         IN  /\ op = "upload" => step \in (1 .. 8) \union (13 .. 19)
             /\ \A i \in 1 .. 8 : step = i => Arg = MainUploads[i]
             /\ \A i \in 1 .. 7 : step = 12 + i => Arg = SubdaoUploads[i]
             /\ op = "instantiate" => step \in {9, 10, 20}
             /\ step = 9 => Arg = VaultContracts
             /\ step = 10 => Arg = MainContracts
             /\ step = 20 => Arg = SubdaoContracts
             /\ op = "bondFunds" => step = 12
             /\ step = 12 => Arg = [member |-> "user", amount |-> 1]
             /\ op = "submit" => step \in {21, 24}
             /\ step = 21 => Arg = [module |-> "single", what |-> [kind |-> "add_subdao"]]
             /\ step = 24 => Arg = [module |-> "sub_single", what |-> [kind |-> "send"]]
             /\ op = "voteYes" <=> step \in {22, 25}
             /\ step \in {22, 25} => Arg = "user"
             /\ op = "execute" => step \in {23, 26} /\ Arg = "passes"
             /\ op = "executeTimelocked" <=> step \in {27, 29}
             /\ op = "executeTimelocked" => (Arg = "passes" <=> step = 29)
             /\ op = "waitBlocks" => step = 11
             /\ op = "waitSeconds" => step = 28
             /\ op \in {"upload", "instantiate", "bondFunds", "submit", "voteYes", "execute",
                        "executeTimelocked", "waitBlocks", "waitSeconds"}
<1>0. tests = SubdaoTests /\ Len(tests) = 29 /\ step \in 1 .. 30
  BY DaoTests
<1>1. tests = SubdaoTests /\ Len(tests) = 29 /\ step \in 1 .. 29
  BY <1>0
<1>2. CASE step \in 1 .. 8
  <2>1. tests[step] = Do("upload", MainUploads[step])
    BY <1>1, <1>2, SubdaoSteps
  <2>2. tests[step].op = "upload" /\ Arg = MainUploads[step]
    BY <2>1 DEF Do, Arg
  <2>3. \A i \in 1 .. 7 : step # 12 + i
    BY <1>2
  <2>4. step \notin {9, 10, 11, 12} /\ step \notin 20 .. 29
    BY <1>2
  <2> HIDE DEF Arg
  <2> QED BY ONLY <1>2, <2>2, <2>3, <2>4
<1>3. CASE step \in 13 .. 19
  <2>1. step = 12 + (step - 12) /\ step - 12 \in 1 .. 7
    BY <1>3
  <2>2. tests[step] = Do("upload", SubdaoUploads[step - 12])
    BY <1>1, <2>1, SubdaoSteps
  <2>3. \A i \in 1 .. 7 : step = 12 + i => i = step - 12
    OBVIOUS
  <2>4. tests[step].op = "upload" /\ Arg = SubdaoUploads[step - 12]
    BY <2>2 DEF Do, Arg
  <2>5. step \notin 1 .. 12 /\ step \notin 20 .. 29
    BY <1>3
  <2> QED BY ONLY <1>3, <2>3, <2>4, <2>5
<1>4. CASE step \in {9, 10, 11, 12}
  BY <1>1, <1>4, SubdaoSteps DEF Do, Arg, BondFunds
<1>5. CASE step \in 20 .. 24
  <2>1. step \in {20, 21, 22, 23, 24}
    BY <1>5
  <2> QED BY <1>1, <2>1, SubdaoSteps DEF Do, Arg, Submit
<1>6. CASE step \in 25 .. 29
  <2>1. step \in {25, 26, 27, 28, 29}
    BY <1>6
  <2> QED BY <1>1, <2>1, SubdaoSteps DEF Do, Arg
<1> QED BY <1>1, <1>2, <1>3, <1>4, <1>5, <1>6

LEMMA ParamsOps ==
  ASSUME DaoScript, file = "params", step <= Len(tests)
  PROVE  LET op == tests[step].op
         IN  /\ op = "bondFunds" => step = 1
             /\ step = 1 => Arg = [member |-> "user", amount |-> 1]
             /\ op = "readParams" => step \in {2, 8}
             /\ op = "submit" => step \in {3, 9, 14}
             /\ step = 3 => Arg = [module |-> "single", what |-> Update("keys")]
             /\ step = 9 => Arg = [module |-> "single", what |-> Update("filters")]
             /\ step = 14 => Arg = [module |-> "single", what |-> [kind |-> "change",
                     name |-> "keys"]]
             /\ op = "voteYes" <=> step \in {4, 10, 16}
             /\ step \in {4, 10, 16} => Arg = "user"
             /\ op = "checkPassed" => step \in {5, 11}
             /\ op = "execute" => step \in {6, 12, 17} /\ Arg = "passes"
             /\ op = "test" <=> step \in {7, 13}
             /\ op = "waitBlocks" => step = 15
             /\ op \in {"bondFunds", "readParams", "submit", "voteYes", "checkPassed", "execute",
                        "test", "waitBlocks"}
<1>0. tests = ParamsTests /\ Len(tests) = 17 /\ step \in 1 .. 18
  BY DaoTests
<1>1. tests = ParamsTests /\ Len(tests) = 17 /\ step \in 1 .. 17
  BY <1>0
<1>2. \/ step \in {1, 2, 3, 4} \/ step \in {5, 6, 7, 8} \/ step \in {9, 10, 11, 12}
      \/ step \in {13, 14, 15, 16, 17}
  BY <1>1
<1> QED BY <1>1, <1>2, ParamsSteps DEF Do, Arg, BondFunds, Submit

-------------------------------------------------------------------------------
(* Proposals and what is done to them                                       *)

LEMMA ProposalTypes ==
  ASSUME DaoTypes
  PROVE  /\ DOMAIN proposals = 1 .. Latest /\ Latest \in Nat
         /\ \A p \in DOMAIN proposals :
              /\ proposals[p] \in Proposals /\ proposals[p].start \in Nat
              /\ proposals[p].what \in ProposalMessage /\ proposals[p].yes \in SUBSET Members
              /\ DOMAIN proposals[p] = {"module", "what", "start", "yes", "status"}
<1>1. proposals \in Seq(Proposals)
  BY DEF DaoTypes
<1>2. DOMAIN proposals = 1 .. Latest /\ Latest \in Nat
  BY <1>1 DEF Latest
<1>3. \A p \in DOMAIN proposals : proposals[p] \in Proposals
  BY <1>1
<1> QED BY <1>2, <1>3 DEF Proposals

(* Statuses and votes may change, the rest of a proposal stays.             *)
LEMMA SetStatusTypes ==
  ASSUME DaoTypes, NEW p \in DOMAIN proposals,
         NEW how \in {"open", "executed", "timelocked", "overruled"}
  PROVE  LET set == SetStatus(p, how)
         IN  /\ set \in Seq(Proposals) /\ Len(set) = Latest /\ DOMAIN set = DOMAIN proposals
             /\ \A r \in DOMAIN proposals :
                  /\ set[r].module = proposals[r].module /\ set[r].what = proposals[r].what
                  /\ set[r].start = proposals[r].start /\ set[r].yes = proposals[r].yes
                  /\ set[r].status = IF r = p THEN how ELSE proposals[r].status
<1> DEFINE set == SetStatus(p, how)
<1>1. /\ DOMAIN proposals = 1 .. Latest /\ Latest \in Nat
      /\ set = [r \in 1 .. Latest |-> set[r]]
      /\ \A r \in DOMAIN proposals :
           set[r] = IF r = p THEN [proposals[r] EXCEPT !.status = how] ELSE proposals[r]
  BY ProposalTypes DEF SetStatus
<1>2. ASSUME NEW r \in DOMAIN proposals
      PROVE  /\ set[r] \in Proposals
             /\ set[r].module = proposals[r].module /\ set[r].what = proposals[r].what
             /\ set[r].start = proposals[r].start /\ set[r].yes = proposals[r].yes
             /\ set[r].status = IF r = p THEN how ELSE proposals[r].status
  <2>1. proposals[r] \in Proposals
    BY ProposalTypes
  <2>2. set[r] = IF r = p THEN [proposals[r] EXCEPT !.status = how] ELSE proposals[r]
    BY <1>1
  <2> HIDE DEF set
  <2> QED BY <2>1, <2>2 DEF Proposals
<1> HIDE DEF set
<1>3. set \in Seq(Proposals) /\ Len(set) = Latest /\ DOMAIN set = DOMAIN proposals
  BY <1>1, <1>2
<1> QED BY <1>2, <1>3 DEF set

(* Every member's bond counts in every proposal.                            *)
LEMMA AllCounts ==
  ASSUME DaoTypes, Bonded, NEW p \in DOMAIN proposals
  PROVE  /\ Total(p) = bonds["user"].amount + bonds["second"].amount
         /\ Yes(p) = (IF "user" \in proposals[p].yes THEN bonds["user"].amount ELSE 0)
                     + (IF "second" \in proposals[p].yes THEN bonds["second"].amount ELSE 0)
<1>1. \A m \in Members : Power(p, m) = bonds[m].amount
  BY DEF Bonded, Power
<1>2. DOMAIN bonds = Members
  BY DEF DaoTypes
<1> QED BY <1>1, <1>2 DEF Total, Yes, VotesOf, Members

(* A proposal with the votes of its steps has passed.                       *)
LEMMA Passes ==
  ASSUME DaoInv, verdict = "running",
         \/ file = "overrule" /\ step \in {9, 12, 15}
         \/ file = "subdao" /\ step \in {23, 26}
         \/ file = "params" /\ step \in {5, 6, 11, 12, 17}
  PROVE  Latest \in DOMAIN proposals /\ HasPassed(Latest)
<1> DEFINE user == "user" \in proposals[Latest].yes
           second == "second" \in proposals[Latest].yes
<1>1. /\ file = "overrule" => bonds["user"].amount = 2 /\ bonds["second"].amount = 1
      /\ file # "overrule" => bonds["user"].amount = 1 /\ bonds["second"].amount = 0
  BY DEF DaoInv, DaoScript, Bonded
<1>2. CASE OfSingle
  <2>1. Latest \in DOMAIN proposals /\ proposals[Latest].module = "single" /\ user
    BY <1>2, ProposalTypes DEF DaoInv, Pending, Open, Voted, OfSingle
  <2>2. 2 * Yes(Latest) > Total(Latest)
    BY <1>1, <2>1, AllCounts DEF DaoInv
  <2> QED BY <2>1, <2>2 DEF HasPassed
<1>3. CASE OfSubdao
  <2>1. Latest \in DOMAIN proposals /\ proposals[Latest].module = "sub_single" /\ user
    BY <1>3, ProposalTypes DEF DaoInv, Pending, Open, Voted, OfSubdao
  <2> QED BY <2>1 DEF HasPassed
<1>4. CASE OfOverrule
  <2>1. Latest \in DOMAIN proposals /\ proposals[Latest].module = "overrule" /\ second
        /\ file = "overrule"
    BY <1>4, ProposalTypes DEF DaoInv, Pending, Open, Voted, OfOverrule
  <2>2. Yes(Latest) > 0 /\ 10 * Yes(Latest) >= Total(Latest)
    BY <1>1, <2>1, AllCounts DEF DaoInv
  <2> QED BY <2>1, <2>2 DEF HasPassed
<1> QED BY <1>2, <1>3, <1>4 DEF OfSingle, OfSubdao, OfOverrule

(* No vote comes after the end of the voting.                               *)
LEMMA VotesInTime ==
  ASSUME DaoInv, verdict = "running", step <= Len(tests),
         tests[step].op \in {"voteYes", "voteNo"}
  PROVE  Latest \in DOMAIN proposals /\ ~ Expired(Latest)
<1>1. /\ \/ file = "overrule" /\ step \in {5, 8, 11, 13, 14}
         \/ file = "subdao" /\ step \in {22, 25}
         \/ file = "params" /\ step \in {4, 10, 16}
      /\ height <= begun + VoteBlocks
  BY OverruleOps, SubdaoOps, ParamsOps DEF DaoInv, DaoScript, InVoting
<1>2. /\ {height, begun, VoteBlocks, VotingBlocks} \subseteq Nat
      /\ 2 * VoteBlocks <= VotingBlocks
  BY DaoAssumption DEF DaoInv, DaoScript
<1>3. CASE OfSingle
  BY <1>3, ProposalTypes DEF DaoInv, Pending, Open, Expired
<1>4. CASE OfSubdao \/ OfOverrule
  <2>1. Latest \in DOMAIN proposals
    BY <1>4, ProposalTypes DEF DaoInv, Pending, Open
  <2>2. \/ begun = proposals[Latest].start
        \/ begun <= proposals[Latest].start + VoteBlocks
    BY <1>1, <1>4 DEF DaoInv, InVoting, OfSubdao, OfOverrule
  <2>3. proposals[Latest].start \in Nat
    BY <2>1, ProposalTypes DEF DaoInv
  <2> QED BY <1>1, <1>2, <2>1, <2>2, <2>3 DEF Expired
<1> QED BY <1>1, <1>3, <1>4 DEF OfSingle, OfSubdao, OfOverrule

LEMMA DaoInitInv ==
  ASSUME ScriptInit(DaoFiles), DaoInit
  PROVE  DaoInv
<1>1. /\ file \in {"overrule", "subdao", "params"} /\ tests = DaoFiles[file] /\ step = 1
      /\ verdict = "running" /\ height = 1 /\ begun = 1
  BY DEF DaoFiles, ScriptInit
<1>2. /\ code = <<>> /\ codeIds = <<>> /\ contracts = <<>> /\ listed = FALSE
      /\ bonds = [m \in Members |-> [amount |-> 0, at |-> 0]]
      /\ proposals = <<>> /\ params = NoParams /\ readParams = NoParams /\ late = {}
      /\ stale = FALSE
  BY DEF DaoInit, Members
<1>3. DaoScript
  <2>1. tests \in {OverruleTests, SubdaoTests, ParamsTests}
    BY <1>1 DEF DaoFiles
  <2>2. /\ Len(OverruleTests) \in Nat /\ Len(SubdaoTests) \in Nat
        /\ Len(ParamsTests) \in Nat
    BY OverruleSteps, SubdaoSteps, ParamsSteps
  <2>3. Len(tests) \in Nat
    BY <2>1, <2>2
  <2> QED BY <1>1, <2>3 DEF DaoScript
<1>4. DaoTypes
  <2>1. NoParams \in Params
    BY DEF NoParams, Params, Names
  <2>2. bonds \in [Members -> [amount : Nat, at : Nat]]
    BY <1>2
  <2>3. listed \in BOOLEAN /\ stale \in BOOLEAN
    BY <1>2
  <2> QED BY <1>2, <2>1, <2>2, <2>3 DEF DaoTypes
<1>5. Uploaded
  BY <1>1, <1>2 DEF Uploaded
<1>6. Bonded
  BY <1>1, <1>2 DEF Bonded, Members
<1>7. Pending /\ Voted /\ LateOnes
  BY <1>1, <1>2 DEF Pending, Voted, LateOnes, OfSingle, OfSubdao, OfOverrule
<1>8. Listed
  BY <1>1, <1>2 DEF Listed
<1>9. InVoting
  BY <1>1, DaoAssumption DEF InVoting
<1>10. Fresh
  BY <1>1 DEF Fresh
<1>11. RightBinaries /\ ProposalsPass
  BY <1>1, <1>2 DEF RightBinaries, ProposalsPass
<1> QED BY <1>3, <1>4, <1>5, <1>6, <1>7, <1>8, <1>9, <1>10, <1>11 DEF DaoInv

-------------------------------------------------------------------------------
(* Steps that leave the proposals alone                                     *)

LEMMA DaoScriptGoesOn ==
  ASSUME DaoScript, step <= Len(tests), StepDone
  PROVE  DaoScript' /\ step' = step + 1 /\ begun' = height
          /\ UNCHANGED <<file, tests, verdict, height>>
<1>1. step' = step + 1 /\ begun' = height /\ UNCHANGED <<file, tests, verdict, height>>
  BY DEF StepDone
<1>2. step' \in 1 .. Len(tests) + 1
  BY <1>1, DaoTests DEF DaoScript
<1> QED BY <1>1, <1>2 DEF DaoScript

LEMMA DaoStepOver ==
  ASSUME DaoInv, verdict = "running", step <= Len(tests), StepDone,
         tests[step].op \in {"upload", "instantiate", "readParams", "checkPassed",
                             "executeTimelocked", "test", "waitBlocks", "waitSeconds"},
         UNCHANGED <<listed, bonds, proposals, late>>,
         DaoTypes', Uploaded', RightBinaries', Fresh'
  PROVE  DaoInv'
<1>1. DaoScript' /\ step' = step + 1 /\ begun' = height
        /\ UNCHANGED <<file, tests, verdict, height>>
  BY DaoScriptGoesOn DEF DaoInv
<1>2. /\ file \in {"overrule", "subdao", "params"} /\ step \in Nat
      /\ file = "overrule" => step = 3
      /\ file = "subdao" => step \in (1 .. 11) \union (13 .. 20) \union (27 .. 29)
      /\ file = "params" => step \in {2, 5, 7, 8, 11, 13, 15}
  <2>1. CASE file = "overrule"
    BY <2>1, OverruleOps DEF DaoInv
  <2>2. CASE file = "subdao"
    <3>0. step \in 1 .. 30 /\ Len(tests) = 29
      BY <2>2, DaoTests DEF DaoInv
    <3>1. step \in 1 .. 29
      BY <3>0
    <3>2. step # 12 /\ step \notin 21 .. 26
      BY <2>2, <3>1, SubdaoOps DEF DaoInv
    <3>3. step \in (1 .. 11) \union (13 .. 20) \union (27 .. 29)
      BY <3>1, <3>2
    <3> QED BY <2>2, <3>1, <3>3
  <2>3. CASE file = "params"
    BY <2>3, ParamsOps DEF DaoInv
  <2> QED BY <2>1, <2>2, <2>3, DaoTests DEF DaoInv, DaoScript
<1>3. Bonded'
  <2>1. /\ {height, begun} \subseteq Nat /\ begun <= height
        /\ \A m \in Members : bonds[m].at \in Nat /\ bonds[m].at <= begun
    BY DEF DaoInv, DaoScript, DaoTypes, Bonded
  <2>2. \A m \in Members : bonds[m].at <= height
    BY <2>1
  <2> QED BY <1>1, <1>2, <2>2 DEF DaoInv, Bonded
<1>4. (OfSingle' => OfSingle) /\ (OfSubdao' => OfSubdao) /\ (OfOverrule' => OfOverrule)
  <2>1. OfSingle' => OfSingle
    BY <1>1, <1>2 DEF OfSingle
  <2>2. OfSubdao' => OfSubdao
    BY <1>1, <1>2 DEF OfSubdao
  <2>3. OfOverrule' => OfOverrule
    BY <1>1, <1>2 DEF OfOverrule
  <2> QED BY <2>1, <2>2, <2>3
<1>5. Pending'
  <2>1. Latest' = Latest /\ \A m \in {"single", "sub_single", "overrule"} : Open(m)' <=> Open(m)
    BY DEF Latest, Open
  <2>2. file = "params" /\ step' \in (4 .. 6) \union (10 .. 12) =>
          step \in (4 .. 6) \union (10 .. 12)
    BY <1>1, <1>2
  <2>3. file = "params" /\ step' \in 15 .. 17 => step \in 15 .. 17
    BY <1>1, <1>2
  <2> QED BY <1>1, <1>4, <2>1, <2>2, <2>3 DEF DaoInv, Pending
<1>6. Voted'
  BY <1>1, <1>2 DEF DaoInv, Voted, Latest
<1>7. Listed' /\ LateOnes'
  BY <1>1, <1>2 DEF DaoInv, Listed, LateOnes
<1>8. InVoting'
  <2>1. height <= height + VoteBlocks /\ height <= height + 1
    BY DaoAssumption DEF DaoInv, DaoScript
  <2> QED BY <1>1, <1>2, <2>1 DEF InVoting
<1>9. ProposalsPass'
  BY <1>1 DEF ProposalsPass
<1> QED BY <1>1, <1>3, <1>5, <1>6, <1>7, <1>8, <1>9 DEF DaoInv

(* The id is the one the chain gave, whoever uploads in between.            *)
LEMMA UploadInv ==
  ASSUME DaoInv, Upload
  PROVE  DaoInv'
<1>1. /\ verdict = "running" /\ step <= Len(tests) /\ tests[step].op = "upload" /\ StepDone
      /\ code' = Append(code, Arg) /\ codeIds' = Over([b \in {Arg} |-> Len(code) + 1], codeIds)
      /\ UNCHANGED <<readParams, stale, contracts, listed, bonds, proposals, params, late>>
  BY DEF Upload, Running
<1>2. step' = step + 1 /\ UNCHANGED file
  BY <1>1 DEF StepDone
<1>3. /\ file = "subdao" /\ step \in (1 .. 8) \union (13 .. 19)
      /\ \A i \in 1 .. 8 : step = i => Arg = MainUploads[i]
      /\ \A i \in 1 .. 7 : step = 12 + i => Arg = SubdaoUploads[i]
  BY <1>1, OverruleOps, SubdaoOps, ParamsOps DEF DaoInv, DaoScript
<1>4. Arg \in Binaries
  <2>1. \A i \in 1 .. 8 : MainUploads[i] \in Binaries
    BY DEF Binaries
  <2>2. \A i \in 1 .. 7 : SubdaoUploads[i] \in Binaries
    BY DEF Binaries
  <2>3. CASE step \in 1 .. 8
    BY <1>3, <2>1, <2>3
  <2>4. CASE step \in 13 .. 19
    <3>1. step - 12 \in 1 .. 7 /\ step = 12 + (step - 12)
      BY <2>4
    <3> QED BY <1>3, <2>2, <3>1
  <2> QED BY <1>3, <2>3, <2>4
<1>5. /\ code \in Seq(Binaries) /\ code' \in Seq(Binaries) /\ Len(code') = Len(code) + 1
      /\ DOMAIN code \subseteq DOMAIN code' /\ Len(code) + 1 \in DOMAIN code'
      /\ code'[Len(code) + 1] = Arg
      /\ \A c \in DOMAIN code : code'[c] = code[c]
  BY <1>1, <1>4 DEF DaoInv, DaoTypes
<1>6. /\ DOMAIN codeIds' = DOMAIN codeIds \union {Arg}
      /\ codeIds'[Arg] = Len(code) + 1
      /\ \A b \in DOMAIN codeIds : b # Arg => codeIds'[b] = codeIds[b]
  BY <1>1 DEF Over
<1>7. DaoTypes'
  BY <1>1, <1>5 DEF DaoInv, DaoTypes
<1>8. Uploaded'
  <2>1. \A b \in DOMAIN codeIds' : codeIds'[b] \in DOMAIN code' /\ code'[codeIds'[b]] = b
    BY <1>5, <1>6 DEF DaoInv, Uploaded
  <2>2. \A i \in 1 .. 8 : step' > i => MainUploads[i] \in DOMAIN codeIds'
    <3> SUFFICES ASSUME NEW i \in 1 .. 8, step' > i
                 PROVE  MainUploads[i] \in DOMAIN codeIds'
      OBVIOUS
    <3>1. step = i \/ step > i
      BY <1>2, <1>3
    <3> QED BY <1>3, <1>6, <3>1 DEF DaoInv, Uploaded
  <2>3. \A i \in 1 .. 7 : step' > 12 + i => SubdaoUploads[i] \in DOMAIN codeIds'
    <3> SUFFICES ASSUME NEW i \in 1 .. 7, step' > 12 + i
                 PROVE  SubdaoUploads[i] \in DOMAIN codeIds'
      OBVIOUS
    <3>1. step = 12 + i \/ step > 12 + i
      BY <1>2, <1>3
    <3> QED BY <1>3, <1>6, <3>1 DEF DaoInv, Uploaded
  <2>4. \A l \in DOMAIN contracts' : contracts'[l] \in DOMAIN code'
    BY <1>1, <1>5 DEF DaoInv, Uploaded
  <2> QED BY <1>2, <2>1, <2>2, <2>3, <2>4 DEF Uploaded
<1>9. RightBinaries'
  BY <1>1, <1>5 DEF DaoInv, Uploaded, RightBinaries
<1>10. Fresh'
  BY <1>2, <1>3 DEF Fresh
<1> QED BY <1>1, <1>7, <1>8, <1>9, <1>10, DaoStepOver

LEMMA UploadOfOthersInv ==
  ASSUME DaoInv, UploadOfOthers
  PROVE  DaoInv'
<1>1. /\ code' = Append(code, "other") /\ verdict = "running"
      /\ UNCHANGED <<file, tests, step, verdict, height, begun, codeIds, readParams, stale,
                     contracts, listed, bonds, proposals, params, late>>
  BY DEF UploadOfOthers, scriptVars, Running
<1>2. /\ code \in Seq(Binaries) /\ code' \in Seq(Binaries)
      /\ DOMAIN code \subseteq DOMAIN code' /\ \A c \in DOMAIN code : code'[c] = code[c]
  <2>1. code \in Seq(Binaries) /\ "other" \in Binaries
    BY DEF DaoInv, DaoTypes, Binaries
  <2> QED BY <1>1, <2>1
<1>3. DaoScript' /\ DaoTypes'
  BY <1>1, <1>2 DEF DaoInv, DaoScript, DaoTypes
<1>4. Uploaded'
  BY <1>1, <1>2 DEF DaoInv, Uploaded
<1>5. RightBinaries'
  BY <1>1, <1>2 DEF DaoInv, Uploaded, RightBinaries
<1>6. Bonded'
  BY <1>1 DEF DaoInv, Bonded
<1>7. Pending' /\ Voted'
  BY <1>1 DEF DaoInv, Pending, Voted, Open, Latest, OfSingle, OfSubdao, OfOverrule
<1>8. Listed' /\ LateOnes'
  BY <1>1 DEF DaoInv, Listed, LateOnes
<1>9. InVoting' /\ Fresh'
  BY <1>1 DEF DaoInv, InVoting, Fresh, Latest
<1>10. ProposalsPass'
  BY <1>1 DEF ProposalsPass
<1> QED BY <1>3, <1>4, <1>5, <1>6, <1>7, <1>8, <1>9, <1>10 DEF DaoInv

(* Everything instantiated has been uploaded, and by its own id.            *)
LEMMA InstantiateInv ==
  ASSUME DaoInv, Instantiate
  PROVE  DaoInv'
<1>1. /\ verdict = "running" /\ step <= Len(tests) /\ tests[step].op = "instantiate" /\ StepDone
      /\ contracts' = Over([l \in DOMAIN Arg |-> codeIds[Arg[l]]], contracts)
      /\ UNCHANGED <<codeIds, readParams, stale, code, listed, bonds, proposals, params, late>>
  BY DEF Instantiate, Running
<1>2. step' = step + 1 /\ UNCHANGED file
  BY <1>1 DEF StepDone
<1>3. /\ file = "subdao" /\ step \in {9, 10, 20}
      /\ step = 9 => Arg = VaultContracts
      /\ step = 10 => Arg = MainContracts
      /\ step = 20 => Arg = SubdaoContracts
  BY <1>1, OverruleOps, SubdaoOps, ParamsOps DEF DaoInv, DaoScript
<1> DEFINE binary == Over(VaultContracts, Over(MainContracts, SubdaoContracts))
<1>4. \A l \in DOMAIN Arg : Arg[l] = binary[l] /\ Arg[l] \in DOMAIN codeIds
  <2>1. CASE step = 9
    <3>1. \A l \in DOMAIN VaultContracts :
            VaultContracts[l] = binary[l] /\ VaultContracts[l] = MainUploads[8]
      BY DEF VaultContracts, MainContracts, SubdaoContracts, MainUploads, Over
    <3> QED BY <1>3, <2>1, <3>1 DEF DaoInv, Uploaded
  <2>2. CASE step = 10
    <3>1. \A l \in DOMAIN MainContracts :
            MainContracts[l] = binary[l] /\ \E i \in 1 .. 8 : MainContracts[l] = MainUploads[i]
      BY DEF VaultContracts, MainContracts, SubdaoContracts, MainUploads, Over
    <3> QED BY <1>3, <2>2, <3>1 DEF DaoInv, Uploaded
  <2>3. CASE step = 20
    <3>1. \A l \in DOMAIN SubdaoContracts :
            SubdaoContracts[l] = binary[l]
                    /\ \E i \in 1 .. 7 : SubdaoContracts[l] = SubdaoUploads[i]
      BY DEF VaultContracts, MainContracts, SubdaoContracts, SubdaoUploads, Over
    <3> QED BY <1>3, <2>3, <3>1 DEF DaoInv, Uploaded
  <2> QED BY <1>3, <2>1, <2>2, <2>3
<1>5. /\ DOMAIN contracts' = DOMAIN Arg \union DOMAIN contracts
      /\ \A l \in DOMAIN Arg : contracts'[l] = codeIds[Arg[l]]
      /\ \A l \in DOMAIN contracts \ DOMAIN Arg : contracts'[l] = contracts[l]
  BY <1>1 DEF Over
<1>6. \A l \in DOMAIN contracts' : contracts'[l] \in DOMAIN code /\ code[contracts'[l]] = binary[l]
  <2> HIDE DEF binary
  <2>1. \A l \in DOMAIN Arg : contracts'[l] \in DOMAIN code /\ code[contracts'[l]] = binary[l]
    BY <1>4, <1>5 DEF DaoInv, Uploaded
  <2>2. \A l \in DOMAIN contracts : contracts[l] \in DOMAIN code /\ code[contracts[l]] = binary[l]
    BY DEF DaoInv, Uploaded, RightBinaries, binary
  <2> QED BY <1>5, <2>1, <2>2
<1>7. DaoTypes'
  BY <1>1 DEF DaoInv, DaoTypes
<1>8. Uploaded'
  <2>1. /\ \A i \in 1 .. 8 : step' > i => step > i
        /\ \A i \in 1 .. 7 : step' > 12 + i => step > 12 + i
    BY <1>2, <1>3
  <2> HIDE DEF binary
  <2> QED BY <1>1, <1>2, <1>6, <2>1 DEF DaoInv, Uploaded
<1>9. RightBinaries'
  BY <1>1, <1>6 DEF RightBinaries
<1>10. Fresh'
  BY <1>2, <1>3 DEF Fresh
<1> QED BY <1>1, <1>7, <1>8, <1>9, <1>10, DaoStepOver

LEMMA BondInv ==
  ASSUME DaoInv, Bond
  PROVE  DaoInv'
<1>1. /\ verdict = "running" /\ step <= Len(tests) /\ tests[step].op = "bondFunds" /\ StepDone
      /\ bonds' = [bonds EXCEPT ![Arg.member] = [amount |-> Arg.amount, at |-> height]]
      /\ UNCHANGED <<codeIds, readParams, stale, code, contracts, listed, proposals, params, late>>
  BY DEF Bond, Tx, Running
<1>2. DaoScript' /\ step' = step + 1 /\ begun' = height
        /\ UNCHANGED <<file, tests, verdict, height>>
  BY <1>1, DaoScriptGoesOn DEF DaoInv
<1>3. /\ \/ file = "overrule" /\ step = 1 /\ Arg.member = "user" /\ Arg.amount = 2
         \/ file = "overrule" /\ step = 2 /\ Arg.member = "second" /\ Arg.amount = 1
         \/ file = "subdao" /\ step = 12 /\ Arg.member = "user" /\ Arg.amount = 1
         \/ file = "params" /\ step = 1 /\ Arg.member = "user" /\ Arg.amount = 1
  BY <1>1, OverruleOps, SubdaoOps, ParamsOps DEF DaoInv, DaoScript
<1>4. /\ {height, begun} \subseteq Nat /\ begun <= height
      /\ bonds \in [Members -> [amount : Nat, at : Nat]]
      /\ \A m \in Members : bonds[m].at \in Nat /\ bonds[m].at <= begun
  BY DEF DaoInv, DaoScript, DaoTypes, Bonded
<1>5. /\ bonds' \in [Members -> [amount : Nat, at : Nat]]
      /\ bonds'[Arg.member].amount = Arg.amount
      /\ \A m \in Members : m # Arg.member => bonds'[m] = bonds[m]
      /\ \A m \in Members : bonds'[m].at <= height
  BY <1>1, <1>3, <1>4 DEF Members
<1>6. DaoTypes'
  BY <1>1, <1>5 DEF DaoInv, DaoTypes
<1>7. Uploaded'
  <2>1. /\ \A i \in 1 .. 8 : file = "subdao" /\ step' > i => step > i
        /\ \A i \in 1 .. 7 : file = "subdao" => ~ step' > 12 + i
    BY <1>2, <1>3
  <2> QED BY <1>1, <1>2, <2>1 DEF DaoInv, Uploaded
<1>8. Bonded'
  <2>1. Len(proposals) = 0 /\ DOMAIN proposals = {}
    BY <1>3, ProposalTypes DEF DaoInv, Bonded, Latest
  <2>2. file = "overrule" /\ step = 2 => bonds["user"].amount = 2
    BY DEF DaoInv, Bonded
  <2>3. file # "overrule" => bonds["second"].amount = 0
    BY DEF DaoInv, DaoScript, Bonded
  <2> QED BY <1>1, <1>2, <1>3, <1>5, <2>1, <2>2, <2>3 DEF Bonded, Members
<1>9. Pending' /\ Voted' /\ InVoting'
  <2>1. ~ OfSingle' /\ ~ OfSubdao' /\ ~ OfOverrule'
    BY <1>2, <1>3 DEF OfSingle, OfSubdao, OfOverrule
  <2>2. height <= height + VoteBlocks
    BY <1>4, DaoAssumption
  <2>3. Pending'
    BY <1>2, <1>3, <2>1 DEF Pending
  <2>4. Voted'
    BY <1>2, <1>3 DEF Voted
  <2>5. InVoting'
    BY <1>2, <1>3, <2>2 DEF InVoting
  <2> QED BY <2>3, <2>4, <2>5
<1>10. Listed' /\ LateOnes'
  BY <1>1, <1>2, <1>3 DEF DaoInv, Listed, LateOnes
<1>11. Fresh'
  BY <1>2, <1>3 DEF Fresh
<1>12. RightBinaries' /\ ProposalsPass'
  BY <1>1, <1>2 DEF DaoInv, RightBinaries, ProposalsPass
<1> QED BY <1>2, <1>6, <1>7, <1>8, <1>9, <1>10, <1>11, <1>12 DEF DaoInv

LEMMA ReadParamsInv ==
  ASSUME DaoInv, ReadParams
  PROVE  DaoInv'
<1>1. /\ verdict = "running" /\ step <= Len(tests) /\ tests[step].op = "readParams" /\ StepDone
      /\ readParams' = params /\ stale' = FALSE
      /\ UNCHANGED <<codeIds, code, contracts, listed, bonds, proposals, params, late>>
  BY DEF ReadParams, Running, chainDaoVars
<1>2. step' = step + 1 /\ UNCHANGED file
  BY <1>1 DEF StepDone
<1>3. file = "params" /\ step \in {2, 8}
  BY <1>1, OverruleOps, SubdaoOps, ParamsOps DEF DaoInv, DaoScript
<1>4. DaoTypes'
  <2>1. stale' \in BOOLEAN
    BY <1>1
  <2> QED BY <1>1, <2>1 DEF DaoInv, DaoTypes
<1>5. Uploaded' /\ RightBinaries'
  BY <1>1, <1>2, <1>3 DEF DaoInv, Uploaded, RightBinaries
<1>6. Fresh'
  BY <1>1, <1>2, <1>3 DEF Fresh
<1> QED BY <1>1, <1>4, <1>5, <1>6, DaoStepOver

LEMMA CheckPassedInv ==
  ASSUME DaoInv, CheckPassed
  PROVE  DaoInv'
<1>1. /\ verdict = "running" /\ step <= Len(tests) /\ tests[step].op = "checkPassed"
      /\ UNCHANGED <<codeIds, readParams, stale, code, contracts, listed, bonds, proposals,
                     params, late>>
  BY DEF CheckPassed, Running, chainDaoVars
<1>2. file = "params" /\ step \in {5, 11}
  BY <1>1, OverruleOps, SubdaoOps, ParamsOps DEF DaoInv, DaoScript
<1>3. StepDone /\ step' = step + 1 /\ UNCHANGED file
  BY <1>1, <1>2, Passes DEF CheckPassed, Expect, StepDone
<1>4. DaoTypes' /\ Uploaded' /\ RightBinaries'
  BY <1>1, <1>2, <1>3 DEF DaoInv, DaoTypes, Uploaded, RightBinaries
<1>5. Fresh'
  BY <1>1, <1>2, <1>3 DEF DaoInv, Fresh, Latest
<1> QED BY <1>1, <1>3, <1>4, <1>5, DaoStepOver

LEMMA DaoStepInv ==
  ASSUME DaoInv, DaoStep
  PROVE  DaoInv'
<1>1. /\ verdict = "running" /\ step <= Len(tests) /\ StepDone
      /\ tests[step].op \in {"test", "waitBlocks", "waitSeconds"}
      /\ UNCHANGED <<codeIds, readParams, stale, code, contracts, listed, bonds, proposals,
                     params, late>>
  BY DEF DaoStep, Running, chainDaoVars
<1>2. step' = step + 1 /\ UNCHANGED file
  BY <1>1 DEF StepDone
<1>3. \/ file = "overrule" /\ step = 3
      \/ file = "subdao" /\ step \in {11, 28}
      \/ file = "params" /\ step \in {7, 13, 15}
  BY <1>1, OverruleOps, SubdaoOps, ParamsOps DEF DaoInv, DaoScript
<1>4. DaoTypes' /\ RightBinaries'
  BY <1>1 DEF DaoInv, DaoTypes, RightBinaries
<1>5. Uploaded'
  <2>1. /\ \A i \in 1 .. 8 : file = "subdao" /\ step' > i => step > i
        /\ \A i \in 1 .. 7 : file = "subdao" /\ step' > 12 + i => step > 12 + i
    BY <1>2, <1>3
  <2> QED BY <1>1, <1>2, <2>1 DEF DaoInv, Uploaded
<1>6. Fresh'
  BY <1>2, <1>3 DEF Fresh
<1> QED BY <1>1, <1>4, <1>5, <1>6, DaoStepOver

-------------------------------------------------------------------------------
(* Steps of proposals                                                       *)

(* What a step of a proposal leaves alone                                   *)
LEMMA ContractsStay ==
  ASSUME DaoInv, UNCHANGED <<file, code, codeIds, contracts>>,
         file = "subdao" => step > 20 /\ step' > 20
  PROVE  Uploaded' /\ RightBinaries'
<1>1. \A i \in 1 .. 8 : file = "subdao" => step > i
  <2>1. file = "subdao" => step \in Nat
    BY DaoTests DEF DaoInv
  <2> QED BY <2>1
<1>2. \A i \in 1 .. 7 : file = "subdao" => step > 12 + i
  <2>1. file = "subdao" => step \in Nat
    BY DaoTests DEF DaoInv
  <2> QED BY <2>1
<1> QED BY <1>1, <1>2 DEF DaoInv, Uploaded, RightBinaries

LEMMA SubmitProposalInv ==
  ASSUME DaoInv, SubmitProposal
  PROVE  DaoInv'
<1> DEFINE new == Proposal(Arg.module, MessageOf(Arg.what))
<1>1. /\ verdict = "running" /\ step <= Len(tests) /\ tests[step].op = "submit" /\ StepDone
      /\ height >= begun + 1 /\ proposals' = Append(proposals, new)
      /\ UNCHANGED <<codeIds, readParams, stale, code, contracts, listed, bonds, params, late>>
  BY DEF SubmitProposal, Tx, Running, BlocksPassed
<1>2. DaoScript' /\ step' = step + 1 /\ begun' = height
        /\ UNCHANGED <<file, tests, verdict, height>>
  BY <1>1, DaoScriptGoesOn DEF DaoInv
<1>3. \/ file = "overrule" /\ step = 7
        /\ Arg = [module |-> "single", what |-> [kind |-> "add_subdao"]]
      \/ file = "overrule" /\ step \in {4, 10}
           /\ Arg = [module |-> "sub_single", what |-> [kind |-> "send"]]
      \/ file = "subdao" /\ step = 21
              /\ Arg = [module |-> "single", what |-> [kind |-> "add_subdao"]]
      \/ file = "subdao" /\ step = 24 /\ Arg = [module |-> "sub_single", what |-> [kind |-> "send"]]
      \/ file = "params" /\ step = 3 /\ Arg = [module |-> "single", what |-> Update("keys")]
      \/ file = "params" /\ step = 9 /\ Arg = [module |-> "single", what |-> Update("filters")]
      \/ file = "params" /\ step = 14
           /\ Arg = [module |-> "single", what |-> [kind |-> "change", name |-> "keys"]]
  BY <1>1, OverruleOps, SubdaoOps, ParamsOps DEF DaoInv, DaoScript
<1>4. /\ {height, begun} \subseteq Nat /\ begun <= height
      /\ readParams \in Params
      /\ \A m \in Members : bonds[m].at \in Nat /\ bonds[m].at <= begun
  BY DEF DaoInv, DaoScript, DaoTypes, Bonded
<1>5. /\ MessageOf(Arg.what) \in ProposalMessage
      /\ Arg.module \in {"single", "sub_single"}
      /\ MessageOf(Arg.what).kind = Arg.what.kind
      /\ Arg.what.kind = "update" =>
           \E n \in Names : MessageOf(Arg.what).params = [readParams EXCEPT ![n] = 1]
  <2>1. \A n \in Names : [readParams EXCEPT ![n] = 1] \in Params
    BY <1>4 DEF Params
  <2>2. CASE Arg.what.kind \in {"send", "add_subdao"}
    <3>1. Arg.what = [kind |-> "send"] \/ Arg.what = [kind |-> "add_subdao"]
      BY <1>3, <2>2 DEF Update
    <3>2. MessageOf(Arg.what) = Arg.what
      BY <2>2 DEF MessageOf
    <3>3. Arg.what \in ProposalMessage
      BY <3>1 DEF ProposalMessage
    <3> QED BY <1>3, <2>2, <3>2, <3>3
  <2>3. CASE file = "params" /\ step = 14
    BY <1>3, <2>3 DEF MessageOf, ProposalMessage, Names
  <2>4. CASE file = "params" /\ step \in {3, 9}
    <3>1. PICK n \in Names : Arg.what = [kind |-> "update", name |-> n]
      BY <1>3, <2>4 DEF Names, Update
    <3>2. MessageOf(Arg.what) = [kind |-> "update", params |-> [readParams EXCEPT ![n] = 1]]
      BY <3>1 DEF MessageOf
    <3>3. MessageOf(Arg.what) \in ProposalMessage
      BY <2>1, <3>2 DEF ProposalMessage
    <3> QED BY <1>3, <2>4, <3>1, <3>2, <3>3
  <2> QED BY <1>3, <2>2, <2>3, <2>4
<1>6. /\ new \in Proposals /\ new.module = Arg.module /\ new.what = MessageOf(Arg.what)
      /\ new.start = height /\ new.yes = {} /\ new.status = "open"
  BY <1>4, <1>5 DEF Proposal, Proposals
<1> HIDE DEF new
<1>7. /\ proposals' \in Seq(Proposals) /\ Latest' = Latest + 1 /\ proposals'[Latest'] = new
      /\ DOMAIN proposals' = DOMAIN proposals \union {Latest'}
      /\ Latest' > 0 /\ Latest' \notin DOMAIN proposals /\ Latest \in Nat
      /\ \A p \in DOMAIN proposals : proposals'[p] = proposals[p]
  BY <1>1, <1>6 DEF DaoInv, DaoTypes, Latest
<1>8. DaoTypes'
  BY <1>1, <1>7 DEF DaoInv, DaoTypes
<1>9. Uploaded' /\ RightBinaries'
  BY <1>1, <1>2, <1>3, ContractsStay
<1>10. Bonded'
  <2>1. \A m \in Members : bonds[m].at <= height /\ bonds[m].at < height
    BY <1>1, <1>4
  <2>2. \A p \in DOMAIN proposals' : \A m \in Members : bonds[m].at < proposals'[p].start
    BY <1>6, <1>7, <2>1 DEF DaoInv, Bonded
  <2> QED BY <1>1, <1>2, <1>3, <2>1, <2>2 DEF DaoInv, Bonded
<1>11. /\ Latest' \notin late' /\ proposals'[Latest'].module = Arg.module
       /\ proposals'[Latest'].status = "open" /\ Latest' > 0
       /\ proposals'[Latest'].what.kind = Arg.what.kind
  BY <1>1, <1>5, <1>6, <1>7 DEF DaoInv, DaoTypes
<1>12. Pending'
  <2>1. OfSingle' => Arg.module = "single"
                     /\ (file = "params" /\ step \in {3, 9} => Arg.what.kind = "update")
                     /\ (file = "params" /\ step = 14 => Arg.what.kind = "change")
                     /\ (file # "params" => Arg.what.kind = "add_subdao")
    BY <1>2, <1>3 DEF OfSingle, Update
  <2>2. OfSubdao' => Arg.module = "sub_single" /\ Arg.what.kind = "send"
    BY <1>2, <1>3 DEF OfSubdao
  <2>3. ~ OfOverrule'
    BY <1>2, <1>3 DEF OfOverrule
  <2>4. /\ file = "params" /\ step' \in (4 .. 6) \union (10 .. 12) => step \in {3, 9} /\ OfSingle'
        /\ file = "params" /\ step' \in 15 .. 17 => step = 14 /\ OfSingle'
    BY <1>2, <1>3 DEF OfSingle
  <2>5. OfSingle' => Open("single")'
    BY <1>11, <2>1 DEF Open
  <2>6. OfSubdao' => Open("sub_single")'
    BY <1>11, <2>2 DEF Open
  <2> QED BY <1>2, <1>11, <2>1, <2>2, <2>3, <2>4, <2>5, <2>6 DEF Pending
<1>13. Voted'
  BY <1>2, <1>3 DEF Voted
<1>14. Listed'
  BY <1>1, <1>2, <1>3 DEF DaoInv, Listed
<1>15. LateOnes'
  BY <1>1, <1>2, <1>7 DEF DaoInv, DaoTypes, LateOnes
<1>16. InVoting'
  <2>1. height <= height + VoteBlocks /\ height <= height + 1
    BY <1>4, DaoAssumption
  <2> QED BY <1>2, <1>3, <1>6, <1>7, <2>1 DEF InVoting
<1>17. Fresh'
  <2>1. file = "params" /\ ~ stale /\ step \in {3, 9}
          => readParams = params /\ Arg.what.kind = "update"
    BY <1>3 DEF DaoInv, Fresh, Update
  <2>2. file = "params" /\ step' \in (4 .. 6) \union (10 .. 12) => step \in {3, 9}
    BY <1>2, <1>3
  <2>3. file = "params" => step' \notin {3, 9}
    BY <1>2, <1>3
  <2>4. ASSUME file = "params", ~ stale, step \in {3, 9}
        PROVE  \E n \in Names : proposals'[Latest'].what.params = [params' EXCEPT ![n] = 1]
    BY <1>1, <1>5, <1>6, <1>7, <2>1, <2>4
  <2> QED BY <1>1, <1>2, <2>2, <2>3, <2>4 DEF Fresh
<1>18. ProposalsPass'
  BY <1>1, <1>2 DEF ProposalsPass
<1> QED BY <1>2, <1>8, <1>9, <1>10, <1>12, <1>13, <1>14, <1>15, <1>16, <1>17, <1>18 DEF DaoInv

LEMMA VoteInv ==
  ASSUME DaoInv, Vote
  PROVE  DaoInv'
<1>1. /\ verdict = "running" /\ step <= Len(tests) /\ tests[step].op \in {"voteYes", "voteNo"}
      /\ UNCHANGED <<codeIds, readParams, stale, code, contracts, listed, bonds, params, late>>
  BY DEF Vote, Tx, Running
<1>2. Latest \in DOMAIN proposals /\ ~ Expired(Latest)
  BY <1>1, VotesInTime
<1>3. StepDone
  BY <1>2 DEF Vote, Expect
<1>4. DaoScript' /\ step' = step + 1 /\ begun' = height
        /\ UNCHANGED <<file, tests, verdict, height>>
  BY <1>1, <1>3, DaoScriptGoesOn DEF DaoInv
<1>5. /\ \/ file = "overrule" /\ step \in {5, 8, 11, 13, 14}
         \/ file = "subdao" /\ step \in {22, 25}
         \/ file = "params" /\ step \in {4, 10, 16}
      /\ tests[step].op = "voteYes" <=> ~ (file = "overrule" /\ step = 13)
      /\ Arg = (IF file = "overrule" /\ step = 14 THEN "second" ELSE "user")
           \/ (file = "overrule" /\ step = 13)
  BY <1>1, OverruleOps, SubdaoOps, ParamsOps DEF DaoInv, DaoScript
<1> DEFINE votes == [p \in DOMAIN proposals |->
                       IF p = Latest /\ ~ (file = "overrule" /\ step = 13)
                         THEN proposals[p].yes \union {Arg} ELSE proposals[p].yes]
<1>6. proposals' = [p \in 1 .. Latest |-> [proposals[p] EXCEPT !.yes = votes[p]]]
  <2>1. \A p \in DOMAIN proposals :
          proposals[p] = [proposals[p] EXCEPT !.yes = proposals[p].yes]
    BY ProposalTypes DEF DaoInv, Proposals
  <2>2. CASE file = "overrule" /\ step = 13
    <3>1. proposals' = proposals
      BY <1>1, <1>5, <2>2 DEF Vote, Tx, Running
    <3>2. proposals = [p \in 1 .. Latest |-> proposals[p]]
      BY ProposalTypes DEF DaoInv, DaoTypes
    <3> QED BY <2>1, <2>2, <3>1, <3>2, ProposalTypes DEF DaoInv
  <2>3. CASE ~ (file = "overrule" /\ step = 13)
    <3>1. proposals' = [proposals EXCEPT ![Latest].yes = @ \union {Arg}]
      BY <1>1, <1>2, <1>5, <2>3 DEF Vote, Tx, Running
    <3> QED BY <2>1, <2>3, <3>1, ProposalTypes DEF DaoInv
  <2> QED BY <2>2, <2>3
<1>7. /\ proposals' \in Seq(Proposals) /\ Latest' = Latest /\ DOMAIN proposals' = DOMAIN proposals
      /\ \A p \in DOMAIN proposals :
           /\ proposals'[p].module = proposals[p].module /\ proposals'[p].what = proposals[p].what
           /\ proposals'[p].start = proposals[p].start /\ proposals'[p].status = proposals[p].status
           /\ proposals'[p].yes = votes[p]
  <2>1. DOMAIN proposals = 1 .. Latest /\ Latest \in Nat
    BY ProposalTypes DEF DaoInv
  <2>2. Arg \in Members \/ (file = "overrule" /\ step = 13)
    BY <1>5 DEF Members
  <2>3. ASSUME NEW p \in DOMAIN proposals
        PROVE  /\ proposals'[p] \in Proposals
               /\ proposals'[p].module = proposals[p].module
                       /\ proposals'[p].what = proposals[p].what
               /\ proposals'[p].start = proposals[p].start
                       /\ proposals'[p].status = proposals[p].status
               /\ proposals'[p].yes = votes[p]
    <3>1. proposals[p] \in Proposals /\ votes[p] \in SUBSET Members
      BY <2>2, ProposalTypes DEF DaoInv
    <3>2. proposals'[p] = [proposals[p] EXCEPT !.yes = votes[p]]
      BY <1>6, <2>1
    <3> HIDE DEF votes
    <3> QED BY <3>1, <3>2 DEF Proposals
  <2>4. proposals' = [p \in 1 .. Latest |-> proposals'[p]]
    BY <1>6
  <2> HIDE DEF votes
  <2>5. proposals' \in Seq(Proposals) /\ Len(proposals') = Latest
    BY <2>1, <2>3, <2>4
  <2> QED BY <2>1, <2>3, <2>5 DEF Latest
<1>8. /\ {height, begun} \subseteq Nat /\ begun <= height /\ VoteBlocks \in Nat
      /\ height <= begun + VoteBlocks
      /\ \A m \in Members : bonds[m].at \in Nat /\ bonds[m].at <= begun
      /\ proposals[Latest].start \in Nat
  <2>1. {height, begun} \subseteq Nat /\ begun <= height /\ VoteBlocks \in Nat
    BY DaoAssumption DEF DaoInv, DaoScript
  <2>2. height <= begun + VoteBlocks
    BY <1>1 DEF DaoInv, InVoting
  <2>3. \A m \in Members : bonds[m].at \in Nat /\ bonds[m].at <= begun
    BY DEF DaoInv, DaoTypes, Bonded
  <2>4. proposals[Latest].start \in Nat
    BY <1>2, ProposalTypes DEF DaoInv
  <2> QED BY <2>1, <2>2, <2>3, <2>4
<1>9. DaoTypes'
  BY <1>1, <1>7 DEF DaoInv, DaoTypes
<1>10. Uploaded' /\ RightBinaries'
  BY <1>1, <1>4, <1>5, ContractsStay
<1>11. Bonded'
  <2>1. \A m \in Members : bonds[m].at <= height
    BY <1>8
  <2>2. \A p \in DOMAIN proposals' : \A m \in Members : bonds[m].at < proposals'[p].start
    <3> HIDE DEF votes
    <3> QED BY <1>7 DEF DaoInv, Bonded
  <2> HIDE DEF votes
  <2> QED BY <1>1, <1>4, <1>5, <2>1, <2>2 DEF DaoInv, Bonded
<1>12. (OfSingle' => OfSingle) /\ (OfSubdao' => OfSubdao) /\ (OfOverrule' => OfOverrule)
  <2>1. OfSingle' => OfSingle
    BY <1>4, <1>5 DEF OfSingle
  <2>2. OfSubdao' => OfSubdao
    BY <1>4, <1>5 DEF OfSubdao
  <2>3. OfOverrule' => OfOverrule
    BY <1>4, <1>5 DEF OfOverrule
  <2> QED BY <2>1, <2>2, <2>3
<1>13. Pending'
  <2>1. \A m \in {"single", "sub_single", "overrule"} : Open(m)' <=> Open(m)
    BY <1>1, <1>2, <1>7 DEF Open
  <2>2. /\ file = "params" /\ step' \in (4 .. 6) \union (10 .. 12) =>
             step \in (4 .. 6) \union (10 .. 12)
        /\ file = "params" /\ step' \in 15 .. 17 => step \in 15 .. 17
        /\ ~ (file = "subdao" /\ OfOverrule')
    BY <1>4, <1>5 DEF OfOverrule
  <2>3. proposals'[Latest'].what = proposals[Latest].what
    BY <1>2, <1>7
  <2> HIDE DEF votes
  <2> QED BY <1>4, <1>7, <1>12, <2>1, <2>2, <2>3 DEF DaoInv, Pending
<1>14. Voted'
  <2>1. /\ file = "overrule" /\ step' \in {9, 12} => Arg = "user" /\ step # 13
        /\ file = "overrule" /\ step' = 15 => Arg = "second" /\ step # 13
        /\ file # "overrule" => Arg = "user"
    BY <1>4, <1>5
  <2>2. ~ (file = "overrule" /\ step = 13) => Arg \in proposals'[Latest'].yes
    BY <1>2, <1>7
  <2> QED BY <1>4, <2>1, <2>2 DEF Voted
<1>15. Listed'
  BY <1>1, <1>4, <1>5 DEF DaoInv, Listed
<1>16. LateOnes'
  BY <1>1, <1>4, <1>7 DEF DaoInv, DaoTypes, LateOnes
<1>17. InVoting'
  <2>1. height <= height + VoteBlocks /\ height <= height + 1
    BY <1>8
  <2>2. file = "overrule" /\ step = 13 => height <= proposals[Latest].start + VoteBlocks
    BY <1>8 DEF DaoInv, InVoting
  <2>3. proposals'[Latest'].start = proposals[Latest].start
    BY <1>2, <1>7
  <2> QED BY <1>4, <1>5, <2>1, <2>2, <2>3 DEF InVoting
<1>18. Fresh'
  <2>1. proposals'[Latest'].what = proposals[Latest].what
    BY <1>2, <1>7
  <2> QED BY <1>1, <1>4, <1>5, <2>1 DEF DaoInv, Fresh
<1>19. ProposalsPass'
  BY <1>1, <1>4 DEF ProposalsPass
<1> QED BY <1>4, <1>9, <1>10, <1>11, <1>13, <1>14, <1>15, <1>16, <1>17, <1>18, <1>19 DEF DaoInv

(* What an execution that is for parameters does, late or not               *)
LEMMA ExecutesParams ==
  ASSUME DaoInv, NEW p \in DOMAIN proposals, Executes(p),
         proposals[p].what.kind \in {"update", "change"}
  PROVE  /\ proposals' = SetStatus(p, "executed") /\ (listed' <=> listed) /\ listed' \in BOOLEAN
         /\ params' \in Params
         /\ proposals[p].what.kind = "update" => params' = proposals[p].what.params
         /\ proposals[p].what.kind = "change" =>
              /\ proposals[p].what.name \in Names
              /\ params' = [params EXCEPT ![proposals[p].what.name] = 2]
<1>1. proposals[p].what \in ProposalMessage
  BY ProposalTypes DEF DaoInv
<1>2. /\ proposals[p].what.kind = "update" => proposals[p].what.params \in Params
      /\ proposals[p].what.kind = "change" => proposals[p].what.name \in Names
  BY <1>1 DEF ProposalMessage
<1>3. proposals' = SetStatus(p, "executed")
  BY DEF Executes
<1>4. (listed' <=> listed) /\ listed' \in BOOLEAN
  <2>1. listed' = (listed \/ proposals[p].what.kind = "add_subdao")
    BY DEF Executes
  <2>2. proposals[p].what.kind # "add_subdao"
    OBVIOUS
  <2>3. listed \in BOOLEAN
    BY DEF DaoInv, DaoTypes
  <2>4. listed' = (listed \/ FALSE)
    BY <2>1, <2>2
  <2> QED BY <2>3, <2>4
<1>5. /\ proposals[p].what.kind = "update" => params' = proposals[p].what.params
      /\ proposals[p].what.kind = "change" =>
           params' = [params EXCEPT ![proposals[p].what.name] = 2]
  BY DEF Executes
<1>6. params' \in Params
  <2>1. CASE proposals[p].what.kind = "update"
    BY <1>2, <1>5, <2>1
  <2>2. CASE proposals[p].what.kind = "change"
    <3>1. params \in Params
      BY DEF DaoInv, DaoTypes
    <3>2. params' = [params EXCEPT ![proposals[p].what.name] = 2]
      BY <1>5, <2>2
    <3> QED BY <3>1, <3>2 DEF Params
  <2> QED BY <2>1, <2>2
<1> QED BY <1>2, <1>3, <1>4, <1>5, <1>6

(* After its execution the latest proposal is done with, unless it is a     *)
(* subDAO's.                                                                *)
LEMMA ExecutionOver ==
  ASSUME DaoInv, verdict = "running", step <= Len(tests), StepDone,
         \/ file = "overrule" /\ step \in {6, 9, 15}
         \/ file = "subdao" /\ step \in {23, 29}
         \/ file = "params" /\ step \in {6, 12, 17},
         UNCHANGED <<codeIds, readParams, stale, code, contracts, bonds, late>>,
         params' \in Params,
         listed' \in BOOLEAN, Listed',
         proposals' \in Seq(Proposals), Len(proposals') = Len(proposals),
         \A p \in DOMAIN proposals :
           /\ proposals'[p].what = proposals[p].what
           /\ proposals'[p].start = proposals[p].start
  PROVE  DaoInv'
<1>1. DaoScript' /\ step' = step + 1 /\ begun' = height
        /\ UNCHANGED <<file, tests, verdict, height>>
  BY DaoScriptGoesOn DEF DaoInv
<1>2. DOMAIN proposals' = DOMAIN proposals
  BY ProposalTypes DEF DaoInv, Latest
<1>3. /\ {height, begun} \subseteq Nat /\ begun <= height
      /\ \A m \in Members : bonds[m].at \in Nat /\ bonds[m].at <= begun
  BY DEF DaoInv, DaoScript, DaoTypes, Bonded
<1>4. DaoTypes'
  BY <1>2 DEF DaoInv, DaoTypes
<1>5. Uploaded' /\ RightBinaries'
  BY <1>1, ContractsStay
<1>6. Bonded'
  <2>1. \A m \in Members : bonds[m].at <= height
    BY <1>3
  <2> QED BY <1>1, <1>2, <2>1 DEF DaoInv, Bonded
<1>7. Pending'
  <2>1. ~ OfSingle' /\ ~ OfSubdao' /\ ~ OfOverrule'
    BY <1>1 DEF OfSingle, OfSubdao, OfOverrule
  <2> QED BY <1>1, <2>1 DEF Pending
<1>8. Voted'
  BY <1>1 DEF Voted
<1>9. LateOnes'
  BY <1>1 DEF DaoInv, DaoTypes, LateOnes
<1>10. InVoting'
  <2>1. height <= height + VoteBlocks
    BY <1>3, DaoAssumption
  <2> QED BY <1>1, <2>1 DEF InVoting
<1>11. Fresh'
  BY <1>1 DEF Fresh
<1>12. ProposalsPass'
  BY <1>1 DEF ProposalsPass
<1> QED BY <1>1, <1>4, <1>5, <1>6, <1>7, <1>8, <1>9, <1>10, <1>11, <1>12 DEF DaoInv

LEMMA ExecuteProposalInv ==
  ASSUME DaoInv, ExecuteProposal
  PROVE  DaoInv'
<1>1. /\ verdict = "running" /\ step <= Len(tests) /\ tests[step].op = "execute"
      /\ height >= begun + 1
      /\ UNCHANGED <<codeIds, readParams, stale, code, contracts, bonds, late>>
  BY DEF ExecuteProposal, Tx, Running, BlocksPassed
<1>2. /\ \/ file = "overrule" /\ step \in {6, 9, 12, 15}
         \/ file = "subdao" /\ step \in {23, 26}
         \/ file = "params" /\ step \in {6, 12, 17}
      /\ Arg = "passes" <=> ~ (file = "overrule" /\ step = 6)
  BY <1>1, OverruleOps, SubdaoOps, ParamsOps DEF DaoInv, DaoScript
<1>2a. \/ file = "overrule" /\ step \in {6, 9, 12, 15}
       \/ file = "subdao" /\ step \in {23, 26}
       \/ file = "params" /\ step \in {6, 12, 17}
  BY <1>1, OverruleOps, SubdaoOps, ParamsOps DEF DaoInv, DaoScript
<1>3. /\ \/ OfSingle \/ OfSubdao \/ OfOverrule
      /\ Latest \in DOMAIN proposals /\ proposals[Latest].status = "open"
      /\ proposals[Latest].what \in ProposalMessage
  <2>1. OfSingle \/ OfSubdao \/ OfOverrule
    BY <1>2 DEF OfSingle, OfSubdao, OfOverrule
  <2> QED BY <1>1, <2>1, ProposalTypes DEF DaoInv, Pending, Open
(* not listed yet *)
<1>4. CASE file = "overrule" /\ step = 6
  <2>1. ~ listed /\ proposals[Latest].what.kind = "send"
    BY <1>1, <1>4 DEF DaoInv, Listed, Pending, OfSubdao
  <2>2. ~ Executable(Latest)
    BY <2>1 DEF Executable
  <2>3. StepDone /\ UNCHANGED <<proposals, listed, params>>
    BY <1>2, <1>4, <2>2 DEF ExecuteProposal, Expect
  <2>4. Listed' /\ listed' \in BOOLEAN /\ params' \in Params
    BY <1>4, <2>3 DEF DaoInv, DaoTypes, Listed, StepDone
  <2> QED BY <1>1, <1>4, <2>3, <2>4, ExecutionOver DEF DaoInv, DaoTypes
<1>5. CASE ~ (file = "overrule" /\ step = 6)
  <2>1. HasPassed(Latest)
    BY <1>1, <1>2, <1>5, Passes
  <2>2. proposals[Latest].what.kind = "send" => listed
    BY <1>1, <1>2, <1>5 DEF DaoInv, Listed, Pending, OfSingle
  <2>3. Executable(Latest)
    BY <1>3, <2>1, <2>2 DEF Executable
  <2>4. StepDone /\ Executes(Latest)
    BY <1>2, <1>5, <2>3 DEF ExecuteProposal, Expect
  <2>5. step' = step + 1 /\ begun' = height /\ UNCHANGED <<file, tests, verdict, height>>
    BY <2>4 DEF StepDone
  (* the subDAO is listed *)
  <2>6. CASE (file = "overrule" /\ step = 9) \/ (file = "subdao" /\ step = 23)
    <3>1. proposals[Latest].what.kind = "add_subdao"
      BY <1>1, <2>6 DEF DaoInv, Pending, OfSingle
    <3>2. proposals' = SetStatus(Latest, "executed") /\ params' = params
      BY <2>4, <3>1 DEF Executes
    <3>3. listed' = TRUE
      BY <2>4, <3>1 DEF Executes
    <3>4. Listed'
      <4>1. file = "overrule" => step' >= 10
        BY <2>5, <2>6
      <4> QED BY <2>5, <3>3, <4>1 DEF Listed
    <3>5. listed' \in BOOLEAN
      BY <3>3
    <3> QED BY <1>1, <1>3, <2>4, <2>6, <3>2, <3>4, <3>5, SetStatusTypes, ExecutionOver
            DEF DaoInv, DaoTypes, Latest
  (* parameters *)
  <2>7. CASE file = "params"
    <3>1. proposals[Latest].what.kind \in {"update", "change"}
      BY <1>1, <1>2, <2>7 DEF DaoInv, Pending
    <3>2. /\ proposals' = SetStatus(Latest, "executed") /\ listed' \in BOOLEAN
          /\ params' \in Params
      BY <1>3, <2>4, <3>1, ExecutesParams
    <3>3. Listed'
      BY <2>5, <2>7 DEF Listed
    <3> QED BY <1>1, <1>2, <1>3, <2>4, <2>7, <3>2, <3>3, SetStatusTypes, ExecutionOver
            DEF DaoInv, Latest
  (* the subDAO's proposal is overruled *)
  <2>8. CASE file = "overrule" /\ step = 15
    <3>1. /\ proposals[Latest].what.kind = "overrule"
          /\ proposals[Latest].what.of \in DOMAIN proposals
      BY <1>1, <1>3, <2>8, ProposalTypes DEF DaoInv, Pending, OfOverrule
    <3> DEFINE set == SetStatus(Latest, "executed")
               of == proposals[Latest].what.of
    <3>2. proposals' = [set EXCEPT ![of].status = "overruled"]
      BY <2>4, <3>1 DEF Executes
    <3>3. params' = params
      BY <2>4, <3>1 DEF Executes
    <3>4. listed' \in BOOLEAN /\ (listed' <=> listed)
      <4>1. listed' = (listed \/ proposals[Latest].what.kind = "add_subdao")
        BY <2>4 DEF Executes
      <4>2. proposals[Latest].what.kind # "add_subdao" /\ listed \in BOOLEAN
        BY <3>1 DEF DaoInv, DaoTypes
      <4>3. listed' = (listed \/ FALSE)
        BY <4>1, <4>2
      <4> QED BY <4>2, <4>3
    <3>5. Listed'
      BY <2>5, <2>8, <3>4 DEF DaoInv, Listed
    <3>6. /\ set \in Seq(Proposals) /\ Len(set) = Latest /\ DOMAIN set = DOMAIN proposals
          /\ \A r \in DOMAIN proposals :
               set[r].what = proposals[r].what /\ set[r].start = proposals[r].start
      BY <1>3, SetStatusTypes DEF DaoInv
    <3> HIDE DEF set, of
    <3>7. /\ proposals' \in Seq(Proposals) /\ Len(proposals') = Latest
          /\ \A r \in DOMAIN proposals :
               proposals'[r].what = set[r].what /\ proposals'[r].start = set[r].start
      <4>1. DOMAIN proposals = 1 .. Latest /\ Latest \in Nat
        BY ProposalTypes DEF DaoInv
      <4>2. ASSUME NEW r \in DOMAIN proposals
            PROVE  /\ proposals'[r] \in Proposals
                   /\ proposals'[r].what = set[r].what /\ proposals'[r].start = set[r].start
        <5>1. set[r] \in Proposals
          BY <3>6, <4>1
        <5>2. proposals'[r] = IF r = of THEN [set[r] EXCEPT !.status = "overruled"] ELSE set[r]
          BY <3>2, <3>6
        <5> QED BY <5>1, <5>2 DEF Proposals
      <4>3. proposals' = [r \in 1 .. Latest |-> proposals'[r]]
        BY <3>2, <3>6, <4>1
      <4> QED BY <4>1, <4>2, <4>3
    <3>8. params' \in Params
      BY <3>3 DEF DaoInv, DaoTypes
    <3> QED BY <1>1, <2>4, <2>8, <3>4, <3>5, <3>6, <3>7, <3>8, ExecutionOver DEF Latest
  (* the subDAO's proposal is timelocked, and may be overruled from here on *)
  <2>9. CASE (file = "overrule" /\ step = 12) \/ (file = "subdao" /\ step = 26)
    <3>1. proposals[Latest].what.kind = "send"
      BY <1>1, <2>9 DEF DaoInv, Pending, OfSubdao
    <3> DEFINE set == SetStatus(Latest, "timelocked")
               new == Proposal("overrule", [kind |-> "overrule", of |-> Latest])
    <3>2. proposals' = Append(set, new) /\ params' = params
      BY <2>4, <3>1 DEF Executes
    <3>3. listed' \in BOOLEAN /\ (listed' <=> listed)
      <4>1. listed' = (listed \/ proposals[Latest].what.kind = "add_subdao")
        BY <2>4 DEF Executes
      <4>2. proposals[Latest].what.kind # "add_subdao" /\ listed \in BOOLEAN
        BY <3>1 DEF DaoInv, DaoTypes
      <4>3. listed' = (listed \/ FALSE)
        BY <4>1, <4>2
      <4> QED BY <4>2, <4>3
    <3>4. /\ {height, begun, Latest} \subseteq Nat /\ begun <= height
            /\ DOMAIN proposals = 1 .. Latest
          /\ \A m \in Members : bonds[m].at \in Nat /\ bonds[m].at <= begun
      BY ProposalTypes DEF DaoInv, DaoScript, DaoTypes, Bonded
    <3>5. /\ new \in Proposals /\ new.module = "overrule" /\ new.start = height
          /\ new.yes = {} /\ new.status = "open" /\ new.what.kind = "overrule"
          /\ new.what.of = Latest
      BY <3>4 DEF Proposal, Proposals, ProposalMessage
    <3>6. /\ set \in Seq(Proposals) /\ Len(set) = Latest /\ DOMAIN set = DOMAIN proposals
          /\ \A r \in DOMAIN proposals :
               /\ set[r].what = proposals[r].what /\ set[r].start = proposals[r].start
               /\ r = Latest => set[r].status = "timelocked"
      BY <1>3, SetStatusTypes DEF DaoInv
    <3> HIDE DEF set, new
    <3>7. /\ proposals' \in Seq(Proposals) /\ Latest' = Latest + 1 /\ proposals'[Latest'] = new
          /\ DOMAIN proposals' = DOMAIN proposals \union {Latest'}
          /\ \A p \in DOMAIN proposals : proposals'[p] = set[p]
      BY <3>2, <3>4, <3>5, <3>6 DEF Latest
    <3>8. DaoScript'
      BY <1>1, <2>4, DaoScriptGoesOn DEF DaoInv
    <3>9. DaoTypes'
      BY <1>1, <3>2, <3>3, <3>7 DEF DaoInv, DaoTypes
    <3>10. Uploaded' /\ RightBinaries'
      BY <1>1, <2>5, <2>9, ContractsStay
    <3>11. Bonded'
      <4>1. \A m \in Members : bonds[m].at <= height /\ bonds[m].at < height
        BY <1>1, <3>4
      <4>2. \A p \in DOMAIN proposals' : \A m \in Members : bonds[m].at < proposals'[p].start
        BY <3>5, <3>6, <3>7, <4>1 DEF DaoInv, Bonded
      <4> QED BY <1>1, <2>5, <2>9, <4>1, <4>2 DEF DaoInv, Bonded
    <3>12. Pending'
      <4>1. ~ OfSingle' /\ ~ OfSubdao' /\ OfOverrule'
        BY <2>5, <2>9 DEF OfSingle, OfSubdao, OfOverrule
      <4>2. Latest \in 1 .. Latest' - 1 /\ Latest' > 0 /\ Latest' \notin late
        BY <1>3, <3>4, <3>7 DEF DaoInv, DaoTypes
      <4>3. Open("overrule")'
        BY <1>1, <3>5, <3>7, <4>2 DEF Open
      <4>4. proposals'[proposals'[Latest'].what.of].status = "timelocked"
        BY <1>3, <3>5, <3>6, <3>7
      <4> QED BY <2>5, <2>9, <3>5, <3>7, <4>1, <4>2, <4>3, <4>4 DEF Pending
    <3>13. Voted'
      BY <2>5, <2>9 DEF Voted
    <3>14. Listed'
      BY <2>5, <2>9, <3>3 DEF DaoInv, Listed
    <3>15. LateOnes'
      BY <1>1, <2>5, <2>9 DEF DaoInv, LateOnes
    <3>16. InVoting'
      <4>1. height <= height + VoteBlocks /\ height <= height + 1
        BY <3>4, DaoAssumption
      <4> QED BY <2>5, <2>9, <3>5, <3>7, <4>1 DEF InVoting
    <3>17. Fresh' /\ ProposalsPass'
      BY <1>1, <2>5, <2>9 DEF Fresh, ProposalsPass
    <3> QED BY <3>8, <3>9, <3>10, <3>11, <3>12, <3>13, <3>14, <3>15, <3>16, <3>17 DEF DaoInv
  <2>10. ~ (file = "overrule" /\ step = 6)
    BY <1>5
  <2>11. file \in {"overrule", "subdao", "params"}
         /\ (file = "overrule" => step \in {9, 12, 15}) /\ (file = "subdao" => step \in {23, 26})
    <3>1. \/ file = "overrule" /\ step \in {6, 9, 12, 15}
          \/ file = "subdao" /\ step \in {23, 26}
          \/ file = "params"
      BY <1>2a
    <3> QED BY <2>10, <3>1
  <2>12. CASE file = "overrule"
    <3>1. step = 9 \/ step = 12 \/ step = 15
      BY <2>11, <2>12
    <3> QED BY <2>6, <2>8, <2>9, <2>12, <3>1
  <2>13. CASE file = "subdao"
    <3>1. step = 23 \/ step = 26
      BY <2>11, <2>13
    <3> QED BY <2>6, <2>9, <2>13, <3>1
  <2>14. file = "overrule" \/ file = "subdao" \/ file = "params"
    BY <2>11
  <2> QED BY <2>7, <2>12, <2>13, <2>14
<1> QED BY <1>4, <1>5

(* The test that throws is the last of its file, or the next one begins.    *)
LEMMA NextDaoTest ==
  ASSUME DaoScript, file = "params", step \in {6, 12, 17}, NextTestBegins
  PROVE  step' = step + 1 /\ begun' = height /\ UNCHANGED <<file, tests, verdict, height>>
<1> DEFINE later == {i \in step + 1 .. Len(tests) : tests[i].op = "test"}
           First(i) == i \in later \union {Len(tests) + 1} /\ \A j \in later : i <= j
<1>1. tests = ParamsTests /\ Len(tests) = 17
  BY DaoTests
<1>2. tests[7].op = "test" /\ tests[13].op = "test"
  BY <1>1, ParamsSteps DEF Do
<1>3. step' = CHOOSE i \in later \union {Len(tests) + 1} : \A j \in later : i <= j
  BY DEF NextTestBegins
<1>4. First(step + 1) /\ \A i : First(i) => i <= step + 1
  <2>1. CASE step = 6
    <3>1. 7 \in later
      BY <1>1, <1>2, <2>1
    <3> QED BY <1>1, <2>1, <3>1
  <2>2. CASE step = 12
    <3>1. 13 \in later
      BY <1>1, <1>2, <2>2
    <3> QED BY <1>1, <2>2, <3>1
  <2>3. CASE step = 17
    <3>1. later = {} /\ Len(tests) + 1 = 18
      BY <1>1, <2>3
    <3> QED BY <2>3, <3>1
  <2> QED BY <2>1, <2>2, <2>3
<1>5. \A i : First(i) => i >= step + 1
  BY <1>1
<1>6. First(step')
  <2> HIDE DEF later
  <2> QED BY <1>3, <1>4
<1>7. step' \in Nat
  <2>1. step' \in later \union {Len(tests) + 1}
    BY <1>6
  <2> QED BY <1>1, <2>1
<1>8. step' <= step + 1 /\ step' >= step + 1
  BY <1>4, <1>5, <1>6
<1> QED BY <1>7, <1>8 DEF NextTestBegins

(* The execution goes its way without the test.                             *)
LEMMA GiveUpExecutionInv ==
  ASSUME DaoInv, GiveUpExecution
  PROVE  DaoInv'
<1>1. /\ verdict = "running" /\ step <= Len(tests) /\ tests[step].op = "execute"
      /\ proposals[Latest].what.kind \in {"update", "change"}
      /\ late' = late \union {Latest} /\ Throws
      /\ UNCHANGED <<codeIds, readParams, stale, code, contracts, listed, bonds, proposals, params>>
  BY DEF GiveUpExecution, Running
<1>2. /\ \/ file = "overrule" /\ step \in {6, 9, 12, 15}
         \/ file = "subdao" /\ step \in {23, 26}
         \/ file = "params" /\ step \in {6, 12, 17}
  BY <1>1, OverruleOps, SubdaoOps, ParamsOps DEF DaoInv, DaoScript
<1>3. OfSingle \/ OfSubdao \/ OfOverrule
  BY <1>2 DEF OfSingle, OfSubdao, OfOverrule
<1>4. file = "params"
  BY <1>1, <1>3 DEF DaoInv, Pending
<1>5. Latest \in DOMAIN proposals
  BY <1>1, <1>3, ProposalTypes DEF DaoInv, Pending, Open
<1>6. /\ UNCHANGED <<file, tests, height>> /\ DaoScript'
      /\ \/ verdict' = "bailed" /\ UNCHANGED <<step, begun>>
         \/ verdict' = "running" /\ step' = step + 1 /\ begun' = height
  <2>1. CASE Ends("bailed")
    BY <2>1 DEF DaoInv, DaoScript, Ends
  <2>2. CASE NextTestBegins
    <3>1. step' = step + 1 /\ begun' = height /\ UNCHANGED <<file, tests, verdict, height>>
      BY <1>2, <1>4, <2>2, NextDaoTest DEF DaoInv
    <3>2. step' \in 1 .. Len(tests) + 1
      BY <1>1, <3>1, DaoTests DEF DaoInv
    <3> QED BY <1>1, <3>1, <3>2 DEF DaoInv, DaoScript
  <2> QED BY <1>1, <2>1, <2>2 DEF Throws
<1>7. step \in {6, 12, 17} /\ step' \in {6, 12, 17, 7, 13, 18}
  BY <1>2, <1>4, <1>6
<1>8. DaoTypes'
  BY <1>1, <1>5 DEF DaoInv, DaoTypes
<1>9. Uploaded' /\ RightBinaries'
  BY <1>1, <1>4, <1>6, ContractsStay
<1>10. Bonded'
  <2>1. \A m \in Members : bonds[m].at <= begun'
    <3>1. /\ {height, begun} \subseteq Nat /\ begun <= height
          /\ \A m \in Members : bonds[m].at \in Nat /\ bonds[m].at <= begun
      BY DEF DaoInv, DaoScript, DaoTypes, Bonded
    <3> QED BY <1>6, <3>1
  <2> QED BY <1>1, <1>4, <1>6, <1>7, <2>1 DEF DaoInv, Bonded
<1>11. Pending'
  <2>1. verdict' = "running" => ~ OfSingle' /\ ~ OfSubdao' /\ ~ OfOverrule'
    BY <1>4, <1>6, <1>7 DEF OfSingle, OfSubdao, OfOverrule
  <2> QED BY <1>4, <1>6, <1>7, <2>1 DEF Pending
<1>12. Voted'
  BY <1>1, <1>4, <1>6, <1>7 DEF DaoInv, Voted, Latest
<1>13. Listed' /\ LateOnes'
  BY <1>1, <1>4, <1>6 DEF DaoInv, Listed, LateOnes
<1>14. InVoting'
  <2>1. step' <= Len(tests) => tests[step'].op \notin {"voteYes", "voteNo"}
    <3>1. tests = ParamsTests /\ Len(tests) = 17
      BY <1>4, DaoTests DEF DaoInv
    <3> QED BY <1>7, <3>1, ParamsSteps DEF Do
  <2> QED BY <1>4, <1>6, <2>1 DEF InVoting
<1>15. Fresh'
  BY <1>1, <1>4, <1>6, <1>7 DEF DaoInv, Fresh, Latest
<1>16. ProposalsPass'
  BY <1>6 DEF ProposalsPass
<1> QED BY <1>6, <1>8, <1>9, <1>10, <1>11, <1>12, <1>13, <1>14, <1>15, <1>16 DEF DaoInv

LEMMA ExecuteLateInv ==
  ASSUME DaoInv, NEW p \in late, ExecuteLate(p)
  PROVE  DaoInv'
<1>1. /\ Executes(p) /\ late' = late \ {p} /\ stale' = TRUE
      /\ UNCHANGED <<file, tests, step, verdict, height, begun, codeIds, readParams, code,
                     contracts, bonds>>
  BY DEF ExecuteLate, scriptVars
<1>2. /\ p \in DOMAIN proposals /\ file = "params"
      /\ proposals[p].what.kind \in {"update", "change"}
  BY DEF DaoInv, DaoTypes, LateOnes
<1>3. /\ proposals' = SetStatus(p, "executed") /\ (listed' <=> listed) /\ listed' \in BOOLEAN
      /\ params' \in Params
  BY <1>1, <1>2, ExecutesParams
<1>4. /\ proposals' \in Seq(Proposals) /\ Latest' = Latest /\ DOMAIN proposals' = DOMAIN proposals
      /\ \A r \in DOMAIN proposals :
           /\ proposals'[r].module = proposals[r].module /\ proposals'[r].what = proposals[r].what
           /\ proposals'[r].start = proposals[r].start /\ proposals'[r].yes = proposals[r].yes
           /\ r # p => proposals'[r].status = proposals[r].status
  BY <1>2, <1>3, SetStatusTypes DEF DaoInv, Latest
<1>5. Latest \in DOMAIN proposals
  BY <1>2, ProposalTypes DEF DaoInv
<1>6. DaoScript'
  BY <1>1 DEF DaoInv, DaoScript
<1>7. DaoTypes'
  <2>1. stale' \in BOOLEAN
    BY <1>1
  <2> QED BY <1>1, <1>3, <1>4, <2>1 DEF DaoInv, DaoTypes
<1>8. Uploaded' /\ RightBinaries'
  BY <1>1, <1>2, ContractsStay
<1>9. Bonded'
  BY <1>1, <1>2, <1>4 DEF DaoInv, Bonded, Latest
<1>10. Pending'
  <2>1. ASSUME OfSingle, verdict = "running"
        PROVE  Open("single")'
    <3>1. Open("single") /\ p # Latest
      BY <2>1 DEF DaoInv, Pending, Open
    <3> QED BY <1>1, <1>4, <1>5, <3>1 DEF Open
  <2>2. (OfSingle' <=> OfSingle) /\ ~ OfSubdao' /\ ~ OfOverrule'
    BY <1>1, <1>2 DEF OfSingle, OfSubdao, OfOverrule
  <2> QED BY <1>1, <1>2, <1>4, <1>5, <2>1, <2>2 DEF DaoInv, Pending
<1>11. Voted'
  BY <1>1, <1>2, <1>4, <1>5 DEF DaoInv, Voted
<1>12. Listed'
  BY <1>1, <1>2 DEF Listed
<1>13. LateOnes'
  BY <1>1, <1>2, <1>4 DEF DaoInv, DaoTypes, LateOnes
<1>14. InVoting'
  BY <1>1, <1>2 DEF DaoInv, InVoting
<1>15. Fresh'
  BY <1>1 DEF Fresh
<1>16. ProposalsPass'
  BY <1>1, <1>4, <1>5 DEF DaoInv, ProposalsPass
<1> QED BY <1>6, <1>7, <1>8, <1>9, <1>10, <1>11, <1>12, <1>13, <1>14, <1>15, <1>16 DEF DaoInv

(* The timelocked proposal is executed when its overrule proposal has       *)
(* expired, and not before.                                                 *)
LEMMA ExecuteTimelockedInv ==
  ASSUME DaoInv, ExecuteTimelocked
  PROVE  DaoInv'
<1> DEFINE p == proposals[Latest].what.of
           free == proposals[p].status = "timelocked" /\ Expired(Latest) /\ ~ HasPassed(Latest)
<1>1. /\ verdict = "running" /\ step <= Len(tests) /\ tests[step].op = "executeTimelocked"
      /\ proposals' = (IF free THEN SetStatus(p, "executed") ELSE proposals)
      /\ Expect(free <=> Arg = "passes", "not_executed")
      /\ UNCHANGED <<codeIds, readParams, stale, code, contracts, listed, bonds, params, late>>
  BY DEF ExecuteTimelocked, Running
<1>2. /\ file = "subdao" /\ step \in {27, 29}
      /\ Arg = "passes" <=> step = 29
  BY <1>1, OverruleOps, SubdaoOps, ParamsOps DEF DaoInv, DaoScript
<1>3. /\ Open("overrule") /\ p \in 1 .. Latest - 1 /\ proposals[Latest].yes = {}
      /\ proposals[p].status = "timelocked"
  BY <1>1, <1>2 DEF DaoInv, Pending, OfOverrule
<1>4. Latest \in DOMAIN proposals /\ p \in DOMAIN proposals
      /\ proposals[Latest].module = "overrule" /\ proposals[Latest].start \in Nat
  BY <1>3, ProposalTypes DEF DaoInv, Open
<1>5. ~ HasPassed(Latest)
  <2>1. Yes(Latest) = 0
    BY <1>3, <1>4, AllCounts DEF DaoInv
  <2> QED BY <1>4, <2>1 DEF HasPassed
<1>6. {height, begun, VotingBlocks, VoteBlocks} \subseteq Nat /\ VoteBlocks > 0
      /\ 2 * VoteBlocks <= VotingBlocks
  BY DaoAssumption DEF DaoInv, DaoScript
<1>7. CASE step = 27
  <2>1. height <= proposals[Latest].start + 1
    BY <1>2, <1>7 DEF DaoInv, InVoting
  <2>2. ~ Expired(Latest)
    BY <1>4, <1>6, <2>1 DEF Expired
  <2>3. ~ free /\ Arg # "passes"
    BY <1>2, <1>7, <2>2
  <2>4. proposals' = proposals /\ StepDone
    <3> HIDE DEF free
    <3> QED BY <1>1, <2>3 DEF Expect
  <2>5. DaoTypes'
    BY <1>1, <2>4 DEF DaoInv, DaoTypes
  <2>6. Uploaded' /\ RightBinaries'
    BY <1>1, <1>2, <2>4, ContractsStay DEF StepDone
  <2>7. Fresh'
    BY <1>2, <2>4 DEF Fresh, StepDone
  <2> QED BY <1>1, <2>4, <2>5, <2>6, <2>7, DaoStepOver
<1>8. CASE step = 29 /\ Expired(Latest)
  <2>1. free /\ Arg = "passes"
    BY <1>2, <1>3, <1>5, <1>8
  <2>2. proposals' = SetStatus(p, "executed") /\ StepDone
    <3> HIDE DEF free
    <3> QED BY <1>1, <2>1 DEF Expect
  <2>3. /\ proposals' \in Seq(Proposals) /\ Len(proposals') = Len(proposals)
        /\ \A r \in DOMAIN proposals :
             /\ proposals'[r].what = proposals[r].what
             /\ proposals'[r].start = proposals[r].start
    <3> HIDE DEF p
    <3> QED BY <1>4, <2>2, SetStatusTypes DEF DaoInv, Latest
  <2>4. Listed' /\ listed' \in BOOLEAN /\ params' \in Params
    <3>1. step' >= 24 /\ listed
      BY <1>2, <1>8, <2>2 DEF DaoInv, Listed, StepDone
    <3> QED BY <1>1, <1>2, <2>2, <3>1 DEF DaoInv, DaoTypes, Listed, StepDone
  <2> QED BY <1>1, <1>2, <1>8, <2>2, <2>3, <2>4, ExecutionOver
<1>9. CASE step = 29 /\ ~ Expired(Latest)
  <2>1. ~ free /\ Arg = "passes"
    BY <1>2, <1>9
  <2>2. proposals' = proposals /\ Ends("not_executed")
    <3> HIDE DEF free
    <3> QED BY <1>1, <2>1 DEF Expect
  <2>3. verdict' = "not_executed" /\ UNCHANGED <<file, tests, step, height, begun>>
    BY <2>2 DEF Ends
  <2>4. height >= begun + 1
    BY <2>1 DEF ExecuteTimelocked, Tx, BlocksPassed
  <2>5. begun < proposals[Latest].start + VotingBlocks
    BY <1>4, <1>6, <1>9, <2>4 DEF Expired
  <2>6. DaoScript' /\ DaoTypes'
    BY <1>1, <2>2, <2>3 DEF DaoInv, DaoScript, DaoTypes
  <2>7. Uploaded' /\ RightBinaries'
    BY <1>1, <1>2, <2>2, <2>3, ContractsStay
  <2>8. Bonded' /\ Voted' /\ Listed' /\ LateOnes'
    BY <1>1, <2>2, <2>3 DEF DaoInv, Bonded, Voted, Listed, LateOnes, Latest
  <2>9. Pending'
    BY <2>3 DEF Pending
  <2>10. InVoting' /\ Fresh'
    BY <1>1, <1>2, <2>2, <2>3 DEF DaoInv, InVoting, Fresh, Latest
  <2>11. ProposalsPass'
    BY <1>1, <2>2, <2>3, <2>5 DEF ProposalsPass, Latest
  <2> QED BY <2>6, <2>7, <2>8, <2>9, <2>10, <2>11 DEF DaoInv
<1> QED BY <1>2, <1>7, <1>8, <1>9

LEMMA DaoBlockInv ==
  ASSUME DaoInv, DaoBlock
  PROVE  DaoInv'
<1>1. /\ verdict = "running" /\ step <= Len(tests) /\ height' = height + 1
      /\ UNCHANGED <<file, tests, step, verdict, begun, codeIds, readParams, stale, code,
                     contracts, listed, bonds, proposals, params, late>>
  BY DEF DaoBlock, chainDaoVars
<1>2. {height, begun, VoteBlocks} \subseteq Nat /\ height > 0 /\ begun \in 1 .. height
  BY DaoAssumption DEF DaoInv, DaoScript
<1>3. DaoScript' /\ DaoTypes'
  BY <1>1, <1>2 DEF DaoInv, DaoScript, DaoTypes
<1>4. Uploaded' /\ RightBinaries'
  BY <1>1 DEF DaoInv, Uploaded, RightBinaries
<1>5. Bonded' /\ Voted' /\ Listed' /\ LateOnes'
  BY <1>1 DEF DaoInv, Bonded, Voted, Listed, LateOnes, Latest
<1>6. Pending'
  BY <1>1 DEF DaoInv, Pending, Open, Latest, OfSingle, OfSubdao, OfOverrule
<1>7. InVoting'
  <2>1. ASSUME tests[step].op \in {"voteYes", "voteNo"}
        PROVE  height + 1 <= begun + VoteBlocks
    <3>1. ~ BlocksPassed(VoteBlocks)
      BY <1>1, <2>1 DEF DaoBlock, Running
    <3> QED BY <1>2, <3>1 DEF BlocksPassed
  <2>2. ASSUME file = "subdao", step = 27
        PROVE  height + 1 <= begun + 1
    <3>1. tests[step].op = "executeTimelocked"
      BY <1>1, <2>2, SubdaoOps DEF DaoInv
    <3>2. ~ BlocksPassed(1)
      BY <1>1, <3>1 DEF DaoBlock, Running
    <3> QED BY <1>2, <3>2 DEF BlocksPassed
  <2> QED BY <1>1, <2>1, <2>2 DEF DaoInv, InVoting, Latest
<1>8. Fresh' /\ ProposalsPass'
  BY <1>1 DEF DaoInv, Fresh, ProposalsPass, Latest
<1> QED BY <1>3, <1>4, <1>5, <1>6, <1>7, <1>8 DEF DaoInv

LEMMA DaoStutters ==
  ASSUME DaoInv, UNCHANGED daoVars
  PROVE  DaoInv'
<1>1. UNCHANGED <<file, tests, step, verdict, height, begun, codeIds, readParams, stale, code,
                  contracts, listed, bonds, proposals, params, late>>
  BY DEF daoVars, scriptVars, chainDaoVars
<1>2. DaoScript' /\ DaoTypes'
  BY <1>1 DEF DaoInv, DaoScript, DaoTypes
<1>3. Uploaded' /\ RightBinaries'
  BY <1>1 DEF DaoInv, Uploaded, RightBinaries
<1>4. Bonded' /\ Voted' /\ Listed' /\ LateOnes'
  BY <1>1 DEF DaoInv, Bonded, Voted, Listed, LateOnes, Latest
<1>5. Pending'
  BY <1>1 DEF DaoInv, Pending, Open, Latest, OfSingle, OfSubdao, OfOverrule
<1>6. InVoting'
  BY <1>1 DEF DaoInv, InVoting, Latest
<1>7. Fresh' /\ ProposalsPass'
  BY <1>1 DEF DaoInv, Fresh, ProposalsPass, Latest
<1> QED BY <1>2, <1>3, <1>4, <1>5, <1>6, <1>7 DEF DaoInv

LEMMA DaoNextInv ==
  ASSUME DaoInv, DaoNext
  PROVE  DaoInv'
BY UploadInv, UploadOfOthersInv, InstantiateInv, BondInv, ReadParamsInv, SubmitProposalInv,
   VoteInv, CheckPassedInv, ExecuteProposalInv, GiveUpExecutionInv, ExecuteTimelockedInv,
   ExecuteLateInv, DaoStepInv, DaoBlockInv DEF DaoNext

(* The invariant holds in every state.                                      *)
THEOREM DaoInvariant == DaoSpec => []DaoInv
<1>1. ScriptInit(DaoFiles) /\ DaoInit => DaoInv
  BY DaoInitInv
<1>2. DaoInv /\ [DaoNext]_daoVars => DaoInv'
  BY DaoNextInv, DaoStutters
<1> QED BY <1>1, <1>2, PTL DEF DaoSpec

-------------------------------------------------------------------------------
(* An execution writes what was read with one value changed, or changes the *)
(* one value.                                                               *)
LEMMA UpdateStep ==
  ASSUME DaoInv, DaoNext, params' # params, late' = late
  PROVE  \/ stale
         \/ \E n \in DOMAIN params : \A m \in DOMAIN params \ {n} : params'[m] = params[m]
<1>1. ExecuteProposal
  <2>1. ASSUME NEW p \in late, ExecuteLate(p)
        PROVE  FALSE
    BY <2>1 DEF ExecuteLate
  <2> QED BY <2>1 DEF DaoNext, Upload, UploadOfOthers, Instantiate, Bond, ReadParams,
                      SubmitProposal, Vote, CheckPassed, GiveUpExecution, ExecuteTimelocked,
                      DaoStep, DaoBlock, chainDaoVars
<1>2. verdict = "running" /\ step <= Len(tests) /\ tests[step].op = "execute"
  BY <1>1 DEF ExecuteProposal, Tx, Running
<1>3. \/ file = "overrule" /\ step \in {6, 9, 12, 15}
      \/ file = "subdao" /\ step \in {23, 26}
      \/ file = "params" /\ step \in {6, 12, 17}
  BY <1>2, OverruleOps, SubdaoOps, ParamsOps DEF DaoInv, DaoScript
<1>4. OfSingle \/ OfSubdao \/ OfOverrule
  BY <1>3 DEF OfSingle, OfSubdao, OfOverrule
<1>5. Latest \in DOMAIN proposals
  BY <1>2, <1>4, ProposalTypes DEF DaoInv, Pending, Open
<1>6. Executes(Latest)
  BY <1>1 DEF ExecuteProposal
<1>7. proposals[Latest].what.kind \in {"update", "change"}
  BY <1>6 DEF Executes
<1>8. /\ proposals[Latest].what.kind = "update" => params' = proposals[Latest].what.params
      /\ proposals[Latest].what.kind = "change" =>
           /\ proposals[Latest].what.name \in Names
           /\ params' = [params EXCEPT ![proposals[Latest].what.name] = 2]
  BY <1>5, <1>6, <1>7, ExecutesParams
<1>9. params \in Params
  BY DEF DaoInv, DaoTypes
<1>10. file = "params"
  BY <1>2, <1>4, <1>7 DEF DaoInv, Pending
<1>11. CASE step \in {6, 12}
  <2>1. proposals[Latest].what.kind = "update"
    BY <1>2, <1>10, <1>11 DEF DaoInv, Pending
  <2>2. ~ stale => \E n \in Names : proposals[Latest].what.params = [params EXCEPT ![n] = 1]
    BY <1>10, <1>11 DEF DaoInv, Fresh
  <2> QED BY <1>8, <1>9, <2>1, <2>2 DEF Params
<1>12. CASE step = 17
  <2>1. proposals[Latest].what.kind = "change"
    BY <1>2, <1>10, <1>12 DEF DaoInv, Pending
  <2> QED BY <1>8, <1>9, <2>1 DEF Params
<1> QED BY <1>3, <1>10, <1>11, <1>12

LEMMA DaoTypesHold == DaoInv => DaoTypeOK
<1> SUFFICES ASSUME DaoInv PROVE DaoTypeOK
  OBVIOUS
<1>1. ScriptTypeOK
  BY DEF DaoInv, DaoScript, ScriptTypeOK
<1>2. \A p \in DOMAIN proposals :
        proposals[p].status \in {"open", "executed", "timelocked", "overruled"}
  BY ProposalTypes DEF DaoInv, Proposals
<1> QED BY <1>1, <1>2 DEF DaoInv, DaoTypes, Uploaded, DaoTypeOK

(* The variables of a DAO's file have their types. *)
THEOREM DaoTypeCorrect == DaoSpec => []DaoTypeOK
BY DaoInvariant, DaoTypesHold, PTL

(* Every contract runs the binary meant for it, whatever others upload.     *)
THEOREM BinariesRight == DaoSpec => []RightBinaries
<1>1. DaoInv => RightBinaries
  BY DEF DaoInv
<1> QED BY <1>1, DaoInvariant, PTL

(* What is voted on passes, and a vote is never late.                       *)
THEOREM ProposalsCarried == DaoSpec => []ProposalsPass
<1>1. DaoInv => ProposalsPass
  BY DEF DaoInv
<1> QED BY <1>1, DaoInvariant, PTL

(* An update keeps the other parameters.                                    *)
THEOREM OthersKept == DaoSpec => UpdateKeepsOthers
<1>1. DaoInv /\ [DaoNext]_daoVars =>
        [params' # params /\ late' = late =>
           \/ stale
           \/ \E n \in DOMAIN params :
                \A m \in DOMAIN params \ {n} : params'[m] = params[m]]_daoVars
  BY UpdateStep
<1> QED BY <1>1, DaoInvariant, PTL DEF DaoSpec, UpdateKeepsOthers

-------------------------------------------------------------------------------
(* RunInBand: the file that was chosen keeps the invariant of its component, *)
(* what the others work on is as at the start.                              *)

IcaNames == {"send", "sudo_failure", "unordered"}
TxNames == {"order", "past", "resubmit"}
DaoNames == {"overrule", "subdao", "params"}

LEMMA FileNames ==
  /\ DOMAIN KvFiles = {"kv_queries"} /\ DOMAIN IcaFiles = IcaNames
  /\ DOMAIN TxFiles = TxNames /\ DOMAIN TrackerFiles = {"staking_tracker"}
  /\ DOMAIN DaoFiles = DaoNames
BY DEF KvFiles, IcaFiles, TxFiles, TrackerFiles, DaoFiles, IcaNames, TxNames, DaoNames

LEMMA FilesChosen ==
  /\ DOMAIN Files = {"kv_queries", "staking_tracker"} \union IcaNames \union TxNames
                      \union DaoNames
  /\ Files["kv_queries"] = <<>>
  /\ \A f \in IcaNames : Files[f] = IcaFiles[f]
  /\ \A f \in TxNames : Files[f] = TxFiles[f]
  /\ Files["staking_tracker"] = TrackerFiles["staking_tracker"]
  /\ \A f \in DaoNames : Files[f] = DaoFiles[f]
<1> DEFINE D1 == Over(TrackerFiles, DaoFiles)
           D2 == Over(TxFiles, D1)
           D3 == Over(IcaFiles, D2)
<1>1. /\ DOMAIN D1 = {"staking_tracker"} \union DaoNames
      /\ D1["staking_tracker"] = TrackerFiles["staking_tracker"]
      /\ \A f \in DaoNames : D1[f] = DaoFiles[f]
  BY FileNames DEF Over, DaoNames
<1> HIDE DEF D1
<1>2. /\ DOMAIN D2 = {"staking_tracker"} \union TxNames \union DaoNames
      /\ D2["staking_tracker"] = TrackerFiles["staking_tracker"]
      /\ \A f \in TxNames : D2[f] = TxFiles[f]
      /\ \A f \in DaoNames : D2[f] = DaoFiles[f]
  BY <1>1, FileNames DEF Over, DaoNames, TxNames
<1> HIDE DEF D2
<1>3. /\ DOMAIN D3 = {"staking_tracker"} \union IcaNames \union TxNames \union DaoNames
      /\ D3["staking_tracker"] = TrackerFiles["staking_tracker"]
      /\ \A f \in IcaNames : D3[f] = IcaFiles[f]
      /\ \A f \in TxNames : D3[f] = TxFiles[f]
      /\ \A f \in DaoNames : D3[f] = DaoFiles[f]
  BY <1>2, FileNames DEF Over, DaoNames, TxNames, IcaNames
<1>4. Files = Over(KvFiles, D3)
  BY DEF Files, D1, D2, D3
<1> HIDE DEF D3
<1> QED BY <1>3, <1>4, FileNames DEF Over, KvFiles, DaoNames, TxNames, IcaNames

(* How the tests of each component may end                                  *)
IcaVerdict ==
  {"running", "rejected", "redundant", "delegations_differ", "acks_differ", "failures_differ"}
TxVerdict == {"running", "used_up", "transfers_differ", "count_differs"}
TrackerVerdict == {"running", "bailed", "mismatch", "amount_differs"}
DaoVerdict == {"running", "bailed", "too_late", "not_passed", "not_executed"}

LEMMA IcaEnds ==
  ASSUME verdict \in IcaVerdict, IcaNext
  PROVE  verdict' \in IcaVerdict
<1>1. CASE TestStepIca
  <2>1. CASE ExecuteDelegate
    BY <2>1 DEF ExecuteDelegate, Expect, Ends, StepDone, IcaVerdict
  <2>2. CASE WaitForAck \/ WaitForFailures
    BY <2>2 DEF WaitForAck, WaitForFailures, WaitUntil, Ends, StepDone, IcaVerdict
  <2>3. CASE ExpectStep
    BY <2>3 DEF ExpectStep, Expect, Ends, StepDone, IcaVerdict
  <2>4. CASE RelayPackets
    BY <2>4 DEF RelayPackets, Ends, scriptVars, IcaVerdict
  <2>5. CASE GetPendingAcks \/ RelayAcks
    BY <2>5 DEF GetPendingAcks, RelayAcks, scriptVars, StepDone
  <2>6. CASE RegisterAgain \/ CleanAckResults \/ SetMock \/ GetAck
    BY <2>6 DEF RegisterAgain, CleanAckResults, SetMock, GetAck, StepDone
  <2>7. CASE ResubmitFailure \/ Pause \/ Unpause
    BY <2>7 DEF ResubmitFailure, Pause, Unpause, StepDone
  <2> QED BY <1>1, <2>1, <2>2, <2>3, <2>4, <2>5, <2>6, <2>7 DEF TestStepIca
<1>2. CASE Relaying
  BY <1>2 DEF Relaying, HermesRelaysPacket, HermesRelaysResult, RemoteExecutes, NeutronExecutes,
              Expire, scriptVars
<1> QED BY <1>1, <1>2 DEF IcaNext

LEMMA TxVerdicts ==
  ASSUME verdict \in TxVerdict, TxNext
  PROVE  verdict' \in TxVerdict
<1>1. CASE registerTransfersQuery \/ SendTokens \/ SetQueryMock \/ postResubmitTxs
  BY <1>1 DEF registerTransfersQuery, SendTokens, SetQueryMock, postResubmitTxs, StepDone
<1>2. CASE BeginWait \/ TxWaitBlocks \/ TxBlock
  BY <1>2 DEF BeginWait, TxWaitBlocks, TxBlock, StepDone, scriptVars
<1>3. CASE LookAtNumber
  BY <1>3 DEF LookAtNumber, StepDone, Ends, scriptVars, TxVerdict
<1>4. CASE TxExpect
  BY <1>4 DEF TxExpect, Expect, Ends, StepDone, TxVerdict
<1>5. ASSUME NEW q \in Queries, Handle(q) PROVE verdict' \in TxVerdict
  BY <1>5 DEF Handle, scriptVars
<1> QED BY <1>1, <1>2, <1>3, <1>4, <1>5 DEF TxNext

LEMMA TrackerVerdicts ==
  ASSUME verdict \in TrackerVerdict, TrackerNext
  PROVE  verdict' \in TrackerVerdict
<1>1. CASE BroadcastStaking \/ TrackerBlock \/ BeginTest \/ TrackerWaitBlocks \/ NoteHeight
  BY <1>1 DEF BroadcastStaking, TrackerBlock, BeginTest, TrackerWaitBlocks, NoteHeight, StepDone,
              scriptVars
<1>2. CASE SeesTx \/ GivesUpTx
  BY <1>2 DEF SeesTx, GivesUpTx, TestThrows, Throws, Ends, NextTestBegins, StepDone, TrackerVerdict
<1>3. CASE ExpectGrowth \/ checkVotingPowerMatchBondedTokens
  BY <1>3 DEF ExpectGrowth, checkVotingPowerMatchBondedTokens, Expect, Ends, StepDone, Answer,
              scriptVars, TrackerVerdict
<1>4. CASE getTrackedStakeInfo \/ getVaultVPInfo
  BY <1>4 DEF getTrackedStakeInfo, getVaultVPInfo, Info, Answer, StepDone, scriptVars
<1> QED BY <1>1, <1>2, <1>3, <1>4 DEF TrackerNext

LEMMA DaoVerdicts ==
  ASSUME verdict \in DaoVerdict, DaoNext
  PROVE  verdict' \in DaoVerdict
<1>1. CASE Upload \/ UploadOfOthers \/ Instantiate \/ Bond \/ ReadParams \/ SubmitProposal
  BY <1>1 DEF Upload, UploadOfOthers, Instantiate, Bond, ReadParams, SubmitProposal, StepDone,
              scriptVars
<1>2. CASE Vote \/ CheckPassed \/ ExecuteProposal \/ ExecuteTimelocked
  BY <1>2 DEF Vote, CheckPassed, ExecuteProposal, ExecuteTimelocked, Expect, Ends, StepDone,
              DaoVerdict
<1>3. CASE GiveUpExecution
  BY <1>3 DEF GiveUpExecution, Throws, Ends, NextTestBegins, DaoVerdict
<1>4. ASSUME NEW p \in late, ExecuteLate(p) PROVE verdict' \in DaoVerdict
  BY <1>4 DEF ExecuteLate, scriptVars
<1>5. CASE DaoStep \/ DaoBlock
  BY <1>5 DEF DaoStep, DaoBlock, StepDone
<1> QED BY <1>1, <1>2, <1>3, <1>4, <1>5 DEF DaoNext

-------------------------------------------------------------------------------
(* The invariant of all files                                               *)

OfKv ==
  /\ file \notin IcaNames \union TxNames \union DaoNames \union {"staking_tracker"}
  /\ file = "kv_queries" /\ verdict = "running" /\ ScriptTypeOK

OfIca == IF file \in IcaNames THEN IcaInv /\ verdict \in IcaVerdict ELSE IcaInit
OfTx == IF file \in TxNames THEN TxInv /\ verdict \in TxVerdict ELSE TxInit /\ lag = 0
OfTracker ==
  IF file = "staking_tracker" THEN TrackerInv /\ verdict \in TrackerVerdict ELSE TrackerInit
OfDao == IF file \in DaoNames THEN DaoInv /\ verdict \in DaoVerdict ELSE DaoInit

RunInv ==
  /\ file \in IcaNames \union TxNames \union DaoNames \union {"staking_tracker"} \/ OfKv
  /\ IInv /\ OfIca /\ OfTx /\ OfTracker /\ OfDao

LEMMA RunInitInv ==
  ASSUME RunInit
  PROVE  RunInv
<1> USE FilesChosen, FileNames
<1>1. /\ file \in DOMAIN Files /\ tests = Files[file]
      /\ step = 1 /\ verdict = "running" /\ height = 1 /\ begun = 1
  BY DEF RunInit, ScriptInit
<1>2. IInv
  BY InitIInv DEF RunInit
<1>3. OfIca
  <2>1. CASE file \in IcaNames
    <3>1. ScriptInit(IcaFiles)
      BY <1>1, <2>1 DEF ScriptInit
    <3> QED BY <1>1, <2>1, <3>1, IcaInitInv DEF RunInit, OfIca, IcaVerdict
  <2> QED BY <2>1 DEF RunInit, OfIca
<1>4. OfTx
  <2>1. CASE file \in TxNames
    <3>1. ScriptInit(TxFiles)
      BY <1>1, <2>1 DEF ScriptInit
    <3> QED BY <1>1, <2>1, <3>1, TxInitInv DEF RunInit, OfTx, TxVerdict
  <2> QED BY <2>1 DEF RunInit, OfTx
<1>5. OfTracker
  <2>1. CASE file = "staking_tracker"
    <3>1. ScriptInit(TrackerFiles)
      BY <1>1, <2>1 DEF ScriptInit
    <3> QED BY <1>1, <2>1, <3>1, TrackerInitInv DEF RunInit, OfTracker, TrackerVerdict
  <2> QED BY <2>1 DEF RunInit, OfTracker
<1>6. OfDao
  <2>1. CASE file \in DaoNames
    <3>1. ScriptInit(DaoFiles)
      BY <1>1, <2>1 DEF ScriptInit
    <3> QED BY <1>1, <2>1, <3>1, DaoInitInv DEF RunInit, OfDao, DaoVerdict
  <2> QED BY <2>1 DEF RunInit, OfDao
<1>7. file \in IcaNames \union TxNames \union DaoNames \union {"staking_tracker"} \/ OfKv
  BY <1>1 DEF OfKv, ScriptTypeOK, IcaNames, TxNames, DaoNames
<1> QED BY <1>2, <1>3, <1>4, <1>5, <1>6, <1>7 DEF RunInv

(* What a file does not work on stays as at the start.                      *)
LEMMA OthersRest ==
  /\ IcaInit /\ UNCHANGED icaOnly => IcaInit'
  /\ TxInit /\ lag = 0 /\ UNCHANGED txOnly => TxInit' /\ lag' = 0
  /\ TrackerInit /\ UNCHANGED trackerOnly => TrackerInit'
  /\ DaoInit /\ UNCHANGED daoOnly => DaoInit'
<1>1. IcaInit /\ UNCHANGED icaOnly => IcaInit'
  BY DEF icaOnly, handVars, neutronVars, hermesVars, IcaInit
<1>2. TxInit /\ lag = 0 /\ UNCHANGED txOnly => TxInit' /\ lag' = 0
  BY DEF txOnly, TxInit
<1>3. TrackerInit /\ UNCHANGED trackerOnly => TrackerInit'
  BY DEF trackerOnly, chainVars, TrackerInit
<1>4. DaoInit /\ UNCHANGED daoOnly => DaoInit'
  BY DEF daoOnly, chainDaoVars, DaoInit
<1> QED BY <1>1, <1>2, <1>3, <1>4

LEMMA Disjoint ==
  /\ IcaNames \intersect TxNames = {} /\ IcaNames \intersect DaoNames = {}
  /\ TxNames \intersect DaoNames = {}
  /\ "staking_tracker" \notin IcaNames \union TxNames \union DaoNames
  /\ "kv_queries" \notin IcaNames \union TxNames \union DaoNames \union {"staking_tracker"}
BY DEF IcaNames, TxNames, DaoNames

LEMMA RunNextInv ==
  ASSUME RunInv, RunNext
  PROVE  RunInv'
<1>1. CASE /\ file \in DOMAIN KvFiles /\ Next
           /\ UNCHANGED <<scriptVars, icaOnly, txOnly, trackerOnly, daoOnly>>
  <2>1. IInv'
    BY <1>1, EnvironmentKeeps, WaitKeeps, TestKeeps DEF RunInv, Next
  <2>2. file = "kv_queries" /\ file' = file /\ verdict' = verdict
    BY <1>1, FileNames DEF scriptVars
  <2>3. OfKv /\ OfKv'
    BY <1>1, <2>2, Disjoint DEF RunInv, OfKv, ScriptTypeOK, scriptVars
  <2>4. IcaInit /\ TxInit /\ lag = 0 /\ TrackerInit /\ DaoInit
    BY <2>2, Disjoint DEF RunInv, OfIca, OfTx, OfTracker, OfDao
  <2>5. IcaInit' /\ TxInit' /\ lag' = 0 /\ TrackerInit' /\ DaoInit'
    BY <1>1, <2>4, OthersRest
  <2> QED BY <2>1, <2>2, <2>3, <2>5, Disjoint DEF RunInv, OfIca, OfTx, OfTracker, OfDao
<1>2. CASE file \in DOMAIN IcaFiles /\ IcaNext /\ UNCHANGED <<vars, txOnly, trackerOnly, daoOnly>>
  <2>1. IInv'
    BY <1>2, Unchanged DEF RunInv
  <2>2. file \in IcaNames /\ IcaInv /\ verdict \in IcaVerdict
    BY <1>2, FileNames DEF RunInv, OfIca
  <2>3. IcaInv' /\ verdict' \in IcaVerdict
    BY <1>2, <2>2, IcaNextInv, IcaEnds
  <2>4. file' \in IcaNames
    BY <2>3 DEF IcaInv, IcaBase, IcaScript, IcaNames
  <2>5. TxInit /\ lag = 0 /\ TrackerInit /\ DaoInit
    BY <2>2, Disjoint DEF RunInv, OfTx, OfTracker, OfDao
  <2>6. TxInit' /\ lag' = 0 /\ TrackerInit' /\ DaoInit'
    BY <1>2, <2>5, OthersRest
  <2> QED BY <2>1, <2>3, <2>4, <2>6, Disjoint DEF RunInv, OfIca, OfTx, OfTracker, OfDao
<1>3. CASE file \in DOMAIN TxFiles /\ TxNext /\ UNCHANGED <<vars, icaOnly, trackerOnly, daoOnly>>
  <2>1. IInv'
    BY <1>3, Unchanged DEF RunInv
  <2>2. file \in TxNames /\ TxInv /\ verdict \in TxVerdict
    BY <1>3, FileNames DEF RunInv, OfTx
  <2>3. TxInv' /\ verdict' \in TxVerdict
    BY <1>3, <2>2, TxNextInv, TxVerdicts
  <2>4. file' \in TxNames
    BY <2>3 DEF TxInv, TxScript, TxNames
  <2>5. IcaInit /\ TrackerInit /\ DaoInit
    BY <2>2, Disjoint DEF RunInv, OfIca, OfTracker, OfDao
  <2>6. IcaInit' /\ TrackerInit' /\ DaoInit'
    BY <1>3, <2>5, OthersRest
  <2> QED BY <2>1, <2>3, <2>4, <2>6, Disjoint DEF RunInv, OfIca, OfTx, OfTracker, OfDao
<1>4. CASE file \in DOMAIN TrackerFiles /\ TrackerNext
        /\ UNCHANGED <<vars, icaOnly, txOnly, daoOnly>>
  <2>1. IInv'
    BY <1>4, Unchanged DEF RunInv
  <2>2. file = "staking_tracker" /\ TrackerInv /\ verdict \in TrackerVerdict
    BY <1>4, FileNames DEF RunInv, OfTracker
  <2>3. TrackerInv' /\ verdict' \in TrackerVerdict
    BY <1>4, <2>2, TrackerNextInv, TrackerVerdicts
  <2>4. file' = "staking_tracker"
    BY <2>3 DEF TrackerInv, TrackerScript
  <2>5. IcaInit /\ TxInit /\ lag = 0 /\ DaoInit
    BY <2>2, Disjoint DEF RunInv, OfIca, OfTx, OfDao
  <2>6. IcaInit' /\ TxInit' /\ lag' = 0 /\ DaoInit'
    BY <1>4, <2>5, OthersRest
  <2> QED BY <2>1, <2>3, <2>4, <2>6, Disjoint DEF RunInv, OfIca, OfTx, OfTracker, OfDao
<1>5. CASE file \in DOMAIN DaoFiles /\ DaoNext /\ UNCHANGED <<vars, icaOnly, txOnly, trackerOnly>>
  <2>1. IInv'
    BY <1>5, Unchanged DEF RunInv
  <2>2. file \in DaoNames /\ DaoInv /\ verdict \in DaoVerdict
    BY <1>5, FileNames DEF RunInv, OfDao
  <2>3. DaoInv' /\ verdict' \in DaoVerdict
    BY <1>5, <2>2, DaoNextInv, DaoVerdicts
  <2>4. file' \in DaoNames
    BY <2>3 DEF DaoInv, DaoScript, DaoNames
  <2>5. IcaInit /\ TxInit /\ lag = 0 /\ TrackerInit
    BY <2>2, Disjoint DEF RunInv, OfIca, OfTx, OfTracker
  <2>6. IcaInit' /\ TxInit' /\ lag' = 0 /\ TrackerInit'
    BY <1>5, <2>5, OthersRest
  <2> QED BY <2>1, <2>3, <2>4, <2>6, Disjoint DEF RunInv, OfIca, OfTx, OfTracker, OfDao
<1> QED BY <1>1, <1>2, <1>3, <1>4, <1>5 DEF RunNext

LEMMA RunStutters ==
  ASSUME RunInv, UNCHANGED allVars
  PROVE  RunInv'
<1>1. UNCHANGED <<vars, scriptVars, icaOnly, txOnly, trackerOnly, daoOnly>>
  BY DEF allVars
<1>2. UNCHANGED icaVars /\ UNCHANGED txVars /\ UNCHANGED trackerVars /\ UNCHANGED daoVars
  BY <1>1 DEF icaVars, icaOnly, txVars, txOnly, trackerVars, trackerOnly, chainVars, daoVars,
              daoOnly
<1>3. UNCHANGED <<file, verdict, step, height, begun, tests>>
  BY <1>1 DEF scriptVars
<1>4. IInv'
  BY <1>1, Unchanged DEF RunInv
<1>5. OfIca' /\ OfTx'
  BY <1>1, <1>2, <1>3, IcaStutters, TxStutters, OthersRest DEF RunInv, OfIca, OfTx
<1>6. OfTracker' /\ OfDao'
  BY <1>1, <1>2, <1>3, TrackerStutters, DaoStutters, OthersRest DEF RunInv, OfTracker, OfDao
<1>7. OfKv => OfKv'
  BY <1>3 DEF OfKv, ScriptTypeOK
<1> QED BY <1>3, <1>4, <1>5, <1>6, <1>7 DEF RunInv

(* The invariant holds in every state.                                      *)
THEOREM RunInvariant == RunSpec => []RunInv
<1>1. RunInit => RunInv
  BY RunInitInv
<1>2. RunInv /\ [RunNext]_allVars => RunInv'
  BY RunNextInv, RunStutters
<1> QED BY <1>1, <1>2, PTL DEF RunSpec

-------------------------------------------------------------------------------
LEMMA ScriptTypesHold ==
  ASSUME RunInv
  PROVE  ScriptTypeOK
<1>1. CASE file \in IcaNames
  BY <1>1, IcaTypesHold DEF RunInv, OfIca, IcaTypeOK
<1>2. CASE file \in TxNames
  BY <1>2 DEF RunInv, OfTx, TxInv, TxScript, ScriptTypeOK
<1>3. CASE file = "staking_tracker"
  BY <1>3, TrackerTypesHold DEF RunInv, OfTracker, TrackerTypeOK
<1>4. CASE file \in DaoNames
  BY <1>4, DaoTypesHold DEF RunInv, OfDao, DaoTypeOK
<1>5. CASE OfKv
  BY <1>5 DEF OfKv
<1> QED BY <1>1, <1>2, <1>3, <1>4, <1>5 DEF RunInv

LEMMA RunTypesHold ==
  ASSUME RunInv
  PROVE  RunTypeOK
<1>1. ScriptTypeOK
  BY ScriptTypesHold
<1>2. verdict \in IcaVerdict \union TxVerdict \union TrackerVerdict \union DaoVerdict
  BY DEF RunInv, OfKv, OfIca, OfTx, OfTracker, OfDao, IcaVerdict
<1>3. TypeOK
  BY DEF RunInv, IInv
<1>4. IcaTypeOK
  <2>1. CASE file \in IcaNames
    BY <2>1, IcaTypesHold DEF RunInv, OfIca
  <2>2. CASE file \notin IcaNames
    <3>1. /\ relaying = "no" /\ handAcks = {} /\ packets = <<>> /\ closed = {}
          /\ acks = {} /\ failures = {} /\ undone = {} /\ recvTx = {} /\ ackTx = {}
          /\ delegated = 0
      BY <2>2 DEF RunInv, OfIca, IcaInit
    <3>2. mock = FALSE /\ paused = FALSE
      BY <2>2 DEF RunInv, OfIca, IcaInit
    <3>3. mock \in BOOLEAN /\ paused \in BOOLEAN
      BY <3>2
    <3>4. /\ relaying \in {"no", "relayed", "acks"} /\ closed \subseteq {"test1", "test2"}
          /\ delegated \in Nat
      BY <3>1
    <3>5. {handAcks, acks, failures, undone, recvTx, ackTx} \subseteq SUBSET DOMAIN packets
      BY <3>1
    <3>6. \A k \in DOMAIN packets :
            /\ packets[k].state \in {"sent", "received", "acknowledged", "timed_out"}
            /\ packets[k].expired \in BOOLEAN
      BY <3>1
    <3> QED BY ONLY <1>1, <3>3, <3>4, <3>5, <3>6, Zenon DEF IcaTypeOK
  <2> QED BY <2>1, <2>2
<1>5. TxTypeOK
  <2>1. CASE file \in TxNames
    BY <2>1, TransferTypes DEF RunInv, OfTx, TxInv, TxScript, TxTypes, TxTypeOK, ScriptTypeOK
  <2>2. CASE file \notin TxNames
    <3>1. /\ lag \in 0 .. MaxLag
          /\ registeredAt = [q \in Queries |-> 0] /\ handledAt = [q \in Queries |-> 0]
          /\ transfers = <<>> /\ looksLeft = 0 /\ lookedAt = 0
      BY <2>2 DEF RunInv, OfTx, TxInit
    <3>2. mocked = FALSE
      BY <2>2 DEF RunInv, OfTx, TxInit
    <3>3. mocked \in BOOLEAN
      BY <3>2
    <3>4. registeredAt \in [Queries -> Nat] /\ handledAt \in [Queries -> Nat]
      BY <3>1
    <3>5. looksLeft \in 0 .. 2 * LongPeriod /\ lookedAt \in Nat
      BY <3>1, PeriodAssumption
    <3>6. \A i \in DOMAIN transfers :
            /\ transfers[i].query \in Queries /\ transfers[i].at \in 1 .. height
            /\ transfers[i].state \in {"sent", "submitted", "recorded", "failed"}
      BY <3>1
    <3> QED BY ONLY <1>1, <3>1, <3>3, <3>4, <3>5, <3>6, Zenon DEF TxTypeOK
  <2> QED BY <2>1, <2>2
<1>6. TrackerTypeOK
  <2>1. CASE file = "staking_tracker"
    BY <2>1, TrackerTypesHold DEF RunInv, OfTracker
  <2>2. CASE file # "staking_tracker"
    <3>1. /\ bonded = << [v \in Validators |-> 0] >>
          /\ mempool = {} /\ awaiting = "no" /\ lateAt = 0
          /\ noted = [n \in {"before", "after"} |-> 0] /\ seen = <<>> /\ infos = <<>>
      BY <2>2 DEF RunInv, OfTracker, TrackerInit
    <3>2. failed = FALSE
      BY <2>2 DEF RunInv, OfTracker, TrackerInit
    <3>3. failed \in BOOLEAN
      BY <3>2
    <3>4. height \in Nat
      BY <1>1 DEF ScriptTypeOK
    <3>5. \A h \in DOMAIN bonded : bonded[h] \in [Validators -> Nat]
      BY <3>1
    <3>6. {m.id : m \in mempool} \subseteq 1 .. Len(tests)
            /\ awaiting \in {"no", "sent", "ok", "failed"}
      BY <3>1
    <3>7. lateAt \in 0 .. height /\ noted \in [{"before", "after"} -> 0 .. height]
      BY <3>1, <3>4
    <3>8. Len(seen) <= 2 /\ Len(infos) <= 2
      BY <3>1
    <3>9. file = "staking_tracker" => Len(bonded) = height
      BY <2>2
    <3> QED BY ONLY <1>1, <3>3, <3>5, <3>6, <3>7, <3>8, <3>9, Zenon DEF TrackerTypeOK
  <2> QED BY <2>1, <2>2
<1>7. DaoTypeOK
  <2>1. CASE file \in DaoNames
    BY <2>1, DaoTypesHold DEF RunInv, OfDao
  <2>2. CASE file \notin DaoNames
    <3>1. codeIds = <<>> /\ contracts = <<>> /\ proposals = <<>> /\ late = {}
      BY <2>2 DEF RunInv, OfDao, DaoInit
    <3>2. listed = FALSE /\ stale = FALSE
      BY <2>2 DEF RunInv, OfDao, DaoInit
    <3>3. listed \in BOOLEAN /\ stale \in BOOLEAN
      BY <3>2
    <3>4. /\ \A b \in DOMAIN codeIds : codeIds[b] \in DOMAIN code
          /\ \A l \in DOMAIN contracts : contracts[l] \in DOMAIN code
          /\ late \subseteq DOMAIN proposals
      BY <3>1
    <3>5. \A p \in DOMAIN proposals :
            proposals[p].status \in {"open", "executed", "timelocked", "overruled"}
      BY <3>1
    <3> QED BY ONLY <1>1, <3>3, <3>4, <3>5, Zenon DEF DaoTypeOK
  <2> QED BY <2>1, <2>2
<1> QED BY <1>2, <1>3, <1>4, <1>5, <1>6, <1>7
        DEF RunTypeOK, IcaVerdict, TxVerdict, TrackerVerdict, DaoVerdict

(* Whatever file is run, the variables of every one have their types.       *)
THEOREM RunTypeCorrect == RunSpec => []RunTypeOK
BY RunInvariant, RunTypesHold, PTL

LEMMA VerdictOfFile ==
  ASSUME RunInv
  PROVE  /\ verdict \in IcaVerdict \ {"running"} => file \in IcaNames
         /\ verdict \in TxVerdict \ {"running"} => file \in TxNames
         /\ verdict \in TrackerVerdict \ {"running", "bailed"} => file = "staking_tracker"
         /\ verdict \in DaoVerdict \ {"running", "bailed"} => file \in DaoNames
BY DEF RunInv, OfKv, OfIca, OfTx, OfTracker, OfDao, IcaVerdict, TxVerdict, TrackerVerdict,
       DaoVerdict

(* What holds of each file holds of the file that is chosen to be run: the  *)
(* properties of the query helpers, of the interchain transactions, of the  *)
(* transfer queries, of the staking tracker and of the DAOs.                *)
THEOREM RunProperties ==
  RunSpec => [](/\ CallbacksNewer /\ BalancesEqual
                /\ DelegationsRight /\ RelayedByHand /\ AcksRight
                /\ NotOverlooked /\ WaitSuffices /\ FailuresCounted
                /\ MatchHolds /\ AmountsRight
                /\ RightBinaries /\ ProposalsPass)
<1>1. ASSUME RunInv PROVE CallbacksNewer /\ BalancesEqual
  BY <1>1 DEF RunInv, IInv
<1>2. ASSUME RunInv PROVE DelegationsRight /\ RelayedByHand /\ AcksRight
  <2>1. CASE file \in IcaNames
    <3>1. IcaInv
      BY <1>2, <2>1 DEF RunInv, OfIca
    <3>2. DelegationsRight /\ AcksRight
      BY <3>1 DEF IcaInv, IcaBase, IcaScript, SendInv, SudoFailureInv, UnorderedInv,
                  DelegationsRight, AcksRight
    <3> QED BY <3>1, <3>2, RelayedByHandHolds
  <2>2. CASE file \notin IcaNames
    <3>1. paused = FALSE
      BY <1>2, <2>2 DEF RunInv, OfIca, IcaInit
    <3>2. verdict \notin {"delegations_differ", "redundant", "acks_differ", "failures_differ"}
      BY <1>2, <2>2, VerdictOfFile DEF IcaVerdict
    <3>3. DelegationsRight /\ AcksRight
      BY <3>2 DEF DelegationsRight, AcksRight
    <3>4. RelayedByHand
      BY <3>1, <3>2 DEF RelayedByHand
    <3> QED BY <3>3, <3>4
  <2> QED BY <2>1, <2>2
<1>3. ASSUME RunInv PROVE NotOverlooked /\ WaitSuffices /\ FailuresCounted
  <2>1. CASE file \in TxNames
    <3>1. TxInv
      BY <1>3, <2>1 DEF RunInv, OfTx
    <3> QED BY <3>1, NotOverlookedHolds DEF TxInv
  <2>2. CASE file \notin TxNames
    <3>1. file # "order" /\ verdict \notin {"used_up", "count_differs"}
      BY <1>3, <2>2, VerdictOfFile DEF TxVerdict, TxNames
    <3> QED BY <3>1 DEF NotOverlooked, WaitSuffices, FailuresCounted
  <2> QED BY <2>1, <2>2
<1>4. ASSUME RunInv PROVE MatchHolds /\ AmountsRight
  <2>1. CASE file = "staking_tracker"
    BY <1>4, <2>1 DEF RunInv, OfTracker, TrackerInv
  <2>2. CASE file # "staking_tracker"
    BY <1>4, <2>2, VerdictOfFile DEF TrackerVerdict, MatchHolds, AmountsRight
  <2> QED BY <2>1, <2>2
<1>5. ASSUME RunInv PROVE RightBinaries /\ ProposalsPass
  <2>1. CASE file \in DaoNames
    BY <1>5, <2>1 DEF RunInv, OfDao, DaoInv
  <2>2. CASE file \notin DaoNames
    <3>1. contracts = <<>>
      BY <1>5, <2>2 DEF RunInv, OfDao, DaoInit
    <3>2. verdict \notin {"too_late", "not_passed", "not_executed"}
      BY <1>5, <2>2, VerdictOfFile DEF DaoVerdict
    <3> QED BY <3>1, <3>2 DEF RightBinaries, ProposalsPass
  <2> QED BY <2>1, <2>2
<1> QED BY <1>1, <1>2, <1>3, <1>4, <1>5, RunInvariant, PTL

(* No file takes back the parameters that an update does not name.          *)
THEOREM RunUpdates == RunSpec => UpdateKeepsOthers
<1>1. ASSUME RunInv, RunNext, params' # params, late' = late
      PROVE  \/ stale
             \/ \E n \in DOMAIN params : \A m \in DOMAIN params \ {n} : params'[m] = params[m]
  <2>1. ~ UNCHANGED daoOnly
    BY <1>1 DEF daoOnly, chainDaoVars
  <2>2. file \in DaoNames /\ DaoNext
    BY <1>1, <2>1, FileNames DEF RunNext
  <2> QED BY <1>1, <2>2, UpdateStep DEF RunInv, OfDao
<1>2. UNCHANGED allVars => UNCHANGED daoVars
  BY DEF allVars, daoVars, daoOnly
<1>3. RunInv /\ [RunNext]_allVars =>
        [params' # params /\ late' = late =>
           \/ stale
           \/ \E n \in DOMAIN params :
                \A m \in DOMAIN params \ {n} : params'[m] = params[m]]_daoVars
  BY <1>1, <1>2
<1> QED BY <1>3, RunInvariant, PTL DEF RunSpec, UpdateKeepsOthers
===============================================================================
