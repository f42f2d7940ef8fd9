----------------------- MODULE SlashingSimulation_proofs -----------------------
(***************************************************************************)
(* Proofs about simulateSlashingAndJailing(), for all stakes and all calls: *)
(* when the call returns the validator is jailed or has missed all the      *)
(* blocks that were asked for but one; and an alternative validator with    *)
(* more than 2/3 of the tokens, or with more than 66% and the delegation in *)
(* force, keeps the chain going.                                            *)
(***************************************************************************)
EXTENDS SlashingSimulation, TLAPS

(* Until the delegation is executed, what was read is what there is; then   *)
(* the alternative validator has 68% of it.  The voters have the power it   *)
(* had before or the one it has now.                                        *)
StakesInv ==
  /\ pc \in {"look", "delegate"} => delegated = "no"
  /\ delegated = "sent" => pc \in {"delegating", "thrown"}
  /\ pc = "delegate" \/ delegated = "sent" => alternative < MinRequired(totalBondedTokens)
  /\ pc = "look" => set = <<alternative, second>> /\ nextSet = <<alternative, second>>
  /\ delegated = "yes" =>
       /\ alternative = MinRequired(totalBondedTokens)
       /\ alternativeValidatorPower < alternative
  /\ delegated # "yes" => pc \in {"look", "thrown"} \/ alternative = alternativeValidatorPower
  /\ pc \notin {"look", "thrown"} =>
       /\ totalBondedTokens = alternativeValidatorPower + second
       /\ set[1] \in {alternativeValidatorPower, alternative}
       /\ nextSet[1] \in {alternativeValidatorPower, alternative}
       /\ set[2] <= second /\ nextSet[2] <= second

(* The ceiling is a number, and not less than 68%. *)
LEMMA MinRequiredType ==
  ASSUME NEW a \in Nat, NEW b \in Nat
  PROVE  MinRequired(a + b) \in Nat /\ 100 * MinRequired(a + b) >= 68 * (a + b)
BY DEF MinRequired

(* The delegation brings the alternative validator to 68% of what was the   *)
(* total.                                                                   *)
LEMMA DelegationAdds ==
  ASSUME TypeOK, StakesInv, delegated = "sent", pc # "thrown"
  PROVE  /\ alternative + Lacking = MinRequired(totalBondedTokens)
         /\ MinRequired(totalBondedTokens) \in Nat
         /\ alternativeValidatorPower < MinRequired(totalBondedTokens)
<1>1. totalBondedTokens = alternativeValidatorPower + second /\ alternative = alternativeValidatorPower
  BY DEF StakesInv
<1>2. alternative < MinRequired(totalBondedTokens)
  BY DEF StakesInv
<1>3. MinRequired(totalBondedTokens) \in Nat
  BY <1>1, MinRequiredType DEF TypeOK
<1> QED BY <1>1, <1>2, <1>3 DEF Lacking, TypeOK

(* What a block does with the delegation keeps StakesInv's account of it. *)
LEMMA BlockStakes ==
  ASSUME TypeOK, StakesInv, Block
  PROVE  TypeOK' /\ StakesInv'
<1>1. /\ pc' = pc /\ second' = second /\ running' = running
      /\ missedBlocks' = missedBlocks /\ maxMissed' = maxMissed
      /\ alternativeValidatorPower' = alternativeValidatorPower
      /\ totalBondedTokens' = totalBondedTokens
      /\ pc \in {"delegating", "pause", "paused", "waiting", "settling"}
      /\ blocks' = blocks + 1 /\ cast' = FALSE
  BY DEF Block, call, lookedAt
<1>2. missed' \in Nat /\ jailed' \in BOOLEAN
  BY DEF Block, TypeOK
<1>3. votedLast' \in BOOLEAN
  BY DEF Block, Votes, TypeOK
<1>4. \/ /\ delegated = "sent" /\ delegated' = "yes"
         /\ alternative' = MinRequired(totalBondedTokens)
         /\ alternative' \in Nat /\ alternativeValidatorPower < alternative'
      \/ delegated = "sent" /\ delegated' = "failed" /\ alternative' = alternative
      \/ delegated' = delegated /\ alternative' = alternative
  BY <1>1, DelegationAdds DEF Block, Execute
<1>5. alternative' \in Nat /\ delegated' \in {"no", "sent", "yes", "failed"}
  BY <1>4 DEF TypeOK
<1>6. set' = nextSet
  BY DEF Block
<1>7. /\ nextSet' \in Nat \X Nat
      /\ nextSet'[1] = alternative' /\ nextSet'[2] <= second
  <2>1. nextSet' = <<alternative', IF jailed' THEN 0 ELSE second>>
    BY DEF Block
  <2> QED BY <1>5, <2>1 DEF TypeOK
<1>8. TypeOK'
  <2>1. /\ pc' \in {"look", "delegate", "delegating", "pause", "paused", "waiting",
                    "settling"} \union Ended
        /\ missedBlocks' \in Nat /\ maxMissed' \in Nat /\ second' \in Nat
        /\ alternativeValidatorPower' \in Nat /\ totalBondedTokens' \in Nat
        /\ blocks' \in Nat
    BY <1>1 DEF TypeOK
  <2>3. running' \in BOOLEAN /\ cast' \in BOOLEAN
    <3>1. FALSE \in BOOLEAN
      OBVIOUS
    <3> QED BY <1>1, <3>1, Zenon DEF TypeOK
  <2>2. set' \in Nat \X Nat /\ nextSet' \in Nat \X Nat
    BY <1>6, <1>7 DEF TypeOK
  <2> QED BY ONLY <1>2, <1>3, <1>5, <2>1, <2>2, <2>3 DEF TypeOK
<1>9. /\ totalBondedTokens = alternativeValidatorPower + second
      /\ nextSet[1] \in {alternativeValidatorPower, alternative} /\ nextSet[2] <= second
      /\ delegated # "yes" => alternative = alternativeValidatorPower
  BY <1>1 DEF StakesInv
<1>10. /\ set'[1] \in {alternativeValidatorPower, alternative'}
       /\ nextSet'[1] \in {alternativeValidatorPower, alternative'}
  BY <1>4, <1>6, <1>7, <1>9
<1>11. /\ set'[2] <= second' /\ nextSet'[2] <= second'
  BY <1>1, <1>6, <1>7, <1>9
<1>12. /\ delegated' = "yes" =>
             alternative' = MinRequired(totalBondedTokens) /\ alternativeValidatorPower < alternative'
       /\ delegated' # "yes" => alternative' = alternativeValidatorPower
       /\ delegated' = "sent" => pc = "delegating" /\ alternative' < MinRequired(totalBondedTokens)
  BY <1>1, <1>4, <1>9 DEF StakesInv
<1>13. totalBondedTokens' = alternativeValidatorPower' + second'
  BY <1>1, <1>9
<1>14. MinRequired(totalBondedTokens)' = MinRequired(totalBondedTokens)
  BY <1>1 DEF MinRequired
<1> QED BY ONLY <1>1, <1>8, <1>10, <1>11, <1>12, <1>13, <1>14 DEF StakesInv

LEMMA StakesInductive == Spec => [](TypeOK /\ StakesInv)
<1>1. Init => TypeOK /\ StakesInv
  <2> SUFFICES ASSUME Init PROVE TypeOK /\ StakesInv
    OBVIOUS
  <2>1. PICK s \in Stakes : alternative = s[1] /\ second = s[2] /\ set = s /\ nextSet = s
    BY DEF Init
  <2>2. /\ alternative \in Nat /\ second \in Nat /\ s \in Nat \X Nat
        /\ s = <<alternative, second>>
    BY <2>1, StakesAssumption
  <2>3. missedBlocks \in Nat /\ maxMissed \in Nat
    BY CallsAssumption DEF Init
  <2>4. TypeOK
    BY <2>1, <2>2, <2>3 DEF Init, TypeOK
  <2> QED BY <2>1, <2>2, <2>4 DEF Init, StakesInv
<1>2. (TypeOK /\ StakesInv) /\ [Next]_vars => (TypeOK /\ StakesInv)'
  <2> SUFFICES ASSUME TypeOK, StakesInv, [Next]_vars PROVE TypeOK' /\ StakesInv'
    OBVIOUS
  <2>1. CASE Look
    <3>1. /\ pc = "look" /\ pc' \in {"delegate", "pause"} /\ blocks' = 0
          /\ pc' = "delegate" => alternative < MinRequired(alternative + second)
          /\ alternativeValidatorPower' = alternative
          /\ totalBondedTokens' = alternative + second
          /\ UNCHANGED <<call, second, chain, delegated, running, cast>>
      BY <2>1 DEF Look, Goes
    <3>2. /\ alternative' = alternative /\ second' = second /\ delegated' = delegated
          /\ set' = set /\ nextSet' = nextSet
      BY <3>1 DEF chain
    <3>3. /\ delegated = "no" /\ set = <<alternative, second>> /\ nextSet = <<alternative, second>>
      BY <3>1 DEF StakesInv
    <3>4. TypeOK'
      BY <3>1 DEF TypeOK, Ended, call, chain
    <3>5. MinRequired(totalBondedTokens)' = MinRequired(alternative + second)
      BY <3>1 DEF MinRequired
    <3>6. set[1] = alternative /\ set[2] <= second /\ nextSet[1] = alternative /\ nextSet[2] <= second
      BY <3>3 DEF TypeOK
    <3> QED BY ONLY <3>1, <3>2, <3>3, <3>4, <3>5, <3>6 DEF StakesInv
  <2>2. CASE Delegate
    BY <2>2 DEF Delegate, Goes, call, lookedAt, chain, TypeOK, Ended, StakesInv, MinRequired
  <2>3. CASE Delegated
    BY <2>3 DEF Delegated, Goes, call, lookedAt, chain, TypeOK, Ended, StakesInv, MinRequired
  <2>4. CASE Pause
    BY <2>4 DEF Pause, Goes, call, lookedAt, chain, TypeOK, Ended, StakesInv, MinRequired
  <2>5. CASE BeginWait
    BY <2>5 DEF BeginWait, Goes, call, lookedAt, chain, TypeOK, Ended, StakesInv, MinRequired
  <2>6. CASE Unpause
    BY <2>6 DEF Unpause, Goes, call, lookedAt, chain, TypeOK, Ended, StakesInv, MinRequired
  <2>7. CASE Return
    BY <2>7 DEF Return, Goes, call, lookedAt, chain, TypeOK, Ended, StakesInv, MinRequired
  <2>8. CASE Throws
    BY <2>8 DEF Throws, Goes, call, lookedAt, chain, TypeOK, Ended, StakesInv, MinRequired
  <2>9. CASE Block
    BY <2>9, BlockStakes
  <2>10. CASE UNCHANGED vars
    BY <2>10 DEF vars, call, lookedAt, chain, TypeOK, Ended, StakesInv, MinRequired
  <2> QED BY <2>1, <2>2, <2>3, <2>4, <2>5, <2>6, <2>7, <2>8, <2>9, <2>10 DEF Next, Helper
<1> QED BY <1>1, <1>2, PTL DEF Spec

(* The variables have their types: the delegation is never negative.        *)
THEOREM TypeCorrect == Spec => []TypeOK
BY StakesInductive, PTL
-------------------------------------------------------------------------------
(* The vote for the last block and the one sent before the pause: so many   *)
(* of the next blocks are not missed.                                       *)
Ahead == (IF votedLast THEN 1 ELSE 0) + IF cast THEN 1 ELSE 0

(* All blocks of the wait but two are missed, and the first one after it is *)
(* missed too unless all but one were.  A validator that has missed more    *)
(* than maxMissed blocks is jailed.                                         *)
JailInv ==
  /\ ~ jailed => missed <= maxMissed
  /\ pc \in {"paused", "waiting"} => ~ running
  /\ pc = "waiting" => jailed \/ blocks + Ahead <= missed + 2
  /\ pc = "settling" =>
       \/ jailed
       \/ missedBlocks <= missed + 1
       \/ blocks = 0 /\ missedBlocks + Ahead <= missed + 2
  /\ pc = "returned" => jailed \/ missedBlocks <= missed + 1

LEMMA AheadType ==
  ASSUME TypeOK
  PROVE  Ahead \in 0 .. 2 /\ (votedLast => Ahead >= 1)
BY DEF Ahead, TypeOK

LEMMA OneMore ==
  ASSUME NEW b \in Nat, NEW m \in Nat, NEW a \in 0 .. 1
  PROVE  /\ b + (1 + a) <= m + 2 => (b + 1) + a <= m + 2
         /\ b + a <= m + 2 => (b + 1) + a <= (m + 1) + 2
OBVIOUS

LEMMA BlockJails ==
  ASSUME TypeOK, JailInv, Block
  PROVE  JailInv'
<1>1. /\ pc' = pc /\ running' = running /\ missedBlocks' = missedBlocks /\ maxMissed' = maxMissed
      /\ blocks' = blocks + 1 /\ cast' = FALSE /\ votedLast' \in Votes
      /\ pc \in {"delegating", "pause", "paused", "waiting", "settling"}
      /\ jailed' = (jailed \/ missed' > maxMissed)
  BY DEF Block, call
<1>2. missed' = IF jailed \/ votedLast THEN missed ELSE missed + 1
  BY DEF Block, TypeOK
<1>3. missed \in Nat /\ missed' \in Nat /\ maxMissed \in Nat /\ blocks \in Nat /\ missedBlocks \in Nat
  BY <1>2 DEF TypeOK
<1>4. ~ jailed' => missed' <= maxMissed'
  <2>1. ~ jailed' => ~ (missed' > maxMissed)
    BY <1>1
  <2> QED BY ONLY <1>1, <1>3, <2>1
<1>5. jailed => jailed'
  BY <1>1
<1>6. ASSUME pc = "waiting", ~ jailed' PROVE blocks' + Ahead' <= missed' + 2
  <2>1. ~ running /\ ~ jailed /\ blocks + Ahead <= missed + 2
    BY <1>5, <1>6 DEF JailInv
  <2>6. blocks + Ahead <= missed + 2
    BY <2>1
  <2>2. votedLast' = cast
    BY <1>1, <2>1 DEF Votes
  <2>3. Ahead' = IF cast THEN 1 ELSE 0
    BY <1>1, <2>2 DEF Ahead
  <2>4. CASE votedLast
    <3>1. Ahead = 1 + Ahead'
      BY <2>3, <2>4 DEF Ahead
    <3>2. missed' = missed
      BY <1>2, <2>4
    <3>3. Ahead' \in 0 .. 1
      BY <2>3
    <3>4. blocks' = blocks + 1
      BY <1>1
    <3> QED BY ONLY <1>3, <2>6, <3>1, <3>2, <3>3, <3>4, OneMore, Zenon
  <2>5. CASE ~ votedLast
    <3>1. Ahead = Ahead'
      BY <2>3, <2>5 DEF Ahead
    <3>2. missed' = missed + 1
      BY <1>2, <2>1, <2>5
    <3>3. Ahead' \in 0 .. 1
      BY <2>3
    <3>4. blocks' = blocks + 1
      BY <1>1
    <3> QED BY ONLY <1>3, <2>6, <3>1, <3>2, <3>3, <3>4, OneMore, Zenon
  <2> QED BY <2>4, <2>5
<1>7. ASSUME pc = "settling", ~ jailed' PROVE missedBlocks' <= missed' + 1
  <2>1. CASE missedBlocks <= missed + 1
    BY <1>1, <1>2, <1>3, <2>1
  <2>2. CASE missedBlocks + Ahead <= missed + 2
    <3>1. Ahead \in 0 .. 2 /\ (votedLast => Ahead >= 1)
      BY AheadType
    <3>2. CASE votedLast
      BY <1>1, <1>2, <1>3, <2>2, <3>1, <3>2
    <3>3. CASE ~ votedLast
      <4>1. missed' = missed + 1
        BY <1>2, <1>5, <1>7, <3>3
      <4> QED BY <1>1, <1>3, <2>2, <3>1, <4>1
    <3> QED BY <3>2, <3>3
  <2> QED BY <1>5, <1>7, <2>1, <2>2 DEF JailInv
<1>8. pc' \in {"paused", "waiting"} => ~ running'
  BY <1>1 DEF JailInv
<1> QED BY <1>1, <1>4, <1>6, <1>7, <1>8 DEF JailInv

LEMMA JailInductive == Spec => []JailInv
<1>1. Init => JailInv
  BY CallsAssumption DEF Init, JailInv
<1>2. TypeOK /\ JailInv /\ [Next]_vars => JailInv'
  <2> SUFFICES ASSUME TypeOK, JailInv, [Next]_vars PROVE JailInv'
    OBVIOUS
  <2>1. CASE Look
    BY <2>1 DEF Look, Goes, call, chain, JailInv
  <2>2. CASE Delegate
    BY <2>2 DEF Delegate, Goes, call, chain, JailInv
  <2>3. CASE Delegated
    BY <2>3 DEF Delegated, Goes, call, chain, JailInv
  <2>4. CASE Pause
    BY <2>4 DEF Pause, Goes, call, chain, JailInv
  <2>5. CASE BeginWait
    <3>1. /\ pc = "paused" /\ pc' = "waiting" /\ blocks' = 0 /\ running' = running
          /\ UNCHANGED chain /\ UNCHANGED call /\ cast' = cast
      BY <2>5 DEF BeginWait, Goes
    <3>2. Ahead' = Ahead
      BY <3>1 DEF Ahead, chain
    <3>3. blocks' + Ahead' <= missed' + 2
      BY <3>1, <3>2, AheadType DEF chain, TypeOK
    <3> QED BY <3>1, <3>3 DEF JailInv, chain, call
  <2>6. CASE Unpause
    <3>1. /\ pc = "waiting" /\ pc' = "settling" /\ blocks' = 0 /\ blocks >= missedBlocks
          /\ UNCHANGED chain /\ UNCHANGED call /\ cast' = cast
      BY <2>6 DEF Unpause, Goes
    <3>2. Ahead' = Ahead
      BY <3>1 DEF Ahead, chain
    <3>3. jailed \/ missedBlocks + Ahead <= missed + 2
      <4>1. jailed \/ blocks + Ahead <= missed + 2
        BY <3>1 DEF JailInv
      <4> QED BY <3>1, <4>1, AheadType DEF TypeOK
    <3> QED BY <3>1, <3>2, <3>3 DEF JailInv, chain, call
  <2>7. CASE Return
    <3>1. /\ pc = "settling" /\ pc' = "returned" /\ blocks >= 2
          /\ UNCHANGED chain /\ UNCHANGED call
      BY <2>7 DEF Return, Goes
    <3>2. blocks # 0
      BY <3>1
    <3> QED BY <3>1, <3>2 DEF JailInv, chain, call
  <2>8. CASE Throws
    BY <2>8 DEF Throws, Goes, call, chain, JailInv
  <2>9. CASE Block
    BY <2>9, BlockJails
  <2>10. CASE UNCHANGED vars
    BY <2>10 DEF vars, call, chain, JailInv, Ahead
  <2> QED BY <2>1, <2>2, <2>3, <2>4, <2>5, <2>6, <2>7, <2>8, <2>9, <2>10 DEF Next, Helper
<1> QED BY <1>1, <1>2, StakesInductive, PTL DEF Spec

(* A call that returns with the validator not jailed was one block short,   *)
(* or more, of what jails it: it missed all the blocks that were asked for  *)
(* but one.                                                                 *)
THEOREM JailedOnReturn == Spec => []Jailed
<1>1. JailInv => Jailed
  BY DEF JailInv, Jailed
<1> QED BY <1>1, JailInductive, PTL

(* So a call that asks for two blocks more than may be missed, as that of   *)
(* staking-rewards.test.ts does (12, with 5), returns with the validator    *)
(* jailed.                                                                  *)
THEOREM TwoMoreAreEnough ==
  Spec => [](pc = "returned" /\ missedBlocks >= maxMissed + 2 => jailed)
<1>1. TypeOK /\ JailInv => (pc = "returned" /\ missedBlocks >= maxMissed + 2 => jailed)
  BY DEF TypeOK, JailInv
<1> QED BY <1>1, StakesInductive, JailInductive, PTL
-------------------------------------------------------------------------------
(* 68% of the total before are more than 2/3 of the total after, as the     *)
(* others have less than 34%.                                               *)
LEMMA EnoughAfter ==
  ASSUME NEW a \in Nat, NEW b \in Nat, 100 * a > 66 * (a + b)
  PROVE  3 * MinRequired(a + b) > 2 * (MinRequired(a + b) + b)
<1>1. MinRequired(a + b) \in Nat /\ 100 * MinRequired(a + b) >= 68 * (a + b)
  BY MinRequiredType
<1> QED BY <1>1

(* Whoever has more than twice the power of the other needs no vote of it.  *)
LEMMA TwiceIsEnough ==
  ASSUME TypeOK, NEW p \in Nat, p > 2 * second, set[1] >= p, set[2] <= second
  PROVE  HasQuorum
<1>1. set[1] \in Nat /\ set[2] \in Nat /\ second \in Nat
  BY DEF TypeOK
<1>2. set[1] > 2 * set[2]
  BY <1>1
<1> QED BY <1>1, <1>2 DEF HasQuorum

(* The chain can make blocks while the container is paused: if more than    *)
(* 2/3 of the tokens were found with the alternative validator, or more     *)
(* than 66% and the delegation is in force on the next block; for all       *)
(* stakes.                                                                  *)
THEOREM EnoughKeepsQuorum == Spec => []QuorumKept
<1>1. TypeOK /\ StakesInv => QuorumKept
  <2> SUFFICES ASSUME TypeOK, StakesInv, pc \in {"paused", "waiting"},
                      \/ 3 * alternativeValidatorPower > 2 * totalBondedTokens
                      \/ /\ delegated = "yes" /\ InForce
                         /\ 100 * alternativeValidatorPower > 66 * totalBondedTokens
               PROVE  HasQuorum
    BY DEF QuorumKept
  <2> DEFINE p == alternativeValidatorPower
  <2>1. /\ p \in Nat /\ second \in Nat /\ alternative \in Nat
        /\ set[1] \in Nat /\ set[2] \in Nat
    BY DEF TypeOK
  <2>2. /\ totalBondedTokens = p + second /\ set[1] \in {p, alternative} /\ set[2] <= second
    BY DEF StakesInv
  <2>3. CASE 3 * p > 2 * totalBondedTokens
    <3>1. alternative >= p
      BY <2>1 DEF StakesInv
    <3>2. set[1] >= p /\ p > 2 * second
      BY <2>1, <2>2, <2>3, <3>1
    <3> QED BY <2>1, <2>2, <3>2, TwiceIsEnough
  <2>4. CASE delegated = "yes" /\ InForce /\ 100 * p > 66 * totalBondedTokens
    <3>1. set[1] = MinRequired(p + second)
      BY <2>2, <2>4 DEF StakesInv, InForce
    <3>2. 3 * set[1] > 2 * (set[1] + second)
      BY <2>1, <2>2, <2>4, <3>1, EnoughAfter
    <3>3. set[1] > 2 * second
      BY <2>1, <3>2
    <3> QED BY <2>1, <2>2, <3>3, TwiceIsEnough
  <2> QED BY <2>3, <2>4
<1> QED BY <1>1, StakesInductive, PTL
===============================================================================
