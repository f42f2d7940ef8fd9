-------------------------- MODULE SlashingSimulation --------------------------
(***************************************************************************)
(* simulateSlashingAndJailing() of src/helpers/staking.ts: the container of *)
(* the second validator is paused until the validator has missed enough     *)
(* blocks to be jailed.  The first validator must make blocks alone in the  *)
(* meantime, so it is delegated to first if it looks too weak.              *)
(*                                                                          *)
(* The chain is external: a block needs the votes of more than 2/3 of the   *)
(* voting power and records who voted for the block before it; a validator  *)
(* that has missed more than maxMissed blocks of the window is jailed; what *)
(* a block does to the stakes changes who votes on the block after the next *)
(* one.  Tokens are counted in units of voting power.                       *)
(***************************************************************************)
EXTENDS Naturals

CONSTANTS
  Stakes,      \* the tokens <<alternative, second>> to start from
  Calls,       \* <<missedBlocks, maxMissed>>: the argument of a call, and
               \* signed_blocks_window * (1 - min_signed_per_window) at the time
  MaxIdle      \* bound: blocks beyond those the helper waits for, per step of it

ASSUME StakesAssumption == Stakes \subseteq (Nat \ {0}) \X (Nat \ {0})
ASSUME CallsAssumption == Calls \subseteq (Nat \ {0}) \X Nat
ASSUME MaxIdleAssumption == MaxIdle \in Nat

VARIABLES
  pc,
  missedBlocks, maxMissed,   \* the call
  alternative,   \* bonded tokens of the alternative validator
  second,        \* bonded tokens of the second validator
  alternativeValidatorPower, totalBondedTokens,   \* what the call has read
  delegated,     \* "no", "sent", "yes", "failed"
  running,       \* the second validator's container is not paused
  set, nextSet,  \* the power of the two on the next block and the one after it
  votedLast,     \* the second validator's vote for the last block is there
  cast,          \* it sent its vote for the next block before the pause
  jailed,
  missed,        \* blocks of the window the second validator missed
  blocks         \* blocks since the helper's last step

call == <<missedBlocks, maxMissed>>
lookedAt == <<alternativeValidatorPower, totalBondedTokens>>
chain == <<alternative, set, nextSet, votedLast, jailed, missed>>
vars == <<pc, call, second, lookedAt, delegated, running, cast, chain, blocks>>

Ended == {"returned", "thrown"}

Init ==
  /\ pc = "look"
  /\ \E c \in Calls : missedBlocks = c[1] /\ maxMissed = c[2]
  /\ \E s \in Stakes : alternative = s[1] /\ second = s[2] /\ set = s /\ nextSet = s
  /\ alternativeValidatorPower = 0 /\ totalBondedTokens = 0 /\ delegated = "no"
  /\ running = TRUE /\ votedLast = TRUE /\ cast = FALSE
  /\ jailed = FALSE /\ missed = 0 /\ blocks = 0

(* The helper goes on to its next await. *)
Goes(from, to) == pc = from /\ pc' = to /\ blocks' = 0 /\ UNCHANGED <<call, second, chain>>

(* minRequiredBondedTokens: Math.ceil(totalBondedTokens * 0.68) *)
MinRequired(total) == (68 * total + 99) \div 100

(* a slip: it is brought to two thirds of the total before the delegation *)
LackingOfTwoThirds == (2 * totalBondedTokens + 2) \div 3 - alternativeValidatorPower

(* What the alternative validator lacks of it. *)
Lacking == MinRequired(totalBondedTokens) - alternativeValidatorPower

(* The bonded tokens are read and the delegation is decided on. *)
Look ==
  /\ Goes("look", IF alternative < MinRequired(alternative + second)
                    THEN "delegate" ELSE "pause")
  /\ alternativeValidatorPower' = alternative
  /\ totalBondedTokens' = alternative + second
  /\ UNCHANGED <<delegated, running, cast>>

(* delegateTokens is broadcast, *)
Delegate ==
  /\ Goes("delegate", "delegating")
  /\ delegated' = "sent"
  /\ UNCHANGED <<lookedAt, running, cast>>

(* and comes back with its result, whose code is not looked at.             *)
Delegated ==
  /\ Goes("delegating", "pause")
  /\ delegated # "sent"
  /\ UNCHANGED <<lookedAt, delegated, running, cast>>

(* docker pause: the vote for the next block may have been sent already.    *)
Pause ==
  /\ Goes("pause", "paused")
  /\ running' = FALSE /\ cast' \in BOOLEAN
  /\ UNCHANGED <<lookedAt, delegated>>

(* waitBlocks(missedBlocks) reads the height to count from, *)
BeginWait ==
  /\ Goes("paused", "waiting")
  /\ UNCHANGED <<lookedAt, delegated, running, cast>>

(* a slip: one block less is waited for *)
UnpauseEarly ==
  /\ blocks + 1 >= missedBlocks
  /\ Goes("waiting", "settling")
  /\ running' = TRUE
  /\ UNCHANGED <<lookedAt, delegated, cast>>

(* and returns; the container is unpaused. *)
Unpause ==
  /\ blocks >= missedBlocks
  /\ Goes("waiting", "settling")
  /\ running' = TRUE
  /\ UNCHANGED <<lookedAt, delegated, cast>>

(* waitBlocks(2) returned; the status is read. *)
Return ==
  /\ blocks >= 2
  /\ Goes("settling", "returned")
  /\ UNCHANGED <<lookedAt, delegated, running, cast>>

(* A query or the broadcast rejects, the alternative validator is not       *)
(* bonded, docker fails, or a wait times out: the container is left as it   *)
(* is.                                                                      *)
Throws ==
  /\ pc \notin Ended /\ Goes(pc, "thrown")
  /\ UNCHANGED <<lookedAt, delegated, running, cast>>

Helper ==
  Look \/ Delegate \/ Delegated \/ Pause \/ BeginWait \/ Unpause \/ Return \/ Throws

-------------------------------------------------------------------------------
(* The votes that the next block can get. *)
HasQuorum ==
  LET voting == set[1] + IF running \/ cast THEN set[2] ELSE 0
  IN  3 * voting > 2 * (set[1] + set[2])

Awaited ==
  CASE pc = "waiting" -> missedBlocks [] pc = "settling" -> 2 [] OTHER -> 0

(* What the block does with the delegation: it is executed, it fails, or it *)
(* is not in this block.                                                    *)
Execute ==
  \/ delegated = "sent" /\ delegated' = "yes"
     /\ alternative' = alternative + Lacking
  \/ delegated = "sent" /\ delegated' = "failed" /\ UNCHANGED alternative
  \/ UNCHANGED <<delegated, alternative>>

(* A validator whose container runs votes; after the pause it has to catch  *)
(* up first.                                                                *)
Votes == IF ~ running THEN {cast} ELSE IF pc = "settling" THEN BOOLEAN ELSE {TRUE}

Block ==
  /\ pc \in {"delegating", "pause", "paused", "waiting", "settling"}
  /\ blocks < Awaited + MaxIdle          \* bound
  /\ HasQuorum
  /\ blocks' = blocks + 1
  /\ missed' = missed + IF jailed \/ votedLast THEN 0 ELSE 1
  /\ jailed' = (jailed \/ missed' > maxMissed)
  /\ Execute
  /\ set' = nextSet /\ nextSet' = <<alternative', IF jailed' THEN 0 ELSE second>>
  /\ votedLast' \in Votes /\ cast' = FALSE
  /\ UNCHANGED <<pc, call, second, lookedAt, running>>

Next == Helper \/ Block

Spec == Init /\ [][Next]_vars

-------------------------------------------------------------------------------
(* The variables have their types. *)
TypeOK ==
  /\ pc \in {"look", "delegate", "delegating", "pause", "paused", "waiting",
             "settling"} \union Ended
  /\ missedBlocks \in Nat /\ maxMissed \in Nat
  /\ alternative \in Nat /\ second \in Nat
  /\ alternativeValidatorPower \in Nat /\ totalBondedTokens \in Nat
  /\ delegated \in {"no", "sent", "yes", "failed"}
  /\ set \in Nat \X Nat /\ nextSet \in Nat \X Nat
  /\ running \in BOOLEAN /\ votedLast \in BOOLEAN /\ cast \in BOOLEAN
  /\ jailed \in BOOLEAN /\ missed \in Nat /\ blocks \in Nat

(* A call that returns with the validator not jailed has made it miss all   *)
(* the blocks it asked for but one, and they were not enough: whatever      *)
(* votes were on their way when the container was paused and unpaused, a    *)
(* call that asks for two blocks more than may be missed jails it.          *)
Jailed ==
  pc = "returned" /\ ~ jailed => missedBlocks <= missed + 1 /\ missed <= maxMissed

(* The power after the delegation is that of the next block's voters. *)
InForce == set[1] = alternative

(* While the container is paused the alternative validator can make blocks  *)
(* if it was found with more than 2/3 of the tokens, or if it was found     *)
(* with more than 66% and the delegation is in force: 68% of the total      *)
(* before the delegation are then more than 2/3 of the total after it.      *)
QuorumKept ==
  /\ pc \in {"paused", "waiting"}
  /\ \/ 3 * alternativeValidatorPower > 2 * totalBondedTokens
     \/ /\ delegated = "yes" /\ InForce
        /\ 100 * alternativeValidatorPower > 66 * totalBondedTokens
  => HasQuorum

(* "Ensure the validator is jailed before proceeding": the test goes on     *)
(* only with a jailed validator, and the call is made to jail it.           *)
JailedByTheCall == pc = "returned" => jailed

(* "Check if the network has enough voting power to continue producing      *)
(* blocks": what is delegated is for the others to make blocks throughout   *)
(* the pause.                                                               *)
EnoughVotingPower == pc \in {"paused", "waiting"} /\ delegated = "yes" => HasQuorum
===============================================================================
