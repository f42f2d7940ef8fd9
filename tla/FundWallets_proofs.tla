--------------------------- MODULE FundWallets_proofs ---------------------------
(***************************************************************************)
(* For any calls, retries, genesis amounts and number of runs: setup that   *)
(* succeeds has funded every wallet in its own run, and it fails for lack   *)
(* of funds only when the retries could have spent the genesis amount.  The *)
(* argument counts what was tried: of a call, every send that was executed  *)
(* or is pending is one attempt, and the attempts are bounded.              *)
(***************************************************************************)
EXTENDS FundWallets, TLAPS

(* An attempt is made only while there are attempts left.                   *)
AttemptsLeft ==
  pc \in {"accounts", "connect", "broadcast", "polling", "getTx"} => retries < MaxRetries

Pending(h) == mempool[h] # <<>>
Oldest(h) == Head(mempool[h])

(* What is pending was sent to this chain, and of this run it is the send   *)
(* of the present call, whose outcome is open.                              *)
PendingKnown ==
  \A h \in Chain :
    Pending(h) =>
      /\ Call[Oldest(h).call].chain = h
      /\ Oldest(h).run <= run
      /\ Oldest(h).run = run => Oldest(h).call = call /\ result = "none"

(* A good outcome is that of a send of the present call, once it is polled. *)
OutcomeCounted ==
  pc \in {"polling", "getTx"} /\ result = "ok" => sent[Call[call].denom] >= 1

(* The attempts of this run to send call c.                                 *)
Tried ==
  CASE pc \in {"accounts", "connect", "no_accounts", "no_connection"} -> 0
    [] pc = "broadcast" -> retries
    [] pc \in {"polling", "getTx"} -> retries + 1
    [] OTHER -> MaxRetries

Attempts(c) == IF c < call THEN MaxRetries ELSE IF c = call THEN Tried ELSE 0

PendingOf(c) ==
  IF Pending(Call[c].chain) /\ Oldest(Call[c].chain).call = c THEN 1 ELSE 0

(* What is missing of a denom was spent by k sends, each of them an attempt *)
(* of a run on this chain, as is the pending one.                           *)
Spent ==
  \A c \in Calls : \E k \in Nat :
    /\ balance[Call[c].denom] = Genesis[Call[c].denom] - k * Call[c].units
    /\ k + PendingOf(c) <= (runsOnChain - 1) * MaxRetries + Attempts(c)

FInv ==
  /\ TypeOK
  /\ AttemptsLeft
  /\ PendingKnown
  /\ OutcomeCounted
  /\ Spent
  /\ FundedOnSuccess
  /\ EnoughFunds

-------------------------------------------------------------------------------
(* More of the same take more.                                              *)
LEMMA Multiples ==
  ASSUME NEW a \in Nat, NEW b \in Nat, NEW u \in Nat, a <= b
  PROVE  a * u \in Nat /\ b * u \in Nat /\ a * u <= b * u
<1> DEFINE d == b - a
<1>1. d \in Nat /\ b = a + d
  OBVIOUS
<1>2. b * u = a * u + d * u
  BY <1>1
<1>3. a * u \in Nat /\ d * u \in Nat
  BY <1>1
<1>. QED  BY <1>2, <1>3

LEMMA OneMore ==
  ASSUME NEW a \in Nat, NEW u \in Nat
  PROVE  (a + 1) * u = a * u + u
OBVIOUS

LEMMA Entries ==
  ASSUME NEW S, NEW s \in Seq(S), NEW c \in DOMAIN s
  PROVE  s[c] \in S /\ c \in 1 .. Len(s) /\ Len(s) \in Nat
OBVIOUS

(* What is known of a call.                                                 *)
LEMMA CallTypes ==
  ASSUME NEW c \in Calls
  PROVE  /\ Call[c].chain \in Chain
         /\ Call[c].denom \in Denom
         /\ Call[c].units \in Nat
         /\ Genesis[Call[c].denom] \in Nat
         /\ c \in Nat /\ 1 <= c /\ c <= Len(Call) /\ Len(Call) \in Nat
<1>1. c \in DOMAIN Call /\ Call[c] \in [chain : STRING, denom : STRING, units : Nat]
  BY CallAssumption, Entries DEF Calls
<1>2. Call[c].denom \in Denom /\ Call[c].chain \in Chain
  BY DEF Denom, Chain
<1>3. c \in 1 .. Len(Call) /\ Len(Call) \in Nat
  BY <1>1, CallAssumption, Entries
<1>. QED  BY <1>1, <1>2, <1>3, GenesisAssumption

LEMMA EveryDenom ==
  ASSUME NEW d \in Denom
  PROVE  \E c \in Calls : d = Call[c].denom
BY DEF Denom

(* What the types say of a pending send.                                    *)
LEMMA PendingTypes ==
  ASSUME TypeOK, NEW h \in Chain, Pending(h)
  PROVE  /\ mempool[h] = <<Oldest(h)>>
         /\ Oldest(h) \in Tx
         /\ Oldest(h).run \in Nat
         /\ Oldest(h).call \in Calls
         /\ Tail(mempool[h]) = <<>>
<1>1. PICK tx \in Tx : mempool[h] = <<tx>>
  BY DEF TypeOK, Pending
<1>. QED  BY <1>1 DEF Oldest, Tx

LEMMA TriedBound ==
  ASSUME TypeOK, AttemptsLeft
  PROVE  Tried \in 0 .. MaxRetries /\ retries \in Nat /\ MaxRetries \in Nat
BY CountsAssumption DEF TypeOK, AttemptsLeft, Tried, PC

LEMMA AttemptsBound ==
  ASSUME TypeOK, AttemptsLeft, NEW c \in Calls
  PROVE  Attempts(c) \in 0 .. MaxRetries
BY TriedBound, CountsAssumption DEF Attempts

LEMMA InitFInv == Init => FInv
<1> SUFFICES ASSUME Init
             PROVE  FInv
  OBVIOUS
<1>1. 1 \in Calls
  BY CallAssumption DEF Calls
<1>2. TypeOK
  BY <1>1, CountsAssumption, GenesisAssumption DEF Init, TypeOK, PC, Result
<1>3. AttemptsLeft /\ OutcomeCounted /\ EnoughFunds
  BY CountsAssumption DEF Init, AttemptsLeft, OutcomeCounted, EnoughFunds
<1>4. PendingKnown
  BY DEF Init, PendingKnown, Pending
<1>5. Spent
  <2> SUFFICES ASSUME NEW c \in Calls
               PROVE  /\ balance[Call[c].denom] = Genesis[Call[c].denom] - 0 * Call[c].units
                      /\ 0 + PendingOf(c) <= (runsOnChain - 1) * MaxRetries + Attempts(c)
    BY DEF Spent
  <2>1. Attempts(c) = 0 /\ PendingOf(c) = 0
    BY CallTypes DEF Init, Attempts, Tried, PendingOf, Pending
  <2>. QED  BY <2>1, CallTypes, CountsAssumption DEF Init
<1>6. FundedOnSuccess
  BY CallTypes DEF Init, FundedOnSuccess
<1>. QED  BY <1>2, <1>3, <1>4, <1>5, <1>6 DEF FInv

-------------------------------------------------------------------------------
(* A step that spends nothing and makes as many attempts as it leaves       *)
(* pending keeps the account of what was spent.                             *)
LEMMA SpentKept ==
  ASSUME FInv, balance' = balance, runsOnChain' = runsOnChain,
         \A c \in Calls :
           /\ Attempts(c)' \in Nat
           /\ \/ /\ PendingOf(c)' = PendingOf(c)
                 /\ Attempts(c) <= Attempts(c)'
              \/ /\ PendingOf(c) = 0
                 /\ Attempts(c) + 1 <= Attempts(c)'
  PROVE  Spent'
<1> SUFFICES ASSUME NEW c \in Calls
             PROVE  \E k \in Nat :
               /\ balance[Call[c].denom] = Genesis[Call[c].denom] - k * Call[c].units
               /\ k + PendingOf(c)' <= (runsOnChain - 1) * MaxRetries + Attempts(c)'
  BY DEF Spent, Calls
<1>1. PICK k \in Nat :
        /\ balance[Call[c].denom] = Genesis[Call[c].denom] - k * Call[c].units
        /\ k + PendingOf(c) <= (runsOnChain - 1) * MaxRetries + Attempts(c)
  BY DEF FInv, Spent
<1> DEFINE before == (runsOnChain - 1) * MaxRetries
<1>2. before \in Nat
  BY CountsAssumption DEF FInv, TypeOK
<1>3. Attempts(c) \in Nat /\ Attempts(c)' \in Nat
  BY AttemptsBound, CountsAssumption DEF FInv
<1>4. PendingOf(c) \in {0, 1} /\ PendingOf(c)' \in {0, 1}
  BY DEF PendingOf
<1> HIDE DEF before
<1>5. k + PendingOf(c) <= before + Attempts(c)
  BY <1>1 DEF before
<1>6. k + PendingOf(c)' <= before + Attempts(c)'
  BY <1>2, <1>3, <1>4, <1>5
<1>. QED  BY <1>1, <1>6 DEF before

(* A step of fundWallets() that leaves the chain alone and the call too.    *)
LEMMA SameCall ==
  ASSUME FInv, UNCHANGED <<call, run, runsOnChain, mempool, balance, sent, result>>,
         TypeOK', AttemptsLeft', Tried <= Tried',
         pc' \in {"polling", "getTx"} => pc \in {"polling", "getTx"},
         pc' # "done"
  PROVE  FInv'
<1>1. PendingKnown' /\ OutcomeCounted' /\ FundedOnSuccess' /\ EnoughFunds'
  BY DEF FInv, PendingKnown, Pending, Oldest, OutcomeCounted, FundedOnSuccess, EnoughFunds
<1>2. Tried \in Nat /\ Tried' \in Nat /\ MaxRetries \in Nat
  BY TriedBound DEF FInv, TypeOK, AttemptsLeft, Tried
<1>3. \A c \in Calls : /\ Attempts(c)' \in Nat
                       /\ PendingOf(c)' = PendingOf(c)
                       /\ Attempts(c) <= Attempts(c)'
  BY <1>2 DEF Attempts, PendingOf, Pending, Oldest
<1>4. Spent'
  BY <1>3, SpentKept
<1>. QED  BY <1>1, <1>4 DEF FInv

LEMMA GetAccountsFInv ==
  ASSUME FInv, GetAccounts
  PROVE  FInv'
<1>1. /\ UNCHANGED <<call, run, runsOnChain, mempool, balance, sent, result>>
      /\ pc = "accounts" /\ pc' \in {"accounts", "no_accounts"}
      /\ retries < MaxRetries /\ retries \in Nat /\ MaxRetries \in Nat
  BY CountsAssumption DEF FInv, TypeOK, AttemptsLeft, GetAccounts, Retry, runs, chainVars
<1>2. /\ wallet' \in 0 .. Wallet
      /\ retries' \in 0 .. MaxRetries
      /\ pc' = "accounts" => retries' < MaxRetries
  BY <1>1, CountsAssumption DEF FInv, TypeOK, GetAccounts, Retry
<1>3. TypeOK' /\ AttemptsLeft'
  BY <1>1, <1>2 DEF FInv, TypeOK, AttemptsLeft, PC, Tx, Calls, Chain, Denom
<1>4. Tried = 0 /\ Tried' = 0
  BY <1>1 DEF Tried
<1>. QED  BY <1>1, <1>3, <1>4, SameCall

LEMMA ConnectFInv ==
  ASSUME FInv, Connect
  PROVE  FInv'
<1>1. /\ UNCHANGED <<call, wallet, run, runsOnChain, mempool, balance, sent, result>>
      /\ pc \in {"accounts", "connect"}
      /\ pc' \in {"connect", "broadcast", "no_connection"}
      /\ retries < MaxRetries /\ retries \in Nat /\ MaxRetries \in Nat \ {0}
  BY CountsAssumption DEF FInv, TypeOK, AttemptsLeft, Connect, Retry, runs, chainVars
<1>2. /\ retries' \in 0 .. MaxRetries
      /\ pc' \in {"connect", "broadcast"} => retries' < MaxRetries
      /\ pc' = "broadcast" => retries' = 0
  BY <1>1 DEF Connect, Retry
<1>3. TypeOK' /\ AttemptsLeft'
  BY <1>1, <1>2 DEF FInv, TypeOK, AttemptsLeft, PC, Tx, Calls, Chain, Denom
<1>4. Tried = 0 /\ Tried' = 0
  BY <1>1, <1>2 DEF Tried
<1>. QED  BY <1>1, <1>3, <1>4, SameCall

(* PollThrows and PollSees leave the chain alone, and so does a broadcast   *)
(* that throws before the chain has the send.                               *)
LEMMA PollFInv ==
  ASSUME FInv,
         UNCHANGED <<call, wallet, run, runsOnChain, mempool, balance, sent, result>>,
         \/ /\ pc \in {"broadcast", "polling"}
            /\ Retry("broadcast", "no_broadcast")
         \/ /\ pc = "polling"
            /\ pc' = "getTx"
            /\ retries' = retries
  PROVE  FInv'
<1>1. /\ retries < MaxRetries /\ retries \in Nat /\ MaxRetries \in Nat
      /\ pc' \in {"broadcast", "no_broadcast", "getTx"}
  BY CountsAssumption DEF FInv, TypeOK, AttemptsLeft, Retry
<1>2. /\ retries' \in 0 .. MaxRetries
      /\ pc' \in {"broadcast", "getTx"} => retries' < MaxRetries
  BY <1>1 DEF Retry
<1>3. TypeOK' /\ AttemptsLeft'
  BY <1>1, <1>2 DEF FInv, TypeOK, AttemptsLeft, PC, Tx, Calls, Chain, Denom
<1>4. Tried <= Tried'
  <2>1. CASE pc = "broadcast" /\ Retry("broadcast", "no_broadcast")
    <3>1. /\ Tried = retries /\ retries' = retries + 1
          /\ Tried' = retries + 1 \/ Tried' = MaxRetries
      BY <2>1 DEF Tried, Retry
    <3>. QED  BY <1>1, <3>1
  <2>2. CASE pc = "polling" /\ Retry("broadcast", "no_broadcast")
    <3>1. /\ Tried = retries + 1 /\ retries' = retries + 1
          /\ Tried' = retries + 1 \/ Tried' = MaxRetries
      BY <2>2 DEF Tried, Retry
    <3>. QED  BY <1>1, <3>1
  <2>3. CASE pc = "polling" /\ pc' = "getTx" /\ retries' = retries
    BY <1>1, <2>3 DEF Tried
  <2>. QED  BY <2>1, <2>2, <2>3
<1>5. /\ pc' \in {"polling", "getTx"} => pc \in {"polling", "getTx"}
      /\ pc' # "done"
  BY <1>1 DEF Retry
<1>. QED  BY <1>3, <1>4, <1>5, SameCall

(* The chain takes the send of an attempt.                                  *)
LEMMA AcceptFInv ==
  ASSUME FInv, pc = "broadcast", Accept,
         UNCHANGED <<call, wallet, run, runsOnChain, balance, sent>>,
         \/ pc' = "polling" /\ retries' = retries
         \/ Retry("broadcast", "no_broadcast")
  PROVE  FInv'
<1>1. /\ retries < MaxRetries /\ retries \in Nat /\ MaxRetries \in Nat
      /\ pc' \in {"broadcast", "no_broadcast", "polling"}
      /\ call \in Calls /\ ThisChain \in Chain /\ ThisChain = Call[call].chain
      /\ run \in 1 .. MaxRuns
  BY CountsAssumption, CallTypes DEF FInv, TypeOK, AttemptsLeft, Retry, ThisChain
<1> DEFINE tx == [run |-> run, call |-> call]
<1>2. /\ mempool[ThisChain] = <<>>
      /\ mempool' = [mempool EXCEPT ![ThisChain] = <<tx>>]
      /\ result' = "none"
      /\ tx \in Tx
  BY <1>1 DEF Accept, Tx
<1>3. /\ mempool'[ThisChain] = <<tx>>
      /\ \A h \in Chain : h # ThisChain => mempool'[h] = mempool[h]
      /\ mempool' \in [Chain -> {<<>>} \union {<<t>> : t \in Tx}]
  BY <1>1, <1>2 DEF FInv, TypeOK
<1>4. /\ retries' \in 0 .. MaxRetries
      /\ pc' \in {"broadcast", "polling"} => retries' < MaxRetries
  BY <1>1 DEF Retry
<1>5. TypeOK' /\ AttemptsLeft'
  BY <1>1, <1>2, <1>3, <1>4
     DEF FInv, TypeOK, AttemptsLeft, PC, Result, Tx, Calls, Chain, Denom
<1>6. PendingKnown'
  <2> SUFFICES ASSUME NEW h \in Chain, mempool'[h] # <<>>
               PROVE  /\ Call[Head(mempool'[h]).call].chain = h
                      /\ Head(mempool'[h]).run <= run
                      /\ Head(mempool'[h]).run = run =>
                           Head(mempool'[h]).call = call /\ result' = "none"
    BY DEF PendingKnown, Pending, Oldest, Chain, Calls
  <2>1. CASE h = ThisChain
    BY <1>1, <1>2, <1>3, <2>1
  <2>2. CASE h # ThisChain
    BY <1>2, <1>3, <2>2 DEF FInv, PendingKnown, Pending, Oldest
  <2>. QED  BY <2>1, <2>2
<1>7. OutcomeCounted' /\ FundedOnSuccess' /\ EnoughFunds'
  BY <1>1, <1>2 DEF FInv, OutcomeCounted, FundedOnSuccess, EnoughFunds
<1>8. Tried' >= Tried + 1 /\ Tried \in Nat /\ Tried' \in Nat
  BY <1>1, <1>4 DEF Tried, Retry
<1>9. ASSUME NEW c \in Calls
      PROVE  /\ Attempts(c)' \in Nat
             /\ \/ /\ PendingOf(c)' = PendingOf(c)
                   /\ Attempts(c) <= Attempts(c)'
                \/ /\ PendingOf(c) = 0
                   /\ Attempts(c) + 1 <= Attempts(c)'
  <2>1. /\ Attempts(c)' \in Nat
        /\ Attempts(c) <= Attempts(c)'
        /\ c = call => Attempts(c) + 1 <= Attempts(c)'
    BY <1>1, <1>8, CallTypes DEF Attempts
  <2>2. CASE c = call
    BY <1>1, <1>2, <2>1, <2>2 DEF PendingOf, Pending
  <2>3. CASE c # call
    <3>1. Call[c].chain \in Chain
      BY CallTypes
    <3>2. CASE Call[c].chain = ThisChain
      BY <1>2, <1>3, <2>1, <2>3, <3>2 DEF PendingOf, Pending, Oldest
    <3>3. CASE Call[c].chain # ThisChain
      BY <1>3, <2>1, <3>1, <3>3 DEF PendingOf, Pending, Oldest
    <3>. QED  BY <3>2, <3>3
  <2>. QED  BY <2>2, <2>3
<1>10. Spent'
  BY <1>9, SpentKept
<1>. QED  BY <1>5, <1>6, <1>7, <1>10 DEF FInv

LEMMA BroadcastFInv ==
  ASSUME FInv, Broadcast \/ BroadcastThrows \/ PollThrows \/ PollSees
  PROVE  FInv'
<1>1. CASE Broadcast
  BY <1>1, AcceptFInv DEF Broadcast, runs
<1>2. CASE BroadcastThrows
  <2>1. CASE Accept
    BY <1>2, <2>1, AcceptFInv DEF BroadcastThrows, runs
  <2>2. CASE UNCHANGED <<mempool, result>>
    BY <1>2, <2>2, PollFInv DEF BroadcastThrows, runs
  <2>. QED  BY <1>2, <2>1, <2>2 DEF BroadcastThrows
<1>3. CASE PollThrows \/ PollSees
  BY <1>3, PollFInv DEF PollThrows, PollSees, runs, chainVars
<1>. QED  BY <1>1, <1>2, <1>3

-------------------------------------------------------------------------------
(* getTx ends the call: it was funded, and the next one begins; or setup    *)
(* stops.                                                                   *)
LEMMA GetTxFInv ==
  ASSUME FInv, GetTx
  PROVE  FInv'
<1>1. /\ pc = "getTx"
      /\ UNCHANGED <<run, runsOnChain, mempool, balance, sent, result>>
      /\ call \in Calls /\ call \in Nat /\ call <= Len(Call) /\ Len(Call) \in Nat
      /\ retries \in 0 .. MaxRetries /\ retries < MaxRetries
      /\ wallet \in 0 .. Wallet
      /\ MaxRetries \in Nat \ {0} /\ Wallet \in Nat
  BY CountsAssumption, CallTypes
     DEF FInv, TypeOK, AttemptsLeft, GetTx, runs, chainVars
<1>2. Tried = retries + 1 /\ Tried <= MaxRetries
  BY <1>1 DEF Tried
<1>3. CASE /\ pc' \in {"bad_code", "no_tx"}
           /\ UNCHANGED <<call, wallet, retries>>
  <2>1. TypeOK' /\ AttemptsLeft'
    BY <1>1, <1>3 DEF FInv, TypeOK, AttemptsLeft, PC, Tx, Calls, Chain, Denom
  <2>2. Tried' = MaxRetries
    BY <1>3 DEF Tried
  <2>. QED  BY <1>1, <1>2, <1>3, <2>1, <2>2, SameCall
<1>4. CASE result = "ok" /\ NextCall
  <2>1. sent[Call[call].denom] >= 1
    BY <1>1, <1>4 DEF FInv, OutcomeCounted
  <2>2. CASE /\ call < Len(Call) /\ call' = call + 1
             /\ pc' = "accounts" /\ wallet' = 0 /\ retries' = 0
    <3>1. call' \in Calls
      BY <1>1, <2>2, CallAssumption DEF Calls
    <3>2. TypeOK' /\ AttemptsLeft'
      BY <1>1, <2>2, <3>1 DEF FInv, TypeOK, AttemptsLeft, PC, Tx, Calls, Chain, Denom
    <3>3. PendingKnown'
      BY <1>1, <1>4 DEF FInv, PendingKnown, Pending, Oldest, Chain
    <3>4. OutcomeCounted' /\ EnoughFunds'
      BY <1>1, <1>4, <2>2 DEF OutcomeCounted, EnoughFunds
    <3>5. FundedOnSuccess'
      <4>1. \A c \in Calls : c < call + 1 => c < call \/ c = call
        BY <1>1, CallTypes
      <4>. QED  BY <1>1, <2>1, <2>2, <4>1 DEF FInv, FundedOnSuccess, Calls
    <3>6. Tried' = 0
      BY <2>2 DEF Tried
    <3>7. \A c \in Calls : /\ Attempts(c)' \in Nat
                           /\ PendingOf(c)' = PendingOf(c)
                           /\ Attempts(c) <= Attempts(c)'
      <4> SUFFICES ASSUME NEW c \in Calls
                   PROVE  /\ Attempts(c)' \in Nat
                          /\ PendingOf(c)' = PendingOf(c)
                          /\ Attempts(c) <= Attempts(c)'
        OBVIOUS
      <4>1. PendingOf(c)' = PendingOf(c)
        BY <1>1 DEF PendingOf, Pending, Oldest
      <4>2. /\ Attempts(c) = IF c < call THEN MaxRetries ELSE IF c = call THEN Tried ELSE 0
            /\ Attempts(c)' = IF c < call + 1 THEN MaxRetries
                              ELSE IF c = call + 1 THEN 0 ELSE 0
        BY <2>2, <3>6 DEF Attempts
      <4>3. c \in Nat /\ Tried \in Nat
        BY <1>1, <1>2, CallTypes
      <4>. QED  BY <1>1, <1>2, <4>1, <4>2, <4>3
    <3>8. Spent'
      BY <1>1, <3>7, SpentKept
    <3>. QED  BY <3>2, <3>3, <3>4, <3>5, <3>8 DEF FInv
  <2>3. CASE /\ call >= Len(Call) /\ pc' = "done"
             /\ UNCHANGED <<call, wallet, retries>>
    <3>1. call = Len(Call)
      BY <1>1, <2>3
    <3>2. TypeOK' /\ AttemptsLeft'
      BY <1>1, <2>3 DEF FInv, TypeOK, AttemptsLeft, PC, Tx, Calls, Chain, Denom
    <3>3. PendingKnown' /\ OutcomeCounted' /\ EnoughFunds'
      BY <1>1, <1>4, <2>3
         DEF FInv, PendingKnown, Pending, Oldest, OutcomeCounted, EnoughFunds
    <3>4. FundedOnSuccess'
      <4>1. \A c \in Calls : sent[Call[c].denom] >= 1
        <5> SUFFICES ASSUME NEW c \in Calls
                     PROVE  sent[Call[c].denom] >= 1
          OBVIOUS
        <5>1. c < call \/ c = call
          BY <1>1, <3>1, CallTypes
        <5>. QED  BY <2>1, <5>1 DEF FInv, FundedOnSuccess
      <4>2. \A d \in Denom : sent[d] >= 1
        BY <4>1, EveryDenom
      <4>. QED  BY <1>1, <4>1, <4>2 DEF FundedOnSuccess, Calls, Denom
    <3>5. Tried' = MaxRetries
      BY <2>3 DEF Tried
    <3>6. \A c \in Calls : /\ Attempts(c)' \in Nat
                           /\ PendingOf(c)' = PendingOf(c)
                           /\ Attempts(c) <= Attempts(c)'
      BY <1>1, <1>2, <2>3, <3>5, CallTypes DEF Attempts, PendingOf, Pending, Oldest
    <3>7. Spent'
      BY <1>1, <3>6, SpentKept
    <3>. QED  BY <3>2, <3>3, <3>4, <3>7 DEF FInv
  <2>. QED  BY <1>1, <1>4, <2>2, <2>3 DEF NextCall
<1>. QED  BY <1>3, <1>4 DEF GetTx

-------------------------------------------------------------------------------
(* Global setup starts again, on the chain there was or on a new one.       *)
LEMMA RerunFInv ==
  ASSUME FInv, Rerun
  PROVE  FInv'
<1>1. /\ run' = run + 1 /\ run \in 1 .. MaxRuns /\ run < MaxRuns
      /\ pc' = "accounts" /\ call' = 1 /\ wallet' = 0 /\ retries' = 0
      /\ sent' = [d \in Denom |-> 0] /\ result' = "none"
      /\ MaxRuns \in Nat /\ MaxRetries \in Nat \ {0} /\ Wallet \in Nat
      /\ runsOnChain \in 1 .. run
      /\ SameChain \/ NewChain
  BY CountsAssumption DEF FInv, TypeOK, Rerun
<1>2. 1 \in Calls
  BY CallAssumption DEF Calls
<1>3. TypeOK'
  <2>1. /\ runsOnChain' \in 1 .. run'
        /\ mempool' \in [Chain -> {<<>>} \union {<<t>> : t \in Tx}]
        /\ balance' \in [Denom -> Nat]
    BY <1>1, GenesisAssumption DEF FInv, TypeOK, SameChain, NewChain
  <2>. QED  BY <1>1, <1>2, <2>1 DEF TypeOK, PC, Result, Tx, Calls, Chain, Denom
<1>4. AttemptsLeft' /\ OutcomeCounted' /\ EnoughFunds'
  BY <1>1 DEF AttemptsLeft, OutcomeCounted, EnoughFunds
<1>5. PendingKnown'
  <2> SUFFICES ASSUME NEW h \in Chain, mempool'[h] # <<>>
               PROVE  /\ Call[Head(mempool'[h]).call].chain = h
                      /\ Head(mempool'[h]).run <= run'
                      /\ Head(mempool'[h]).run # run'
    BY DEF PendingKnown, Pending, Oldest, Chain
  <2>1. CASE NewChain
    BY <2>1 DEF NewChain
  <2>2. CASE SameChain
    <3>1. mempool' = mempool /\ Pending(h)
      BY <2>2 DEF SameChain, Pending
    <3>2. /\ Call[Oldest(h).call].chain = h
          /\ Oldest(h).run <= run /\ Oldest(h).run \in Nat
      BY <3>1, PendingTypes DEF FInv, PendingKnown
    <3>. QED  BY <1>1, <3>1, <3>2 DEF Oldest
  <2>. QED  BY <1>1, <2>1, <2>2
<1>6. Spent'
  <2> SUFFICES ASSUME NEW c \in Calls
               PROVE  \E k \in Nat :
                 /\ balance'[Call[c].denom] = Genesis[Call[c].denom] - k * Call[c].units
                 /\ k + PendingOf(c)' <= (runsOnChain' - 1) * MaxRetries + Attempts(c)'
    BY DEF Spent, Calls
  <2>1. Attempts(c)' = 0
    BY <1>1, CallTypes DEF Attempts, Tried
  <2>2. CASE NewChain
    <3>1. PendingOf(c)' = 0 /\ balance' = Genesis /\ runsOnChain' = 1
      BY <2>2, CallTypes DEF NewChain, PendingOf, Pending
    <3>2. /\ balance'[Call[c].denom] = Genesis[Call[c].denom] - 0 * Call[c].units
          /\ 0 + PendingOf(c)' <= (runsOnChain' - 1) * MaxRetries + Attempts(c)'
      BY <1>1, <2>1, <3>1, CallTypes
    <3>. QED  BY <3>2
  <2>3. CASE SameChain
    <3>1. PICK k \in Nat :
            /\ balance[Call[c].denom] = Genesis[Call[c].denom] - k * Call[c].units
            /\ k + PendingOf(c) <= (runsOnChain - 1) * MaxRetries + Attempts(c)
      BY DEF FInv, Spent
    <3>2. /\ balance' = balance /\ runsOnChain' = runsOnChain + 1
          /\ PendingOf(c)' = PendingOf(c)
      BY <2>3 DEF SameChain, PendingOf, Pending, Oldest
    <3>3. Attempts(c) \in 0 .. MaxRetries /\ PendingOf(c) \in {0, 1}
      BY AttemptsBound DEF FInv, PendingOf
    <3>4. /\ (runsOnChain' - 1) * MaxRetries = (runsOnChain - 1) * MaxRetries + MaxRetries
          /\ (runsOnChain - 1) * MaxRetries \in Nat
      BY <1>1, <3>2
    <3>. QED  BY <1>1, <2>1, <3>1, <3>2, <3>3, <3>4
  <2>. QED  BY <1>1, <2>2, <2>3
<1>7. FundedOnSuccess'
  BY <1>1, CallTypes DEF FundedOnSuccess, Calls
<1>. QED  BY <1>3, <1>4, <1>5, <1>6, <1>7 DEF FInv

-------------------------------------------------------------------------------
(* A block executes a pending send: an attempt turns from pending to spent, *)
(* or takes nothing.                                                        *)
LEMMA CommitFInv ==
  ASSUME FInv, NEW h \in Chain, Commit(h)
  PROVE  FInv'
<1> DEFINE tx == Head(mempool[h])
           d == Call[tx.call].denom
           units == Call[tx.call].units
<1>1. /\ UNCHANGED <<pc, call, wallet, retries, run, runsOnChain>>
      /\ Pending(h)
      /\ tx = Oldest(h) /\ tx.run \in Nat /\ tx.call \in Calls
      /\ d \in Denom /\ units \in Nat
      /\ mempool' = [mempool EXCEPT ![h] = <<>>]
      /\ Call[tx.call].chain = h
      /\ tx.run = run => tx.call = call /\ result = "none"
  BY PendingTypes, CallTypes
     DEF FInv, PendingKnown, Commit, clientVars, runs, Pending, Oldest
<1>2. PICK outcome \in {IF units <= balance[d] THEN "ok" ELSE "no_funds", "out_of_gas"} :
        /\ balance' = [balance EXCEPT ![d] = IF outcome = "ok" THEN @ - units ELSE @]
        /\ sent' = [sent EXCEPT ![d] = IF outcome = "ok" /\ tx.run = run THEN @ + 1 ELSE @]
        /\ result' = IF tx.run = run THEN outcome ELSE result
  BY DEF Commit
<1> HIDE DEF tx, d, units
<1>3. /\ balance \in [Denom -> Nat] /\ sent \in [Denom -> Nat]
      /\ mempool \in [Chain -> {<<>>} \union {<<t>> : t \in Tx}]
      /\ balance[d] \in Nat /\ sent[d] \in Nat
  BY <1>1 DEF FInv, TypeOK
<1>4. /\ outcome = "ok" => units <= balance[d] /\ balance'[d] = balance[d] - units
      /\ outcome # "ok" => balance' = balance
      /\ \A e \in Denom : e # d => balance'[e] = balance[e]
      /\ balance' \in [Denom -> Nat]
  <2>1. CASE outcome = "ok"
    <3>1. units <= balance[d] /\ balance[d] - units \in Nat
      BY <1>1, <1>2, <1>3, <2>1
    <3>. QED  BY <1>1, <1>2, <1>3, <2>1, <3>1
  <2>2. CASE outcome # "ok"
    BY <1>1, <1>2, <1>3, <2>2
  <2>. QED  BY <2>1, <2>2
<1>5. /\ sent' \in [Denom -> Nat]
      /\ \A e \in Denom : sent'[e] >= sent[e]
      /\ outcome = "ok" /\ tx.run = run => sent'[d] >= 1
  BY <1>1, <1>2, <1>3
<1>6. /\ mempool' \in [Chain -> {<<>>} \union {<<t>> : t \in Tx}]
      /\ mempool'[h] = <<>>
      /\ \A g \in Chain : g # h => mempool'[g] = mempool[g]
  BY <1>1, <1>3
<1>7. TypeOK' /\ AttemptsLeft'
  <2>1. result' \in Result
    BY <1>2 DEF FInv, TypeOK, Result
  <2>. QED  BY <1>1, <1>4, <1>5, <1>6, <2>1
            DEF FInv, TypeOK, AttemptsLeft, PC, Tx, Calls, Chain, Denom
<1>8. PendingKnown'
  <2> SUFFICES ASSUME NEW g \in Chain, mempool'[g] # <<>>
               PROVE  /\ Call[Head(mempool'[g]).call].chain = g
                      /\ Head(mempool'[g]).run <= run
                      /\ Head(mempool'[g]).run = run =>
                           Head(mempool'[g]).call = call /\ result' = "none"
    BY <1>1 DEF PendingKnown, Pending, Oldest, Chain
  <2>1. g # h /\ mempool'[g] = mempool[g] /\ Pending(g)
    BY <1>6 DEF Pending
  <2>2. /\ Call[Head(mempool[g]).call].chain = g
        /\ Head(mempool[g]).run <= run
        /\ Head(mempool[g]).run = run =>
             Head(mempool[g]).call = call /\ result = "none"
    BY <2>1 DEF FInv, PendingKnown, Oldest
  <2>3. Head(mempool[g]).run = run => tx.run # run
    BY <1>1, <2>1, <2>2
  <2>. QED  BY <1>2, <2>1, <2>2, <2>3
<1>9. call \in Calls /\ Call[call].denom \in Denom /\ sent[Call[call].denom] \in Nat
  BY <1>3, CallTypes DEF FInv, TypeOK
<1>10. OutcomeCounted'
  <2> SUFFICES ASSUME pc \in {"polling", "getTx"}, result' = "ok"
               PROVE  sent'[Call[call].denom] >= 1
    BY <1>1 DEF OutcomeCounted
  <2>1. CASE tx.run = run
    BY <1>1, <1>2, <1>5, <2>1 DEF d
  <2>2. CASE tx.run # run
    <3>1. sent[Call[call].denom] >= 1
      BY <1>2, <2>2 DEF FInv, OutcomeCounted
    <3>. QED  BY <1>5, <1>7, <1>9, <3>1 DEF TypeOK
  <2>. QED  BY <2>1, <2>2
<1>11. FundedOnSuccess'
  <2>1. \A e \in Denom : sent[e] >= 1 => sent'[e] >= 1
    BY <1>3, <1>5
  <2>. QED  BY <1>1, <2>1, CallTypes DEF FInv, FundedOnSuccess, Calls, Denom
<1>12. \A c \in Calls :
         /\ Attempts(c)' = Attempts(c)
         /\ c = tx.call => PendingOf(c) = 1 /\ PendingOf(c)' = 0
         /\ c # tx.call => PendingOf(c)' = PendingOf(c)
  <2> SUFFICES ASSUME NEW c \in Calls
               PROVE  /\ Attempts(c)' = Attempts(c)
                      /\ c = tx.call => PendingOf(c) = 1 /\ PendingOf(c)' = 0
                      /\ c # tx.call => PendingOf(c)' = PendingOf(c)
    OBVIOUS
  <2>1. Attempts(c)' = Attempts(c)
    BY <1>1 DEF Attempts, Tried
  <2>2. CASE c = tx.call
    BY <1>1, <1>6, <2>1, <2>2 DEF PendingOf, Pending
  <2>3. CASE c # tx.call
    <3>1. CASE Call[c].chain = h
      BY <1>1, <1>6, <2>1, <2>3, <3>1 DEF PendingOf, Pending
    <3>2. CASE Call[c].chain # h
      BY <1>6, <2>1, <2>3, <3>2, CallTypes DEF PendingOf, Pending, Oldest
    <3>. QED  BY <3>1, <3>2
  <2>. QED  BY <2>2, <2>3
<1>13. Spent'
  <2> SUFFICES ASSUME NEW c \in Calls
               PROVE  \E k \in Nat :
                 /\ balance'[Call[c].denom] = Genesis[Call[c].denom] - k * Call[c].units
                 /\ k + PendingOf(c)' <= (runsOnChain - 1) * MaxRetries + Attempts(c)'
    BY <1>1 DEF Spent, Calls
  <2>1. PICK k \in Nat :
          /\ balance[Call[c].denom] = Genesis[Call[c].denom] - k * Call[c].units
          /\ k + PendingOf(c) <= (runsOnChain - 1) * MaxRetries + Attempts(c)
    BY DEF FInv, Spent
  <2> DEFINE before == (runsOnChain - 1) * MaxRetries
  <2>2. before \in Nat /\ Attempts(c) \in Nat
    BY AttemptsBound, CountsAssumption DEF FInv, TypeOK
  <2>3. /\ Call[c].denom \in Denom /\ Call[c].units \in Nat
        /\ Genesis[Call[c].denom] \in Nat
    BY CallTypes
  <2> HIDE DEF before
  <2>4. k + PendingOf(c) <= before + Attempts(c)
    BY <2>1 DEF before
  <2>5. CASE c = tx.call
    <3>1. PendingOf(c) = 1 /\ PendingOf(c)' = 0 /\ Attempts(c)' = Attempts(c)
      BY <1>12, <2>5
    <3>2. CASE outcome = "ok"
      <4>1. balance'[Call[c].denom] = balance[Call[c].denom] - Call[c].units
        BY <1>4, <2>5, <3>2 DEF d, units
      <4>2. (k + 1) * Call[c].units = k * Call[c].units + Call[c].units
        BY <2>3, OneMore
      <4>3. k * Call[c].units \in Nat
        BY <2>3, Multiples
      <4>4. balance'[Call[c].denom] = Genesis[Call[c].denom] - (k + 1) * Call[c].units
        BY <2>1, <2>3, <4>1, <4>2, <4>3
      <4>5. (k + 1) + PendingOf(c)' <= before + Attempts(c)'
        BY <2>2, <2>4, <3>1
      <4>6. k + 1 \in Nat
        OBVIOUS
      <4>. QED  BY <4>4, <4>5, <4>6 DEF before
    <3>3. CASE outcome # "ok"
      <4>1. balance' = balance
        BY <1>4, <3>3
      <4>2. k + PendingOf(c)' <= before + Attempts(c)'
        BY <2>2, <2>4, <3>1
      <4>. QED  BY <2>1, <4>1, <4>2 DEF before
    <3>. QED  BY <3>2, <3>3
  <2>6. CASE c # tx.call
    <3>1. balance'[Call[c].denom] = balance[Call[c].denom]
      BY <1>1, <1>4, <2>3, <2>6, DenomAssumption DEF d
    <3>. QED  BY <1>12, <2>1, <2>6, <3>1
  <2>. QED  BY <2>5, <2>6
<1>14. EnoughFunds'
  <2> SUFFICES ASSUME result' = "no_funds"
               PROVE  runsOnChain * MaxRetries * Call[call].units
                        > Genesis[Call[call].denom]
    BY <1>1 DEF EnoughFunds
  <2>1. CASE tx.run # run
    BY <1>2, <2>1 DEF FInv, EnoughFunds
  <2>2. CASE tx.run = run
    <3>1. tx.call = call /\ ~ (units <= balance[d])
      BY <1>1, <1>2, <2>2
    <3>2. PICK k \in Nat :
            /\ balance[d] = Genesis[d] - k * units
            /\ k + PendingOf(call) <= (runsOnChain - 1) * MaxRetries + Attempts(call)
      BY <1>9, <3>1 DEF FInv, Spent, d, units
    <3>3. PendingOf(call) = 1
      BY <1>9, <1>12, <3>1
    <3>4. Attempts(call) \in 0 .. MaxRetries
      BY <1>9, AttemptsBound DEF FInv
    <3>5. /\ runsOnChain \in Nat \ {0} /\ MaxRetries \in Nat
          /\ (runsOnChain - 1) * MaxRetries \in Nat
          /\ runsOnChain * MaxRetries = (runsOnChain - 1) * MaxRetries + MaxRetries
      BY CountsAssumption DEF FInv, TypeOK
    <3> DEFINE most == runsOnChain * MaxRetries
    <3>6. most \in Nat /\ k + 1 \in Nat /\ k + 1 <= most
      BY <3>2, <3>3, <3>4, <3>5
    <3> HIDE DEF most
    <3>7. /\ (k + 1) * units <= most * units
          /\ (k + 1) * units \in Nat /\ most * units \in Nat
      BY <1>1, <3>6, Multiples
    <3>8. (k + 1) * units = k * units + units /\ k * units \in Nat
      BY <1>1, OneMore, Multiples
    <3>9. Genesis[d] \in Nat
      BY <1>1, CallTypes DEF d
    <3>10. most * units > Genesis[d]
      BY <1>1, <1>3, <3>1, <3>2, <3>7, <3>8, <3>9
    <3>. QED  BY <3>1, <3>10 DEF most, d, units
  <2>. QED  BY <2>1, <2>2
<1>. QED  BY <1>7, <1>8, <1>10, <1>11, <1>13, <1>14 DEF FInv

LEMMA NextFInv ==
  ASSUME FInv, [Next]_vars
  PROVE  FInv'
<1>1. CASE UNCHANGED vars
  <2>1. /\ UNCHANGED <<pc, call, wallet, retries, run, runsOnChain>>
        /\ UNCHANGED <<mempool, balance, sent, result>>
    BY <1>1 DEF vars, runs
  <2>2. TypeOK' /\ AttemptsLeft'
    BY <2>1 DEF FInv, TypeOK, AttemptsLeft, Tx, Calls, Chain, Denom
  <2>3. PendingKnown' /\ OutcomeCounted' /\ FundedOnSuccess' /\ EnoughFunds'
    BY <2>1 DEF FInv, PendingKnown, Pending, Oldest, OutcomeCounted, FundedOnSuccess,
                EnoughFunds, Calls, Chain, Denom
  <2>4. Spent'
    BY <2>1 DEF FInv, Spent, Attempts, Tried, PendingOf, Pending, Oldest, Calls
  <2>. QED  BY <2>2, <2>3, <2>4 DEF FInv
<1>2. CASE GetAccounts
  BY <1>2, GetAccountsFInv
<1>3. CASE Connect
  BY <1>3, ConnectFInv
<1>4. CASE Broadcast \/ BroadcastThrows \/ PollThrows \/ PollSees
  BY <1>4, BroadcastFInv
<1>5. CASE GetTx
  BY <1>5, GetTxFInv
<1>6. CASE Rerun
  BY <1>6, RerunFInv
<1>7. ASSUME NEW h \in Chain, Commit(h)
      PROVE  FInv'
  BY <1>7, CommitFInv
<1>. QED  BY <1>1, <1>2, <1>3, <1>4, <1>5, <1>6, <1>7 DEF Next, ClientNext

-------------------------------------------------------------------------------
(* The strengthening holds throughout.                                      *)
THEOREM Inductive == Spec => []FInv
<1>1. FInv /\ [Next]_vars => FInv'
  BY NextFInv
<1>. QED  BY InitFInv, <1>1, PTL DEF Spec

(* The variables of fundWallets() and of the chains keep their types: no     *)
(* loop tries more often than maxRetries.                                   *)
THEOREM TypeCorrect == Spec => []TypeOK
<1>1. FInv => TypeOK
  BY DEF FInv
<1>. QED  BY <1>1, Inductive, PTL

(* Setup that succeeds has funded every wallet in its own run, whatever was *)
(* lost, repeated or left pending by an earlier run.                        *)
THEOREM Funded == Spec => []FundedOnSuccess
<1>1. FInv => FundedOnSuccess
  BY DEF FInv
<1>. QED  BY <1>1, Inductive, PTL

(* The rich account runs out of a denom only when the retries of the runs   *)
(* on this chain could have spent all of it.                                *)
THEOREM Enough == Spec => []EnoughFunds
<1>1. FInv => EnoughFunds
  BY DEF FInv
<1>. QED  BY <1>1, Inductive, PTL
===============================================================================
