------------------------------ MODULE FundWallets ------------------------------
(***************************************************************************)
(* Global setup prefunds the wallets of the tests (src/global_setup.ts):    *)
(* four calls of fundWallets(), each of which derives the accounts of the   *)
(* mnemonics, connects, and sends one MsgMultiSend from one rich account to *)
(* all of them.  Each of the three steps is retried when it throws, the     *)
(* broadcast too - although a broadcast that throws may have reached the    *)
(* chain.                                                                   *)
(*                                                                          *)
(* Amounts are counted in units of what one Gaia call sends in total (a     *)
(* Neutron call sends twice that: every mnemonic has two addresses there).  *)
(* The fee is paid in the chain's own denom and is 8 orders of magnitude    *)
(* smaller than a unit; it is left out.                                     *)
(***************************************************************************)
EXTENDS Naturals, Sequences

CONSTANTS
  Call,           \* the calls of fundWallets() in order: [chain, denom, units]
  Wallet,         \* number of mnemonics
  MaxRetries,     \* maxRetries
  Genesis,        \* Genesis[d]: what the rich account owns of denom d, in units
  MaxRuns         \* bound: runs of global setup

Calls == DOMAIN Call
Chain == {Call[c].chain : c \in Calls}
Denom == {Call[c].denom : c \in Calls}

ASSUME CallAssumption ==
  /\ Call \in Seq([chain : STRING, denom : STRING, units : Nat])
  /\ Call # <<>>
ASSUME CountsAssumption ==
  /\ Wallet \in Nat
  /\ MaxRetries \in Nat \ {0}
  /\ MaxRuns \in Nat \ {0}
ASSUME GenesisAssumption == Genesis \in [Denom -> Nat]

(* Each denom is sent by one of the calls. *)
ASSUME DenomAssumption ==
  \A c, e \in Calls : Call[c].denom = Call[e].denom => c = e

VARIABLES
  pc, call, wallet, retries,   \* where fundWallets() is, and in which call
  run,                         \* the run of global setup
  runsOnChain,                 \* how many of the runs found this chain
  mempool,     \* mempool[h]: the sends of the rich account pending on chain h
  balance,     \* balance[d]: what the rich account owns
  sent,        \* sent[d]: MsgMultiSends of this run executed for denom d
  result       \* the outcome of this run's last send: "none" while pending

runs == <<run, runsOnChain>>
vars == <<pc, call, wallet, retries, runs, mempool, balance, sent, result>>
clientVars == <<pc, call, wallet, retries, runs>>
chainVars == <<mempool, balance, sent, result>>

PC == {"accounts", "connect", "broadcast", "polling", "getTx", "done",
       "no_accounts", "no_connection", "no_broadcast", "no_tx", "bad_code"}
Stopped == {"done", "no_accounts", "no_connection", "no_broadcast", "no_tx",
            "bad_code"}

Result == {"none", "ok", "no_funds", "out_of_gas"}

Tx == [run : 1 .. MaxRuns, call : Calls]

Init ==
  /\ pc = "accounts" /\ call = 1 /\ wallet = 0 /\ retries = 0
  /\ run = 1 /\ runsOnChain = 1
  /\ mempool = [h \in Chain |-> <<>>]
  /\ balance = Genesis
  /\ sent = [d \in Denom |-> 0]
  /\ result = "none"

ThisChain == Call[call].chain

(* a slip: one attempt more than MaxRetries *)
RetryOffByOne(here, giveUp) ==
  /\ retries' = retries + 1
  /\ pc' = IF retries < MaxRetries THEN here ELSE giveUp

(* a slip: the attempts are never counted *)
RetryForever(here, giveUp) ==
  /\ retries' = retries
  /\ pc' = here

(* A step of the retry loops threw: try again, or give up after MaxRetries. *)
Retry(here, giveUp) ==
  /\ retries' = retries + 1
  /\ pc' = IF retries + 1 < MaxRetries THEN here ELSE giveUp

-------------------------------------------------------------------------------
(* fromMnemonic and getAccounts of the next mnemonic *)
GetAccounts ==
  /\ pc = "accounts" /\ wallet < Wallet
  /\ \/ /\ wallet' = wallet + 1 /\ retries' = 0
        /\ UNCHANGED pc
     \/ /\ Retry("accounts", "no_accounts")
        /\ UNCHANGED wallet
  /\ UNCHANGED <<call, runs, chainVars>>

Connect ==
  /\ \/ pc = "accounts" /\ wallet = Wallet
     \/ pc = "connect"
  /\ \/ /\ pc' = "broadcast" /\ retries' = 0
     \/ IF pc = "accounts"
          THEN /\ retries' = 1
               /\ pc' = IF 1 < MaxRetries THEN "connect" ELSE "no_connection"
          ELSE Retry("connect", "no_connection")
  /\ UNCHANGED <<call, wallet, runs, chainVars>>

(* The signer uses the committed sequence, so a send is accepted only while *)
(* no other send of the account is pending (CheckTx).                       *)
Accept ==
  /\ mempool[ThisChain] = <<>>
  /\ mempool' = [mempool EXCEPT ![ThisChain] = <<[run |-> run, call |-> call]>>]
  /\ result' = "none"

(* signAndBroadcast: the send is accepted and its inclusion is polled for.  *)
Broadcast ==
  /\ pc = "broadcast"
  /\ Accept
  /\ pc' = "polling"
  /\ UNCHANGED <<call, wallet, retries, runs, balance, sent>>

(* signAndBroadcast throws: before the chain has the send, because the      *)
(* chain refuses it, or after the chain took it and the answer was lost.    *)
BroadcastThrows ==
  /\ pc = "broadcast"
  /\ Accept \/ UNCHANGED <<mempool, result>>
  /\ Retry("broadcast", "no_broadcast")
  /\ UNCHANGED <<call, wallet, runs, balance, sent>>

(* The poll fails or times out; the send stays where it is. *)
PollThrows ==
  /\ pc = "polling"
  /\ Retry("broadcast", "no_broadcast")
  /\ UNCHANGED <<call, wallet, runs, chainVars>>

PollSees ==
  /\ pc = "polling"
  /\ result # "none"
  /\ pc' = "getTx"
  /\ UNCHANGED <<call, wallet, retries, runs, chainVars>>

NextCall ==
  IF call < Len(Call)
    THEN /\ call' = call + 1 /\ pc' = "accounts"
         /\ wallet' = 0 /\ retries' = 0
    ELSE /\ pc' = "done" /\ UNCHANGED <<call, wallet, retries>>

(* a slip: the code of the transaction is not looked at *)
GetTxUnchecked ==
  /\ pc = "getTx"
  /\ NextCall
  /\ UNCHANGED <<runs, chainVars>>

(* getTx of the hash, once: no answer or a nonzero code is an error. *)
GetTx ==
  /\ pc = "getTx"
  /\ \/ /\ result = "ok"
        /\ NextCall
     \/ /\ result # "ok"
        /\ pc' = "bad_code"
        /\ UNCHANGED <<call, wallet, retries>>
     \/ /\ pc' = "no_tx"
        /\ UNCHANGED <<call, wallet, retries>>
  /\ UNCHANGED <<runs, chainVars>>

(* With NO_DOCKER the chain is the one there was. *)
SameChain == runsOnChain' = runsOnChain + 1 /\ UNCHANGED <<mempool, balance>>

NewChain ==
  /\ runsOnChain' = 1
  /\ mempool' = [h \in Chain |-> <<>>] /\ balance' = Genesis

(* yarn test is started again. *)
Rerun ==
  /\ pc \in Stopped /\ run < MaxRuns
  /\ run' = run + 1
  /\ pc' = "accounts" /\ call' = 1 /\ wallet' = 0 /\ retries' = 0
  /\ sent' = [d \in Denom |-> 0]
  /\ result' = "none"
  /\ SameChain \/ NewChain

(* A block executes a pending send, which may run out of its fixed gas or   *)
(* find too little on the account, and then takes nothing.                  *)
Commit(h) ==
  /\ mempool[h] # <<>>
  /\ mempool' = [mempool EXCEPT ![h] = Tail(@)]
  /\ LET tx == Head(mempool[h])
         d == Call[tx.call].denom
         units == Call[tx.call].units
     IN \E outcome \in {IF units <= balance[d] THEN "ok" ELSE "no_funds",
                        "out_of_gas"} :
          /\ balance' = [balance EXCEPT ![d] = IF outcome = "ok" THEN @ - units ELSE @]
          /\ sent' = [sent EXCEPT ![d] =
                        IF outcome = "ok" /\ tx.run = run THEN @ + 1 ELSE @]
          /\ result' = IF tx.run = run THEN outcome ELSE result
  /\ UNCHANGED clientVars

ClientNext ==
  GetAccounts \/ Connect \/ Broadcast \/ BroadcastThrows \/ PollThrows
    \/ PollSees \/ GetTx

Next == ClientNext \/ Rerun \/ \E h \in Chain : Commit(h)

(* fundWallets() is never stuck: every wait of it has an end. *)
Spec == Init /\ [][Next]_vars /\ WF_vars(ClientNext)

-------------------------------------------------------------------------------
TypeOK ==
  /\ pc \in PC
  /\ call \in Calls
  /\ wallet \in 0 .. Wallet
  /\ retries \in 0 .. MaxRetries
  /\ run \in 1 .. MaxRuns /\ runsOnChain \in 1 .. run
  /\ mempool \in [Chain -> {<<>>} \union {<<tx>> : tx \in Tx}]
  /\ balance \in [Denom -> Nat]
  /\ sent \in [Denom -> Nat]
  /\ result \in Result

(* Setup succeeds only when every wallet got its tokens from this run: a    *)
(* send that failed, one that only a previous run made, or one that is      *)
(* still pending is never taken for it.                                     *)
FundedOnSuccess ==
  /\ \A c \in Calls : c < call => sent[Call[c].denom] >= 1
  /\ pc = "done" => \A d \in Denom : sent[d] >= 1

(* What a run can take from the rich account is bounded by the retries, so  *)
(* a send fails for lack of funds only if the runs on this chain could have *)
(* spent the genesis amount with every retry of every one of them executed: *)
(* never on a fresh chain, whatever was lost or repeated before it.         *)
EnoughFunds ==
  result = "no_funds" =>
    runsOnChain * MaxRetries * Call[call].units > Genesis[Call[call].denom]

(* "amount to be transferred to each new wallet": setup that succeeds has   *)
(* sent each address its poorAmount once per denom, not twice.              *)
FundedOnce == pc = "done" => \A d \in Denom : sent[d] = 1

(* Every run of fundWallets() ends, with wallets or with an error.          *)
SetupEnds == <>[](pc \in Stopped)
===============================================================================
