---------------------------- MODULE ParallelTests ----------------------------
(***************************************************************************)
(* The test files of one vitest run against one chain per network: each     *)
(* file takes wallets from its LocalState and signs transactions with them. *)
(*                                                                          *)
(* A client reads the account's sequence number from the last committed     *)
(* state, signs with it and broadcasts; the chain accepts a transaction into *)
(* its mempool only with the number that follows what it has and holds, and *)
(* answers "account sequence mismatch" otherwise.  signAndBroadcast()       *)
(* (every execute(), sendTokens(), ... of NeutronTestClient) then polls     *)
(* until the transaction is in a block or a minute has passed;              *)
(* signAndBroadcastSync() returns at once.                                  *)
(*                                                                          *)
(* The chain and the signing client are libraries and services outside this *)
(* repository, modelled from what NeutronTestClient expects of them.        *)
(***************************************************************************)
EXTENDS LocalState

CONSTANTS SyncFile,      \* the files that call signAndBroadcastSync()
          MaxSequence    \* bound: MaxSequence[n] transactions signed per account of n

ASSUME SyncFileAssumption == SyncFile \subseteq File
ASSUME MaxSequenceAssumption == MaxSequence \in [Network -> Nat]

VARIABLES
  sequence,    \* sequence[n][i]: committed sequence of account i on chain n
  mempool,     \* mempool[n][i]: accepted transactions of i not yet in a block
  client,      \* client[f][n][k]: what the client of f's k-th wallet is doing
  seq,         \* seq[f][n][k]: the sequence its last transaction is signed with
  timedOut,    \* files a broadcast of which was given up before its block
  mismatch     \* files that met "account sequence mismatch"

chainVars == <<sequence, mempool>>
clientVars == <<client, seq, timedOut, mismatch>>
vars == <<allocVars, chainVars, clientVars>>

Account == 0 .. PREFUNDED_WALLETS_COUNT - 1
Slot == 1 .. WALLETS_PER_TEST_FILE
PC == {"idle", "signed", "waiting"}

Init ==
  /\ AllocInit
  /\ sequence = [n \in Network |-> [i \in Account |-> 0]]
  /\ mempool = [n \in Network |-> [i \in Account |-> 0]]
  /\ client = [f \in File |-> [n \in Network |-> [k \in Slot |-> "idle"]]]
  /\ seq = [f \in File |-> [n \in Network |-> [k \in Slot |-> 0]]]
  /\ timedOut = {}
  /\ mismatch = {}

(* A test takes another wallet. *)
Allocate ==
  /\ AllocNext
  /\ UNCHANGED <<chainVars, clientVars>>

(* The signer asks the chain for the committed sequence and signs with it.  *)
Sign(f, n, k) ==
  /\ client[f][n][k] = "idle"
  /\ sequence[n][given[f][n][k]] + mempool[n][given[f][n][k]] < MaxSequence[n]
  /\ seq' = [seq EXCEPT ![f][n][k] = sequence[n][given[f][n][k]]]
  /\ client' = [client EXCEPT ![f][n][k] = "signed"]
  /\ UNCHANGED <<allocVars, chainVars, timedOut, mismatch>>

(* CheckTx: the number must follow those committed and those in the mempool *)
InOrder(n, i, s) == s = sequence[n][i] + mempool[n][i]

Accept(n, i) == mempool' = [mempool EXCEPT ![n][i] = @ + 1]

(* A slip: the result of the broadcast is not waited for. *)
SignAndBroadcastNotAwaited(f, n, k) ==
  /\ client[f][n][k] = "signed"
  /\ InOrder(n, given[f][n][k], seq[f][n][k])
  /\ Accept(n, given[f][n][k])
  /\ client' = [client EXCEPT ![f][n][k] = "idle"]
  /\ UNCHANGED <<allocVars, sequence, seq, timedOut, mismatch>>

SignAndBroadcast(f, n, k) ==
  /\ client[f][n][k] = "signed"
  /\ InOrder(n, given[f][n][k], seq[f][n][k])
  /\ Accept(n, given[f][n][k])
  /\ client' = [client EXCEPT ![f][n][k] = "waiting"]
  /\ UNCHANGED <<allocVars, sequence, seq, timedOut, mismatch>>

SignAndBroadcastSync(f, n, k) ==
  /\ f \in SyncFile
  /\ client[f][n][k] = "signed"
  /\ InOrder(n, given[f][n][k], seq[f][n][k])
  /\ Accept(n, given[f][n][k])
  /\ client' = [client EXCEPT ![f][n][k] = "idle"]
  /\ UNCHANGED <<allocVars, sequence, seq, timedOut, mismatch>>

(* The chain refuses the transaction and the call throws. *)
Refused(f, n, k) ==
  /\ client[f][n][k] = "signed"
  /\ ~ InOrder(n, given[f][n][k], seq[f][n][k])
  /\ client' = [client EXCEPT ![f][n][k] = "idle"]
  /\ mismatch' = mismatch \union {f}
  /\ UNCHANGED <<allocVars, chainVars, seq, timedOut>>

(* The poll finds the transaction in a block. *)
Observe(f, n, k) ==
  /\ client[f][n][k] = "waiting"
  /\ seq[f][n][k] < sequence[n][given[f][n][k]]
  /\ client' = [client EXCEPT ![f][n][k] = "idle"]
  /\ UNCHANGED <<allocVars, chainVars, seq, timedOut, mismatch>>

(* The poll gives up: the call throws, the transaction stays in the mempool *)
GiveUp(f, n, k) ==
  /\ client[f][n][k] = "waiting"
  /\ sequence[n][given[f][n][k]] <= seq[f][n][k]
  /\ client' = [client EXCEPT ![f][n][k] = "idle"]
  /\ timedOut' = timedOut \union {f}
  /\ UNCHANGED <<allocVars, chainVars, seq, mismatch>>

(* The next transaction of an account is executed in a block. *)
Commit(n, i) ==
  /\ mempool[n][i] > 0
  /\ mempool' = [mempool EXCEPT ![n][i] = @ - 1]
  /\ sequence' = [sequence EXCEPT ![n][i] = @ + 1]
  /\ UNCHANGED <<allocVars, clientVars>>

ClientStep(f, n, k) ==
  \/ Sign(f, n, k)
  \/ SignAndBroadcast(f, n, k)
  \/ SignAndBroadcastSync(f, n, k)
  \/ Refused(f, n, k)
  \/ Observe(f, n, k)
  \/ GiveUp(f, n, k)

Next ==
  \/ Allocate
  \/ \E f \in File, n \in Network : \E k \in DOMAIN given[f][n] :
       ClientStep(f, n, k)
  \/ \E n \in Network, i \in Account : Commit(n, i)

Spec == Init /\ [][Next]_vars

-------------------------------------------------------------------------------
(* The variables have their types. *)
TypeOK ==
  /\ AllocTypeOK
  /\ sequence \in [Network -> [Account -> Nat]]
  /\ mempool \in [Network -> [Account -> Nat]]
  /\ client \in [File -> [Network -> [Slot -> PC]]]
  /\ seq \in [File -> [Network -> [Slot -> Nat]]]
  /\ timedOut \subseteq File
  /\ mismatch \subseteq File

(* A file meets a sequence mismatch only through calls of its own: one that *)
(* does not wait for its block, or one whose wait was given up.  No file    *)
(* is ever disturbed by what the files that run beside it do - the "sequence *)
(* overlapping problem" that the unique wallets are there to avoid.         *)
MismatchIsOwnFault == mismatch \subseteq SyncFile \union timedOut

(* While a call of a file that waits for its blocks is signed or in flight, *)
(* the account is in exactly the state the call left it in: nothing else    *)
(* of that account is pending and nobody signs for it.                      *)
InFlightAlone ==
  \A f \in File \ (SyncFile \union timedOut), n \in Network :
    \A k \in DOMAIN given[f][n] :
      LET i == given[f][n][k] IN
        /\ client[f][n][k] = "signed" =>
             mempool[n][i] = 0 /\ seq[f][n][k] = sequence[n][i]
        /\ client[f][n][k] = "waiting" =>
             sequence[n][i] + mempool[n][i] = seq[f][n][k] + 1
===============================================================================
