------------------------------ MODULE WalletPool ------------------------------
(***************************************************************************)
(* What the test files of one vitest run are promised about wallets: every  *)
(* wallet is taken from one common pool of prefunded mnemonics and no       *)
(* wallet of a network is ever handed out twice, to whichever file.  How    *)
(* LocalState keeps that promise without any shared state is the business   *)
(* of module LocalState, which implements this specification.               *)
(***************************************************************************)
EXTENDS Naturals, Sequences

CONSTANTS File,      \* the test files that run against one chain
          Network,   \* the networks a wallet is derived for
          Mnemonic   \* the prefunded mnemonics, named by their index

VARIABLE given       \* given[f][n]: the wallets handed to file f, in order

(* mnemonic i was handed out on network n *)
Taken(n, i) == \E f \in File : \E k \in DOMAIN given[f][n] : given[f][n][k] = i

Init == given = [f \in File |-> [n \in Network |-> <<>>]]

Take(f, n) ==
  \E i \in Mnemonic :
    /\ ~ Taken(n, i)
    /\ given' = [given EXCEPT ![f][n] = Append(@, i)]

Next == \E f \in File, n \in Network : Take(f, n)

Spec == Init /\ [][Next]_given
===============================================================================
