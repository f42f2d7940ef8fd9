----------------------------- MODULE Setup_proofs -----------------------------
(***************************************************************************)
(* Proofs about what comes before the tests.                                *)
(*                                                                          *)
(* GlobalSetup: the life of the containers, for any number of runs.         *)
(*                                                                          *)
(* GenesisAddresses: the addresses the script predicts are those the chain  *)
(* gives, for any number of binaries that could not be stored.  The tables  *)
(* of the script are compared once (what each command is, in which order    *)
(* the chain instantiates, what is left to instantiate after each           *)
(* contract); GenesisInv then says where the script is in its tables, what  *)
(* the messages it wrote are, and where the chain is in those messages.     *)
(***************************************************************************)
EXTENDS Integers, GlobalSetup, GenesisAddresses, FiniteSetTheorems, TLAPS

-------------------------------------------------------------------------------
(* GlobalSetup                                                              *)

(* A chain that is there after a stop was left by that stop, and only runs  *)
(* with docker get to where the containers are started.                     *)
Survived ==
  /\ pc \in {"start", "wait", "again"} => ~ noDocker
  /\ pc = "start" /\ chain # NoChain => stops["stop"] \in {"left", "failed"}
  /\ pc = "again" /\ chain # NoChain => stops["teardown"] = "left"

IInv == TypeOK /\ Survived /\ FreshChain /\ NothingLeft

LEMMA InitIInv == Init => IInv
BY BoundsAssumption DEF Init, IInv, TypeOK, Survived, FreshChain, NothingLeft, PC, NoChain, NoStops,
              StopPlace, Outcome

LEMMA NextIInv == IInv /\ [Next]_vars => IInv'
<1> SUFFICES ASSUME IInv, [Next]_vars PROVE IInv'
  OBVIOUS
<1> USE BoundsAssumption DEF IInv, TypeOK, Survived, FreshChain, NothingLeft, PC,
                            NoChain, Goto, Exit, Stopped, StopPlace, Outcome
<1>1. CASE Stop
  <2>1. CASE noDocker
    BY <1>1, <2>1 DEF Stop
  <2>2. CASE ~ noDocker /\ Down
    BY <1>1, <2>2 DEF Stop, Down
  <2>3. CASE ~ noDocker /\ (DownLeavesSome \/ DownFails)
    BY <1>1, <2>3 DEF Stop, DownLeavesSome, DownFails
  <2> QED BY <1>1, <2>1, <2>2, <2>3 DEF Stop
<1>2. CASE Start
  BY <1>2 DEF Start, Up
<1>3. CASE Wait
  BY <1>3 DEF Wait
<1>4. CASE Fund
  BY <1>4 DEF Fund
<1>5. CASE Tests
  BY <1>5 DEF Tests
<1>6. CASE Teardown
  <2>1. CASE noDocker
    BY <1>6, <2>1 DEF Teardown
  <2>2. CASE ~ noDocker /\ Down
    BY <1>6, <2>2 DEF Teardown, Down, DownLeavesSome, DownFails
  <2>3. CASE ~ noDocker /\ (DownLeavesSome \/ DownFails)
    BY <1>6, <2>3 DEF Teardown, Down, DownLeavesSome, DownFails
  <2> QED BY <1>6, <2>1, <2>2, <2>3 DEF Teardown
<1>7. CASE TeardownAgain
  BY <1>7 DEF TeardownAgain, Down, DownLeavesSome, DownFails
<1>8. CASE Killed
  BY <1>8 DEF Killed
<1>9. CASE NextRun
  BY <1>9 DEF NextRun, NoStops
<1>10. CASE UNCHANGED vars
  BY <1>10 DEF vars
<1> QED BY <1>1, <1>2, <1>3, <1>4, <1>5, <1>6, <1>7, <1>8, <1>9, <1>10 DEF Next

LEMMA Inductive == Spec => []IInv
BY InitIInv, NextIInv, PTL DEF Spec

(* The variables keep their types: in particular no chain is older than the *)
(* first run or younger than the current one.                               *)
THEOREM TypeCorrect == Spec => []TypeOK
BY Inductive, PTL DEF IInv

(* A run with docker works on a chain of its own unless its stop failed.    *)
THEOREM Fresh == Spec => []FreshChain
BY Inductive, PTL DEF IInv

(* A run that ends well leaves nothing behind unless both stops left some.  *)
THEOREM CleanEnd == Spec => []NothingLeft
BY Inductive, PTL DEF IInv

-------------------------------------------------------------------------------
(* GenesisAddresses: the script and its tables.                             *)

LEMMA Lengths ==
  /\ Len(StoreOrder) = 23 /\ Len(Predictions) = 29
  /\ Len(InitOrder) = 13 /\ Len(ExecuteOrder) = 3
BY DEF StoreOrder, Predictions, InitOrder, ExecuteOrder

LEMMA Joined ==
  ASSUME NEW S, NEW s \in Seq(S), NEW t \in Seq(S)
  PROVE  /\ s \o t \in Seq(S)
         /\ Len(s \o t) = Len(s) + Len(t)
         /\ \A i \in 1 .. Len(s) : (s \o t)[i] = s[i]
         /\ \A i \in 1 .. Len(t) : (s \o t)[Len(s) + i] = t[i]
OBVIOUS

LEMMA CommandsOf ==
  ASSUME NEW name, NEW S, NEW T, NEW operands \in Seq(S), {name} \X S \subseteq T
  PROVE  Commands(name, operands) \in Seq(T)
<1>1. Commands(name, operands) \in Seq({name} \X S)
  BY DEF Commands
<1> QED BY <1>1

LEMMA CommandAt ==
  ASSUME NEW name, NEW S, NEW operands \in Seq(S)
  PROVE  /\ Len(Commands(name, operands)) = Len(operands)
         /\ \A i \in 1 .. Len(operands) : Commands(name, operands)[i] = <<name, operands[i]>>
BY DEF Commands

LEMMA NamesOf ==
  LET N == BinaryName \union Contract
  IN  /\ BinaryName = {StoreOrder[i] : i \in 1 .. 23}
      /\ Contract = {Predictions[i][1] : i \in 1 .. 29}
      /\ StoreOrder \in Seq(N) /\ InitOrder \in Seq(N) /\ ExecuteOrder \in Seq(N)
      /\ Predictions \in Seq(Contract \X BinaryName)
<1>1. BinaryName = {StoreOrder[i] : i \in 1 .. 23}
  BY Lengths DEF BinaryName, ToSet, StoreOrder
<1>2. Contract = {Predictions[i][1] : i \in 1 .. 29}
  BY DEF Contract, Predictions
<1>3. StoreOrder \in Seq(BinaryName)
  BY <1>1 DEF StoreOrder
<1>4. \A i \in 1 .. 13 : InitOrder[i] \in Contract
  BY <1>2 DEF InitOrder, Predictions
<1>5. \A i \in 1 .. 3 : ExecuteOrder[i] \in Contract
  BY <1>2 DEF ExecuteOrder, Predictions
<1>6. \A i \in 1 .. 29 : Predictions[i][2] \in BinaryName
  BY <1>1 DEF StoreOrder, Predictions
<1>7. InitOrder \in Seq(Contract) /\ ExecuteOrder \in Seq(Contract)
  BY <1>4, <1>5 DEF InitOrder, ExecuteOrder
<1>8. Predictions \in Seq(Contract \X BinaryName)
  BY <1>2, <1>6 DEF Predictions
<1> QED BY <1>1, <1>2, <1>3, <1>7, <1>8

LEMMA ScriptAt ==
  /\ Len(Script) = 68
  /\ \A i \in 1 .. 23 : Script[i] = <<"store", StoreOrder[i]>>
  /\ \A i \in 1 .. 29 : Script[23 + i] = <<"genaddr", Predictions[i]>>
  /\ \A i \in 1 .. 13 : Script[52 + i] = <<"instantiate", InitOrder[i]>>
  /\ \A i \in 1 .. 3 : Script[65 + i] = <<"execute", ExecuteOrder[i]>>
<1> DEFINE A == Commands("store", StoreOrder)
           B == Commands("genaddr", Predictions)
           C == Commands("instantiate", InitOrder)
           D == Commands("execute", ExecuteOrder)
           N == BinaryName \union Contract
           S == {"store", "genaddr", "instantiate", "execute"} \X (N
             \union (Contract \X BinaryName))
<1>1. /\ StoreOrder \in Seq(N) /\ Predictions \in Seq(Contract \X BinaryName)
      /\ InitOrder \in Seq(N) /\ ExecuteOrder \in Seq(N)
  BY NamesOf
<1>s. /\ {"store"} \X N \subseteq S /\ {"genaddr"} \X (Contract \X BinaryName) \subseteq S
      /\ {"instantiate"} \X N \subseteq S /\ {"execute"} \X N \subseteq S
  OBVIOUS
<1> HIDE DEF N, S, A, B, C, D
<1>2. A \in Seq(S)
  BY ONLY <1>1, <1>s, CommandsOf DEF A
<1>3. B \in Seq(S)
  BY ONLY <1>1, <1>s, CommandsOf DEF B
<1>4. C \in Seq(S)
  BY ONLY <1>1, <1>s, CommandsOf DEF C
<1>5. D \in Seq(S)
  BY ONLY <1>1, <1>s, CommandsOf DEF D
<1>6. Len(A) = 23 /\ \A i \in 1 .. 23 : A[i] = <<"store", StoreOrder[i]>>
  <2>1. Len(A) = Len(StoreOrder) /\ \A i \in 1 .. Len(StoreOrder) :
          A[i] = <<"store", StoreOrder[i]>>
    BY ONLY <1>1, CommandAt DEF A
  <2> QED BY <2>1, Lengths
<1>7. Len(B) = 29 /\ \A i \in 1 .. 29 : B[i] = <<"genaddr", Predictions[i]>>
  <2>1. Len(B) = Len(Predictions) /\ \A i \in 1 .. Len(Predictions) :
          B[i] = <<"genaddr", Predictions[i]>>
    BY ONLY <1>1, CommandAt DEF B
  <2> QED BY <2>1, Lengths
<1>8. Len(C) = 13 /\ \A i \in 1 .. 13 : C[i] = <<"instantiate", InitOrder[i]>>
  <2>1. Len(C) = Len(InitOrder) /\ \A i \in 1 .. Len(InitOrder) :
          C[i] = <<"instantiate", InitOrder[i]>>
    BY ONLY <1>1, CommandAt DEF C
  <2> QED BY <2>1, Lengths
<1>9. Len(D) = 3 /\ \A i \in 1 .. 3 : D[i] = <<"execute", ExecuteOrder[i]>>
  <2>1. Len(D) = Len(ExecuteOrder) /\ \A i \in 1 .. Len(ExecuteOrder) :
          D[i] = <<"execute", ExecuteOrder[i]>>
    BY ONLY <1>1, CommandAt DEF D
  <2> QED BY <2>1, Lengths
<1> DEFINE AB == A \o B
           ABC == AB \o C
<1>10. AB \in Seq(S) /\ Len(AB) = Len(A) + Len(B)
  BY ONLY <1>2, <1>3, Joined
<1>11. /\ \A i \in 1 .. Len(A) : AB[i] = A[i]
       /\ \A i \in 1 .. Len(B) : AB[Len(A) + i] = B[i]
  BY ONLY <1>2, <1>3, Joined
<1> HIDE DEF AB
<1>12. AB \in Seq(S)
  BY <1>10
<1>13. ABC \in Seq(S) /\ Len(ABC) = Len(AB) + Len(C)
  BY ONLY <1>4, <1>12, Joined
<1>14. /\ \A i \in 1 .. Len(AB) : ABC[i] = AB[i]
       /\ \A i \in 1 .. Len(C) : ABC[Len(AB) + i] = C[i]
  BY ONLY <1>4, <1>12, Joined
<1> HIDE DEF ABC
<1>15. ABC \in Seq(S)
  BY <1>13
<1>16. Script = ABC \o D
  BY ONLY DEF Script, A, B, C, D, AB, ABC
<1>17. Len(ABC \o D) = Len(ABC) + Len(D)
  BY ONLY <1>5, <1>15, Joined
<1>18. /\ \A i \in 1 .. Len(ABC) : (ABC \o D)[i] = ABC[i]
       /\ \A i \in 1 .. Len(D) : (ABC \o D)[Len(ABC) + i] = D[i]
  BY ONLY <1>5, <1>15, Joined
<1>19. Len(A) = 23 /\ Len(AB) = 52 /\ Len(ABC) = 65 /\ Len(Script) = 68
  BY <1>6, <1>7, <1>8, <1>9, <1>10, <1>13, <1>16, <1>17
<1>20. /\ \A i \in 1 .. 23 : i \in 1 .. 52 /\ AB[i] = A[i]
       /\ \A i \in 1 .. 29 : 23 + i \in 1 .. 52 /\ AB[23 + i] = B[i]
  <2>2. \A i \in 1 .. 29 : 23 + i \in 1 .. 52
    OBVIOUS
  <2>3. \A i \in 1 .. 23 : i \in 1 .. 52
    OBVIOUS
  <2> QED BY ONLY <1>6, <1>7, <1>11, <2>2, <2>3, Zenon
<1>21. \A i \in 1 .. 52 : ABC[i] = AB[i]
  BY ONLY <1>14, <1>19, Zenon
<1>22. \A i \in 1 .. 13 : ABC[52 + i] = C[i]
  <2>1. Len(AB) = 52 /\ Len(C) = 13
    BY ONLY <1>8, <1>19
  <2> QED BY ONLY <1>14, <2>1, Zenon
<1>23. \A i \in 1 .. 65 : Script[i] = ABC[i]
  BY ONLY <1>16, <1>18, <1>19, Zenon
<1>24. \A i \in 1 .. 3 : Script[65 + i] = D[i]
  BY ONLY <1>9, <1>16, <1>18, <1>19, Zenon
<1>25. /\ \A i \in 1 .. 52 : i \in 1 .. 65
       /\ \A i \in 1 .. 13 : 52 + i \in 1 .. 65
  OBVIOUS
<1>26. \A i \in 1 .. 23 : Script[i] = <<"store", StoreOrder[i]>>
  <2>1. \A i \in 1 .. 23 : A[i] = <<"store", StoreOrder[i]>>
    BY ONLY <1>6, Zenon
  <2>2. \A i \in 1 .. 23 : i \in 1 .. 52 /\ AB[i] = A[i]
    BY ONLY <1>20, Zenon
  <2>3. \A i \in 1 .. 23 : Script[i] = AB[i]
    BY ONLY <1>21, <1>23, <1>25, <2>2, Zenon
  <2> QED BY ONLY <2>1, <2>2, <2>3, Zenon
<1>27. \A i \in 1 .. 29 : Script[23 + i] = <<"genaddr", Predictions[i]>>
  <2>1. \A i \in 1 .. 29 : B[i] = <<"genaddr", Predictions[i]>>
    BY ONLY <1>7, Zenon
  <2>2. \A i \in 1 .. 29 : 23 + i \in 1 .. 52 /\ AB[23 + i] = B[i]
    BY ONLY <1>20, Zenon
  <2>3. \A i \in 1 .. 29 : Script[23 + i] = AB[23 + i]
    BY ONLY <1>21, <1>23, <1>25, <2>2, Zenon
  <2> QED BY ONLY <2>1, <2>2, <2>3, Zenon
<1>28. \A i \in 1 .. 13 : Script[52 + i] = <<"instantiate", InitOrder[i]>>
  BY ONLY <1>8, <1>22, <1>23, <1>25, Zenon
<1>29. \A i \in 1 .. 3 : Script[65 + i] = <<"execute", ExecuteOrder[i]>>
  BY ONLY <1>9, <1>24, Zenon
<1> QED BY ONLY <1>19, <1>26, <1>27, <1>28, <1>29, Zenon

LEMMA PredictedOnce ==
  \A i, j \in 1 .. 29 : Predictions[i][1] = Predictions[j][1] => i = j
BY DEF Predictions

LEMMA StoredOnce ==
  \A i, j \in 1 .. 23 : StoreOrder[i] = StoreOrder[j] => i = j
BY DEF StoreOrder

-------------------------------------------------------------------------------
(* What the chain makes of the script, and the inductive invariant.         *)

(* The contracts in the order the chain instantiates them in: the one       *)
(* instantiated by a message, then, depth first, the ones it starts.        *)
Order == <<
  "NEUTRON_VAULT", "INVESTORS_VAULT", "VESTING_INVESTORS", "DAO", "VOTING_REGISTRY",
  "PROPOSAL_SINGLE", "PRE_PROPOSAL", "PROPOSAL_MULTIPLE", "PRE_PROPOSAL_MULTIPLE",
  "PROPOSAL_OVERRULE", "PRE_PROPOSAL_OVERRULE", "RESERVE", "DISTRIBUTION",
  "SECURITY_CORE", "SECURITY_VOTING", "SECURITY_GROUP", "SECURITY_PROPOSAL",
  "SECURITY_PRE_PROPOSE", "GRANTS_CORE", "GRANTS_VOTING", "GRANTS_GROUP",
  "GRANTS_PROPOSAL", "GRANTS_PRE_PROPOSE", "GRANTS_TIMELOCK", "CHAIN_MANAGER",
  "STAKING_TRACKER", "STAKING_VAULT", "STAKING_REWARDS", "STAKING_INFO_PROXY" >>

(* The contracts there are before the k-th message is run to its end.       *)
Before == <<0, 1, 2, 3, 11, 12, 13, 18, 24, 25, 26, 27, 28, 29>>

(* What is left to instantiate with n contracts there, within a message.    *)
Left(n) ==
  CASE n = 4 -> <<"VOTING_REGISTRY", "PROPOSAL_SINGLE", "PROPOSAL_MULTIPLE",
                  "PROPOSAL_OVERRULE">>
    [] n = 5 -> <<"PROPOSAL_SINGLE", "PROPOSAL_MULTIPLE", "PROPOSAL_OVERRULE">>
    [] n = 6 -> <<"PRE_PROPOSAL", "PROPOSAL_MULTIPLE", "PROPOSAL_OVERRULE">>
    [] n = 7 -> <<"PROPOSAL_MULTIPLE", "PROPOSAL_OVERRULE">>
    [] n = 8 -> <<"PRE_PROPOSAL_MULTIPLE", "PROPOSAL_OVERRULE">>
    [] n = 14 -> <<"SECURITY_VOTING", "SECURITY_PROPOSAL">>
    [] n = 15 -> <<"SECURITY_GROUP", "SECURITY_PROPOSAL">>
    [] n = 19 -> <<"GRANTS_VOTING", "GRANTS_PROPOSAL">>
    [] n = 20 -> <<"GRANTS_GROUP", "GRANTS_PROPOSAL">>
    [] OTHER -> <<Order[n + 1]>>

(* The messages that store a binary come first, then one for each command   *)
(* of the script that has been run since the predictions.                   *)
Behind == IF step > 53 THEN step - 53 ELSE 0
Binaries == Len(genMsgs) - Behind

GenesisTypes ==
  /\ step \in 1 .. 69
  /\ codeId \in [BinaryName -> Nat]
  /\ address \in [Contract -> Nat \X Nat]
  /\ INSTANCE_ID_COUNTER \in Nat
  /\ genMsgs \in Seq({"store", "instantiate", "execute"} \X (BinaryName \union Contract))
  /\ notStored \subseteq BinaryName
  /\ neutron \in {"off", "genesis", "started", "panic"}
  /\ next \in Nat
  /\ codes \in Seq(BinaryName) /\ pending \in Seq(Contract) /\ contracts \in Seq(Contract)

(* A binary that was stored has the id of its message, and one that was not *)
(* has no message.                                                          *)
MessagesRight ==
  /\ Binaries \in Nat
  /\ \A i \in 1 .. Binaries :
       genMsgs[i][1] = "store" /\ \E j \in 1 .. 23 : j < step /\ genMsgs[i][2] = StoreOrder[j]
  /\ \A i \in 1 .. Behind : genMsgs[Binaries + i] = Script[52 + i]

IdsRight ==
  \A j \in 1 .. 23 : LET b == StoreOrder[j] IN
    IF b \in notStored
      THEN j < step /\ \A i \in 1 .. Binaries : genMsgs[i][2] # b
      ELSE j < step => codeId[b] \in 1 .. Binaries /\ genMsgs[codeId[b]][2] = b

PredictionsRight ==
  /\ INSTANCE_ID_COUNTER = IF step <= 24 THEN 1 ELSE IF step <= 53 THEN step - 23 ELSE 30
  /\ \A j \in 1 .. 29 : 23 + j < step =>
       address[Predictions[j][1]] = <<j, codeId[Predictions[j][2]]>>

(* The chain has the codes of the messages it has run, and the contracts    *)
(* that are due after them.                                                 *)
Run == next - 1 - Binaries
Begun == IF Run > 13 THEN 13 ELSE Run

ChainRight ==
  /\ neutron = "off" => next = 1 /\ pending = <<>> /\ contracts = <<>> /\ codes = <<>>
  /\ neutron # "off" => step = 69
  /\ next >= 1 /\ next <= Len(genMsgs) + 1
  /\ Len(codes) = IF Run <= 0 THEN next - 1 ELSE Binaries
  /\ \A i \in 1 .. Len(codes) : codes[i] = genMsgs[i][2]
  /\ Len(contracts) <= 29
  /\ \A i \in 1 .. Len(contracts) : contracts[i] = Order[i] /\ CodeFits(Order[i])
  /\ IF pending = <<>>
       THEN Len(contracts) = IF Run <= 0 THEN 0 ELSE Before[Begun + 1]
       ELSE /\ Run \in 1 .. 13 /\ pending = Left(Len(contracts))
            /\ Before[Run] <= Len(contracts) /\ Len(contracts) < Before[Run + 1]
  /\ neutron = "started" => next = Len(genMsgs) + 1 /\ pending = <<>>

GenesisInv ==
  GenesisTypes /\ MessagesRight /\ IdsRight /\ PredictionsRight /\ ChainRight /\ GenesisRuns

-------------------------------------------------------------------------------
(* The tables of the script and of the chain agree.                         *)

LEMMA OrderNames ==
  /\ \A i \in 1 .. 29 : Order[i] \in Contract
  /\ \A i \in 1 .. 13 : InitOrder[i] \in Contract
  /\ \A c \in Contract : Binary(c) \in BinaryName
  /\ \A c \in Contract : \E i \in 1 .. 29 : Order[i] = c
<1>1. Contract = {Predictions[i][1] : i \in 1 .. 29}
  BY NamesOf
<1>2. \A i \in 1 .. 29 : \E j \in 1 .. 29 : Order[i] = Predictions[j][1]
  BY DEF Order, Predictions
<1>3. \A i \in 1 .. 13 : \E j \in 1 .. 29 : InitOrder[i] = Predictions[j][1]
  BY DEF InitOrder, Predictions
<1>4. \A j \in 1 .. 29 : \E i \in 1 .. 29 : Order[i] = Predictions[j][1]
  BY DEF Order, Predictions
<1>5. \A j \in 1 .. 29 : j # 18 => Binary(Predictions[j][1]) = Predictions[j][2]
  BY DEF Binary, Predictions
<1>6. Binary(Predictions[18][1]) = StoreOrder[2]
  BY DEF Binary, Predictions, StoreOrder
<1>7. \A j \in 1 .. 29 : Predictions[j][2] \in BinaryName
  <2>1. Predictions \in Seq(Contract \X BinaryName)
    BY NamesOf
  <2>2. \A j \in 1 .. 29 : Predictions[j] \in Contract \X BinaryName
    <3>1. Len(Predictions) = 29
      BY Lengths
    <3>2. ASSUME NEW S, NEW s \in Seq(S) PROVE \A j \in 1 .. Len(s) : s[j] \in S
      OBVIOUS
    <3> QED BY ONLY <2>1, <3>1, <3>2, Zenon
  <2>3. ASSUME NEW p \in Contract \X BinaryName PROVE p[2] \in BinaryName
    BY ONLY <2>3
  <2> QED BY ONLY <2>2, <2>3, Zenon
<1>8. \A j \in 1 .. 29 : Binary(Predictions[j][1]) \in BinaryName
  <2>1. StoreOrder[2] \in BinaryName
    BY NamesOf
  <2>2. \A j \in 1 .. 29 : j = 18 \/ j # 18
    OBVIOUS
  <2> QED BY ONLY <1>5, <1>6, <1>7, <2>1, <2>2, Zenon
<1>9. \A c \in Contract : Binary(c) \in BinaryName
  BY <1>1, <1>8
<1>10. (\A i \in 1 .. 29 : Order[i] \in Contract) /\ \A i \in 1 .. 13 : InitOrder[i] \in Contract
  BY <1>1, <1>2, <1>3
<1>11. \A c \in Contract : \E i \in 1 .. 29 : Order[i] = c
  BY <1>1, <1>4
<1> QED BY <1>9, <1>10, <1>11

LEMMA BinariesUsed ==
  \A j \in 1 .. 23 : \E i \in 1 .. 29 : Binary(Order[i]) = StoreOrder[j]
BY DEF Binary, Order, StoreOrder

LEMMA BinariesUsed2 ==
  \A j \in 1 .. 23 : \E i \in 1 .. 29 :
    Binary(Order[i]) = StoreOrder[j] /\ Order[i] # "PRE_PROPOSAL"
BY DEF Binary, Order, StoreOrder

(* s before what follows the head of t. *)
LEMMA Replaced ==
  ASSUME NEW S, NEW s \in Seq(S), NEW t \in Seq(S), NEW u \in Seq(S), t # <<>>,
         Len(u) + 1 = Len(s) + Len(t),
         \A i \in 1 .. Len(s) : u[i] = s[i],
         \A i \in 2 .. Len(t) : u[Len(s) + i - 1] = t[i]
  PROVE  s \o Tail(t) = u
<1>1. /\ Tail(t) \in Seq(S) /\ Len(Tail(t)) = Len(t) - 1
      /\ \A i \in 1 .. Len(t) - 1 : Tail(t)[i] = t[i + 1]
  OBVIOUS
<1>2. s \o Tail(t) \in Seq(S) /\ Len(s \o Tail(t)) = Len(u)
  BY <1>1
<1>3. ASSUME NEW i \in 1 .. Len(u) PROVE (s \o Tail(t))[i] = u[i]
  <2>1. CASE i <= Len(s)
    BY <1>1, <2>1
  <2>2. CASE i > Len(s)
    <3>1. i - Len(s) \in 1 .. Len(t) - 1 /\ i - Len(s) + 1 \in 2 .. Len(t)
      BY <2>2
    <3>2. (s \o Tail(t))[i] = Tail(t)[i - Len(s)]
      BY <1>1, <2>2, <3>1
    <3>3. u[Len(s) + (i - Len(s) + 1) - 1] = t[i - Len(s) + 1]
      BY <3>1
    <3>4. Len(s) + (i - Len(s) + 1) - 1 = i
      OBVIOUS
    <3> QED BY <1>1, <3>1, <3>2, <3>3, <3>4
  <2> QED BY <2>1, <2>2
<1> QED BY <1>2, <1>3

LEMMA NextContract ==
  \A n \in 0 .. 28 :
    /\ Left(n) # <<>> /\ Head(Left(n)) = Order[n + 1] /\ Left(n) \in Seq(Contract)
    /\ IF n + 1 \in {1, 2, 3, 11, 12, 13, 18, 24, 25, 26, 27, 28, 29}
         THEN Instantiates(Order[n + 1]) \o Tail(Left(n)) = <<>>
         ELSE Instantiates(Order[n + 1]) \o Tail(Left(n)) = Left(n + 1)
<1>1. \A n \in 0 .. 28 : Left(n) # <<>> /\ Head(Left(n)) = Order[n + 1]
  BY DEF Left, Order
<1>2. \A n \in 0 .. 28 : Left(n) \in Seq(Contract)
  <2>1. ASSUME NEW n \in 0 .. 28, n \notin {4, 5, 6, 7, 8, 14, 15, 19, 20}
        PROVE  Left(n) \in Seq(Contract)
    <3>1. Left(n) = <<Order[n + 1]>>
      BY <2>1 DEF Left
    <3>2. Order[n + 1] \in Contract
      BY OrderNames
    <3> QED BY <3>1, <3>2
  <2>2. \A i \in 1 .. 29 : Order[i] \in Contract
    BY OrderNames
  <2>3. \A n \in {4, 5, 6, 7, 8} : Left(n) \in Seq(Contract)
    <3>1. {"VOTING_REGISTRY", "PROPOSAL_SINGLE", "PROPOSAL_MULTIPLE", "PROPOSAL_OVERRULE",
           "PRE_PROPOSAL", "PRE_PROPOSAL_MULTIPLE"} \subseteq Contract
      BY <2>2 DEF Order
    <3> QED BY <3>1 DEF Left
  <2>4. \A n \in {14, 15, 19, 20} : Left(n) \in Seq(Contract)
    <3>1. {"SECURITY_VOTING", "SECURITY_PROPOSAL", "SECURITY_GROUP", "GRANTS_VOTING",
           "GRANTS_PROPOSAL", "GRANTS_GROUP"} \subseteq Contract
      BY <2>2 DEF Order
    <3> QED BY <3>1 DEF Left
  <2> QED BY <2>1, <2>3, <2>4
<1>3. \A n \in {0, 1, 2, 10, 11, 12, 17, 23, 24, 25, 26, 27, 28} :
        Instantiates(Order[n + 1]) = <<>> /\ Tail(Left(n)) = <<>>
  BY DEF Left, Order, Instantiates
<1>4. \A n \in 0 .. 28 : Instantiates(Order[n + 1]) \in Seq(Contract)
  <2>1. {"VOTING_REGISTRY", "PROPOSAL_SINGLE", "PROPOSAL_MULTIPLE", "PROPOSAL_OVERRULE",
         "PRE_PROPOSAL", "PRE_PROPOSAL_MULTIPLE", "PRE_PROPOSAL_OVERRULE", "SECURITY_VOTING",
         "SECURITY_PROPOSAL", "SECURITY_GROUP", "SECURITY_PRE_PROPOSE", "GRANTS_VOTING",
         "GRANTS_PROPOSAL", "GRANTS_GROUP", "GRANTS_PRE_PROPOSE", "GRANTS_TIMELOCK"}
           \subseteq Contract
    <3>1. \A i \in 1 .. 29 : Order[i] \in Contract
      BY OrderNames
    <3> QED BY <3>1 DEF Order
  <2>2. \A c \in {"DAO", "PROPOSAL_SINGLE", "PROPOSAL_MULTIPLE", "PROPOSAL_OVERRULE"} :
          Instantiates(c) \in Seq(Contract)
    BY <2>1 DEF Instantiates
  <2>3. \A c \in {"SECURITY_CORE", "SECURITY_VOTING", "SECURITY_PROPOSAL"} :
          Instantiates(c) \in Seq(Contract)
    BY <2>1 DEF Instantiates
  <2>4. \A c \in {"GRANTS_CORE", "GRANTS_VOTING", "GRANTS_PROPOSAL", "GRANTS_PRE_PROPOSE"} :
          Instantiates(c) \in Seq(Contract)
    BY <2>1 DEF Instantiates
  <2>5. ASSUME NEW c, c \notin {"DAO", "PROPOSAL_SINGLE", "PROPOSAL_MULTIPLE", "PROPOSAL_OVERRULE",
                  "SECURITY_CORE", "SECURITY_VOTING", "SECURITY_PROPOSAL", "GRANTS_CORE",
                  "GRANTS_VOTING", "GRANTS_PROPOSAL", "GRANTS_PRE_PROPOSE"}
        PROVE  Instantiates(c) \in Seq(Contract)
    <3>1. Instantiates(c) = <<>>
      BY <2>5 DEF Instantiates
    <3> QED BY <3>1
  <2> QED BY <2>2, <2>3, <2>4, <2>5
<1> DEFINE Fits(n, u) == LET s == Instantiates(Order[n + 1])
                             t == Left(n)
                         IN  /\ Len(u) + 1 = Len(s) + Len(t)
                             /\ \A i \in 1 .. Len(s) : u[i] = s[i]
                             /\ \A i \in 2 .. Len(t) : u[Len(s) + i - 1] = t[i]
<1>c3. Fits(3, Left(4))
  BY DEF Left, Order, Instantiates
<1>c4. Fits(4, Left(5))
  BY DEF Left, Order, Instantiates
<1>c5. Fits(5, Left(6))
  BY DEF Left, Order, Instantiates
<1>c6. Fits(6, Left(7))
  BY DEF Left, Order, Instantiates
<1>c7. Fits(7, Left(8))
  BY DEF Left, Order, Instantiates
<1>c8. Fits(8, Left(9))
  BY DEF Left, Order, Instantiates
<1>c9. Fits(9, Left(10))
  BY DEF Left, Order, Instantiates
<1>c13. Fits(13, Left(14))
  BY DEF Left, Order, Instantiates
<1>c14. Fits(14, Left(15))
  BY DEF Left, Order, Instantiates
<1>c15. Fits(15, Left(16))
  BY DEF Left, Order, Instantiates
<1>c16. Fits(16, Left(17))
  BY DEF Left, Order, Instantiates
<1>c18. Fits(18, Left(19))
  BY DEF Left, Order, Instantiates
<1>c19. Fits(19, Left(20))
  BY DEF Left, Order, Instantiates
<1>c20. Fits(20, Left(21))
  BY DEF Left, Order, Instantiates
<1>c21. Fits(21, Left(22))
  BY DEF Left, Order, Instantiates
<1>c22. Fits(22, Left(23))
  BY DEF Left, Order, Instantiates
<1>11. ASSUME NEW n \in 0 .. 28, NEW u \in Seq(Contract), Fits(n, u)
       PROVE  Instantiates(Order[n + 1]) \o Tail(Left(n)) = u
  <2> DEFINE s == Instantiates(Order[n + 1])
             t == Left(n)
  <2>1. s \in Seq(Contract) /\ t \in Seq(Contract) /\ t # <<>>
    BY <1>1, <1>2, <1>4
  <2>2. /\ Len(u) + 1 = Len(s) + Len(t)
        /\ \A i \in 1 .. Len(s) : u[i] = s[i]
        /\ \A i \in 2 .. Len(t) : u[Len(s) + i - 1] = t[i]
    BY <1>11
  <2> HIDE DEF s, t
  <2>3. u \in Seq(Contract)
    OBVIOUS
  <2>4. s \o Tail(t) = u
    BY ONLY <2>1, <2>2, <2>3, Replaced
  <2> QED BY <2>4 DEF s, t
<1> HIDE DEF Fits
<1>10. \A n \in {3, 4, 5, 6, 7, 8, 9, 13, 14, 15, 16, 18, 19, 20, 21, 22} : Fits(n, Left(n + 1))
  BY <1>c3, <1>c4, <1>c5, <1>c6, <1>c7, <1>c8, <1>c9, <1>c13, <1>c14, <1>c15, <1>c16,
     <1>c18, <1>c19, <1>c20, <1>c21, <1>c22
<1>12. \A n \in {3, 4, 5, 6, 7, 8, 9, 13, 14, 15, 16, 18, 19, 20, 21, 22} :
         Instantiates(Order[n + 1]) \o Tail(Left(n)) = Left(n + 1)
  <2>1. \A n \in {3, 4, 5, 6, 7, 8, 9, 13, 14, 15, 16, 18, 19, 20, 21, 22} :
          n \in 0 .. 28 /\ Left(n + 1) \in Seq(Contract)
    <3>1. \A n \in {3, 4, 5, 6, 7, 8, 9, 13, 14, 15, 16, 18, 19, 20, 21, 22} :
            n \in 0 .. 28 /\ n + 1 \in 0 .. 28
      OBVIOUS
    <3> QED BY ONLY <1>2, <3>1, Zenon
  <2> QED BY <1>10, <1>11, <2>1
<1>13. \A n \in {0, 1, 2, 10, 11, 12, 17, 23, 24, 25, 26, 27, 28} :
         Instantiates(Order[n + 1]) \o Tail(Left(n)) = <<>>
  <2>1. <<>> \o <<>> = <<>>
    OBVIOUS
  <2> QED BY ONLY <1>3, <2>1, Zenon
<1>14. \A n \in 0 .. 28 :
         IF n + 1 \in {1, 2, 3, 11, 12, 13, 18, 24, 25, 26, 27, 28, 29}
           THEN n \in {0, 1, 2, 10, 11, 12, 17, 23, 24, 25, 26, 27, 28}
           ELSE n \in {3, 4, 5, 6, 7, 8, 9, 13, 14, 15, 16, 18, 19, 20, 21, 22}
  OBVIOUS
<1>15. ASSUME NEW n \in 0 .. 28
       PROVE  IF n + 1 \in {1, 2, 3, 11, 12, 13, 18, 24, 25, 26, 27, 28, 29}
                THEN Instantiates(Order[n + 1]) \o Tail(Left(n)) = <<>>
                ELSE Instantiates(Order[n + 1]) \o Tail(Left(n)) = Left(n + 1)
  <2>1. CASE n + 1 \in {1, 2, 3, 11, 12, 13, 18, 24, 25, 26, 27, 28, 29}
    <3>1. n \in {0, 1, 2, 10, 11, 12, 17, 23, 24, 25, 26, 27, 28}
      BY <1>14, <2>1
    <3>2. Instantiates(Order[n + 1]) \o Tail(Left(n)) = <<>>
      BY ONLY <1>13, <3>1, Zenon
    <3> QED BY ONLY <2>1, <3>2, Zenon
  <2>2. CASE n + 1 \notin {1, 2, 3, 11, 12, 13, 18, 24, 25, 26, 27, 28, 29}
    <3>1. n \in {3, 4, 5, 6, 7, 8, 9, 13, 14, 15, 16, 18, 19, 20, 21, 22}
      BY <1>14, <2>2
    <3>2. Instantiates(Order[n + 1]) \o Tail(Left(n)) = Left(n + 1)
      BY ONLY <1>12, <3>1, Zenon
    <3> QED BY ONLY <2>2, <3>2, Zenon
  <2> QED BY ONLY <2>1, <2>2, Zenon
<1> QED BY ONLY <1>1, <1>2, <1>15, Zenon

LEMMA MessageContract ==
  \A k \in 1 .. 13 :
    /\ Before[k] \in 0 .. 28 /\ Before[k] < Before[k + 1] /\ Before[k + 1] \in 1 .. 29
    /\ Left(Before[k]) = <<InitOrder[k]>>
BY DEF Before, Left, Order, InitOrder

LEMMA Ends ==
  \A k \in 1 .. 13 : \A n \in 0 .. 28 : Before[k] <= n /\ n < Before[k + 1] =>
    (n + 1 = Before[k + 1] <=> n + 1 \in {1, 2, 3, 11, 12, 13, 18, 24, 25, 26, 27, 28, 29})
BY DEF Before

LEMMA ExecutedThere ==
  \A k \in 1 .. 3 : \E i \in 1 .. 29 :
    /\ ExecuteOrder[k] = Order[i] /\ Predictions[i][1] = Order[i]
    /\ Predictions[i][2] = Binary(Order[i])
BY DEF ExecuteOrder, Order, Predictions, Binary

LEMMA ReferencedPredicted ==
  \A i \in 1 .. 29 : Order[i] \in Referenced =>
    Predictions[i][1] = Order[i] /\ Predictions[i][2] = Binary(Order[i])
BY DEF Order, Referenced, Predictions, Binary

-------------------------------------------------------------------------------
(* The invariant.                                                           *)

LEMMA InitGenesisInv == GenesisInit => GenesisInv
<1> SUFFICES ASSUME GenesisInit PROVE GenesisInv
  OBVIOUS
<1> USE DEF GenesisInit
<1>1. Behind = 0 /\ Binaries = 0
  BY DEF Behind, Binaries
<1>2. GenesisTypes
  BY DEF GenesisTypes
<1>3. MessagesRight
  BY <1>1 DEF MessagesRight
<1>4. IdsRight /\ PredictionsRight
  BY <1>1 DEF IdsRight, PredictionsRight
<1>5. Run = 0
  BY <1>1 DEF Run
<1>6. ChainRight
  BY <1>1, <1>5 DEF ChainRight
<1> QED BY <1>2, <1>3, <1>4, <1>6 DEF GenesisInv, GenesisRuns

(* What each command of the script is. *)
LEMMA CommandIs ==
  ASSUME step \in 1 .. 69
  PROVE  /\ Runs("store") => step \in 1 .. 23 /\ Operand = StoreOrder[step]
         /\ Runs("genaddr") => step - 23 \in 1 .. 29 /\ Operand = Predictions[step - 23]
         /\ Runs("instantiate") \/ Runs("execute") => step \in 53 .. 68
         /\ (\E name : Runs(name)) => neutron = "off" /\ step' = step + 1 /\ step <= 68
<1>1. step <= 68 => \/ step \in 1 .. 23 /\ Script[step] = <<"store", StoreOrder[step]>>
                    \/ step - 23 \in 1 .. 29 /\ Script[step] = <<"genaddr", Predictions[step - 23]>>
                    \/ step - 52 \in 1 .. 13 /\ Script[step] = <<"instantiate", InitOrder[step - 52]>>
                    \/ step - 65 \in 1 .. 3 /\ Script[step] = <<"execute", ExecuteOrder[step - 65]>>
  <2>1. CASE step \in 1 .. 23
    BY <2>1, ScriptAt
  <2>2. CASE step \in 24 .. 52
    <3>1. step - 23 \in 1 .. 29 /\ 23 + (step - 23) = step
      BY <2>2
    <3> QED BY <3>1, ScriptAt
  <2>3. CASE step \in 53 .. 65
    <3>1. step - 52 \in 1 .. 13 /\ 52 + (step - 52) = step
      BY <2>3
    <3> QED BY <3>1, ScriptAt
  <2>4. CASE step \in 66 .. 68
    <3>1. step - 65 \in 1 .. 3 /\ 65 + (step - 65) = step
      BY <2>4
    <3> QED BY <3>1, ScriptAt
  <2> QED BY <2>1, <2>2, <2>3, <2>4
<1>2. \A name : Runs(name) => neutron = "off" /\ step' = step + 1 /\ step <= 68
        /\ Script[step][1] = name
  BY ScriptAt DEF Runs
<1>3. Runs("store") => step \in 1 .. 23 /\ Operand = StoreOrder[step]
  BY <1>1, <1>2 DEF Operand
<1>4. Runs("genaddr") => step - 23 \in 1 .. 29 /\ Operand = Predictions[step - 23]
  BY <1>1, <1>2 DEF Operand
<1>5. Runs("instantiate") \/ Runs("execute") => step \in 53 .. 68
  BY <1>1, <1>2
<1> QED BY <1>2, <1>3, <1>4, <1>5

(* As long as the script runs, the chain has not begun.                     *)
LEMMA ChainWaits ==
  ASSUME GenesisInv, neutron = "off", UNCHANGED chainVars, Binaries' \in Nat, Len(genMsgs') \in Nat
  PROVE  ChainRight' /\ GenesisRuns'
<1>1. next = 1 /\ pending = <<>> /\ contracts = <<>> /\ codes = <<>>
  BY DEF GenesisInv, ChainRight
<1>2. /\ neutron' = "off" /\ next' = 1
      /\ pending' = <<>> /\ contracts' = <<>> /\ codes' = <<>>
  BY <1>1 DEF chainVars
<1>3. Run' <= 0
  <2>1. Run' = next' - 1 - Binaries'
    BY DEF Run
  <2>2. ASSUME NEW n \in Nat PROVE 1 - 1 - n <= 0
    OBVIOUS
  <2> QED BY ONLY <1>2, <2>1, <2>2, Binaries' \in Nat
<1> QED BY <1>2, <1>3 DEF ChainRight, GenesisRuns

LEMMA StoreBinaryKeeps == GenesisInv /\ StoreBinary => GenesisInv'
<1> SUFFICES ASSUME GenesisInv, StoreBinary PROVE GenesisInv'
  OBVIOUS
<1>1. GenesisTypes /\ MessagesRight /\ IdsRight /\ PredictionsRight
  BY DEF GenesisInv
<1>2. step \in 1 .. 23 /\ Operand = StoreOrder[step] /\ neutron = "off" /\ step' = step + 1
  <2>1. step \in 1 .. 69 /\ Runs("store")
    BY <1>1 DEF GenesisTypes, StoreBinary
  <2> QED BY <2>1, CommandIs
<1> DEFINE b == StoreOrder[step]
<1>3. b \in BinaryName
  BY <1>2, NamesOf
<1>4. Behind = 0 /\ Behind' = 0 /\ Binaries = Len(genMsgs)
  BY <1>1, <1>2 DEF Behind, Binaries, GenesisTypes
<1>5. Binaries' = Len(genMsgs')
  BY <1>4 DEF Binaries
<1>6. Stored = Len(genMsgs)
  <2>1. \A i \in 1 .. Len(genMsgs) : genMsgs[i][1] = "store"
    BY <1>1, <1>4 DEF MessagesRight
  <2>2. DOMAIN genMsgs = 1 .. Len(genMsgs) /\ Len(genMsgs) \in Nat
    BY <1>1 DEF GenesisTypes
  <2>3. {i \in DOMAIN genMsgs : genMsgs[i][1] = "store"} = 1 .. Len(genMsgs)
    BY ONLY <2>1, <2>2
  <2>4. Cardinality(1 .. Len(genMsgs)) = Len(genMsgs)
    <3>1. \A n \in Nat : Cardinality(1 .. n) = n
      <4>1. \A n \in Nat : Cardinality(1 .. n) = IF 1 > n THEN 0 ELSE n - 1 + 1
        BY FS_Interval
      <4> QED BY <4>1
    <3> QED BY ONLY <2>2, <3>1, Zenon
  <2> QED BY <2>3, <2>4 DEF Stored
<1>7. UNCHANGED <<address, INSTANCE_ID_COUNTER, chainVars>>
  BY DEF StoreBinary
<1>8. \/ /\ genMsgs' = Append(genMsgs, <<"store", b>>)
         /\ codeId' = [codeId EXCEPT ![b] = Len(genMsgs) + 1]
         /\ notStored' = notStored
      \/ /\ codeId' = [codeId EXCEPT ![b] = Len(genMsgs)]
         /\ notStored' = notStored \union {b}
         /\ genMsgs' = genMsgs
  BY <1>2, <1>6 DEF StoreBinary
<1>9. PredictionsRight'
  <2>1. \A j \in 1 .. 29 : ~ 23 + j < step'
    BY <1>2
  <2> QED BY <1>1, <1>2, <1>7, <2>1 DEF PredictionsRight
<1>10. \A j \in 1 .. 23 : j # step => StoreOrder[j] # b
  BY <1>2, StoredOnce
<1> HIDE DEF b
<1>11. b \notin notStored /\ \A i \in 1 .. Len(genMsgs) : genMsgs[i][2] # b
  <2>1. b \notin notStored
    BY <1>1, <1>2 DEF IdsRight, b
  <2>2. ASSUME NEW i \in 1 .. Len(genMsgs) PROVE genMsgs[i][2] # b
    <3>1. PICK j \in 1 .. 23 : j < step /\ genMsgs[i][2] = StoreOrder[j]
      BY <1>1, <1>4 DEF MessagesRight
    <3>2. j # step
      BY <1>2, <3>1
    <3> QED BY <1>10, <3>1, <3>2
  <2> QED BY <2>1, <2>2
<1>12. GenesisTypes'
  <2>1. step' \in 1 .. 69
    BY <1>2
  <2>2. genMsgs' \in Seq({"store", "instantiate", "execute"} \X (BinaryName \union Contract))
    <3> DEFINE S == {"store", "instantiate", "execute"} \X (BinaryName \union Contract)
    <3>1. genMsgs \in Seq(S)
      BY <1>1 DEF GenesisTypes
    <3>2. <<"store", b>> \in S
      BY <1>3 DEF b
    <3> HIDE DEF S
    <3>3. Append(genMsgs, <<"store", b>>) \in Seq(S)
      BY ONLY <3>1, <3>2
    <3>4. genMsgs' \in Seq(S)
      BY ONLY <1>8, <3>1, <3>3, Zenon
    <3> QED BY <3>4 DEF S
  <2>3. codeId' \in [BinaryName -> Nat]
    <3>1. Len(genMsgs) \in Nat
      BY <1>1 DEF GenesisTypes
    <3>2. codeId \in [BinaryName -> Nat]
      BY <1>1 DEF GenesisTypes
    <3>3. \A n \in Nat : [codeId EXCEPT ![b] = n] \in [BinaryName -> Nat]
      BY ONLY <3>2
    <3>4. Len(genMsgs) + 1 \in Nat
      BY ONLY <3>1
    <3> QED BY ONLY <1>8, <3>1, <3>3, <3>4, Zenon
  <2>4. notStored' \subseteq BinaryName
    BY <1>1, <1>3, <1>8 DEF GenesisTypes, b
  <2> QED BY <1>1, <1>7, <2>1, <2>2, <2>3, <2>4 DEF GenesisTypes, chainVars
<1>13. Len(genMsgs) \in Nat /\ Len(genMsgs') \in Nat
  BY <1>1, <1>12 DEF GenesisTypes
<1>14. ChainRight' /\ GenesisRuns'
  BY <1>2, <1>5, <1>7, <1>13, ChainWaits
<1>15. codeId[b] \in Nat /\ codeId \in [BinaryName -> Nat] /\ b \in BinaryName
  BY <1>1, <1>3 DEF GenesisTypes, b
<1>16. \A j \in 1 .. 23 : j < step' => j < step \/ j = step
  BY <1>2
<1>17. \A j \in 1 .. 23 : j < step => j < step' /\ StoreOrder[j] # b
  BY <1>2, <1>10
<1>18. CASE genMsgs' = genMsgs /\ notStored' = notStored \union {b}
              /\ codeId' = [codeId EXCEPT ![b] = Len(genMsgs)]
  <2>1. MessagesRight'
    <3>1. \A i \in 1 .. Behind' : FALSE
      BY <1>4
    <3>2. \A i \in 1 .. Len(genMsgs) :
            genMsgs[i][1] = "store" /\ \E j \in 1 .. 23 : j < step
              /\ genMsgs[i][2] = StoreOrder[j]
      BY <1>1, <1>4 DEF MessagesRight
    <3> QED BY <1>5, <1>13, <1>17, <1>18, <3>1, <3>2 DEF MessagesRight
  <2>2. IdsRight'
    <3> SUFFICES ASSUME NEW j \in 1 .. 23
                 PROVE  IF StoreOrder[j] \in notStored'
                          THEN j < step' /\ \A i \in 1 .. Binaries' :
                            genMsgs'[i][2] # StoreOrder[j]
                          ELSE j < step' => codeId'[StoreOrder[j]] \in 1 .. Binaries'
                                              /\ genMsgs'[codeId'[StoreOrder[j]]][2] = StoreOrder[j]
      BY DEF IdsRight
    <3>1. CASE j = step
      <4>1. StoreOrder[j] = b /\ j < step'
        BY <1>2, <3>1 DEF b
      <4> QED BY <1>5, <1>11, <1>18, <4>1
    <3>2. CASE j # step
      <4>1. StoreOrder[j] # b /\ codeId'[StoreOrder[j]] = codeId[StoreOrder[j]]
        BY <1>10, <1>15, <1>18, <3>2, NamesOf
      <4>2. IF StoreOrder[j] \in notStored
              THEN j < step /\ \A i \in 1 .. Len(genMsgs) : genMsgs[i][2] # StoreOrder[j]
              ELSE j < step => codeId[StoreOrder[j]] \in 1 .. Len(genMsgs)
                                 /\ genMsgs[codeId[StoreOrder[j]]][2] = StoreOrder[j]
        BY <1>1, <1>4 DEF IdsRight
      <4>3. j < step' <=> j < step
        BY <1>2, <3>2
      <4> QED BY ONLY <1>5, <1>18, <4>1, <4>2, <4>3
    <3> QED BY <3>1, <3>2
  <2> QED BY <1>9, <1>12, <1>14, <2>1, <2>2 DEF GenesisInv
<1>19. CASE /\ genMsgs' = Append(genMsgs, <<"store", b>>) /\ notStored' = notStored
            /\ codeId' = [codeId EXCEPT ![b] = Len(genMsgs) + 1]
  <2>1. /\ Len(genMsgs') = Len(genMsgs) + 1 /\ genMsgs'[Len(genMsgs) + 1] = <<"store", b>>
        /\ \A i \in 1 .. Len(genMsgs) : genMsgs'[i] = genMsgs[i]
    BY <1>1, <1>19 DEF GenesisTypes
  <2>2. MessagesRight'
    <3>1. \A i \in 1 .. Behind' : FALSE
      BY <1>4
    <3>2. ASSUME NEW i \in 1 .. Len(genMsgs')
          PROVE  genMsgs'[i][1] = "store" /\ \E j \in 1 .. 23 : j < step'
                   /\ genMsgs'[i][2] = StoreOrder[j]
      <4>1. CASE i \in 1 .. Len(genMsgs)
        <5>1. genMsgs[i][1] = "store" /\ \E j \in 1 .. 23 : j < step
                /\ genMsgs[i][2] = StoreOrder[j]
          BY <1>1, <1>4, <4>1 DEF MessagesRight
        <5> QED BY <1>17, <2>1, <4>1, <5>1
      <4>2. CASE i = Len(genMsgs) + 1
        <5>1. genMsgs'[i][1] = "store" /\ genMsgs'[i][2] = StoreOrder[step] /\ step < step'
          BY <1>2, <2>1, <4>2 DEF b
        <5> QED BY <1>2, <5>1
      <4>3. i \in 1 .. Len(genMsgs) \/ i = Len(genMsgs) + 1
        BY <1>13, <2>1
      <4> QED BY <4>1, <4>2, <4>3
    <3> QED BY <1>5, <1>13, <3>1, <3>2 DEF MessagesRight
  <2>3. IdsRight'
    <3> SUFFICES ASSUME NEW j \in 1 .. 23
                 PROVE  IF StoreOrder[j] \in notStored'
                          THEN j < step' /\ \A i \in 1 .. Binaries' :
                            genMsgs'[i][2] # StoreOrder[j]
                          ELSE j < step' => codeId'[StoreOrder[j]] \in 1 .. Binaries'
                                              /\ genMsgs'[codeId'[StoreOrder[j]]][2] = StoreOrder[j]
      BY DEF IdsRight
    <3>1. CASE j = step
      <4>1. StoreOrder[j] = b /\ j < step' /\ b \notin notStored'
        BY <1>2, <1>11, <1>19, <3>1 DEF b
      <4>2. codeId'[b] = Len(genMsgs) + 1
        BY <1>15, <1>19
      <4>3. Len(genMsgs) + 1 \in 1 .. Len(genMsgs')
        BY <1>13, <2>1
      <4> QED BY <1>5, <2>1, <4>1, <4>2, <4>3
    <3>2. CASE j # step
      <4>1. StoreOrder[j] # b /\ codeId'[StoreOrder[j]] = codeId[StoreOrder[j]]
        BY <1>10, <1>15, <1>19, <3>2, NamesOf
      <4>2. IF StoreOrder[j] \in notStored
              THEN j < step /\ \A i \in 1 .. Len(genMsgs) : genMsgs[i][2] # StoreOrder[j]
              ELSE j < step => codeId[StoreOrder[j]] \in 1 .. Len(genMsgs)
                                 /\ genMsgs[codeId[StoreOrder[j]]][2] = StoreOrder[j]
        BY <1>1, <1>4 DEF IdsRight
      <4>3. j < step' <=> j < step
        BY <1>2, <3>2
      <4>4. CASE StoreOrder[j] \in notStored
        <5>1. ASSUME NEW i \in 1 .. Len(genMsgs') PROVE genMsgs'[i][2] # StoreOrder[j]
          <6>1. i \in 1 .. Len(genMsgs) \/ i = Len(genMsgs) + 1
            BY <1>13, <2>1
          <6> QED BY <2>1, <4>1, <4>2, <4>4, <6>1
        <5> QED BY <1>5, <1>19, <4>2, <4>3, <4>4, <5>1
      <4>5. CASE StoreOrder[j] \notin notStored
        <5>1. \A i \in 1 .. Len(genMsgs) : i \in 1 .. Len(genMsgs')
          BY <1>13, <2>1
        <5> QED BY <1>5, <1>19, <2>1, <4>1, <4>2, <4>3, <4>5, <5>1
      <4> QED BY <4>4, <4>5
    <3> QED BY <3>1, <3>2
  <2> QED BY <1>9, <1>12, <1>14, <2>2, <2>3 DEF GenesisInv
<1> QED BY <1>8, <1>18, <1>19

LEMMA GenAddrKeeps == GenesisInv /\ GenAddr => GenesisInv'
<1> SUFFICES ASSUME GenesisInv, GenAddr PROVE GenesisInv'
  OBVIOUS
<1>1. GenesisTypes /\ MessagesRight /\ IdsRight /\ PredictionsRight
  BY DEF GenesisInv
<1>2. step - 23 \in 1 .. 29 /\ Operand = Predictions[step - 23] /\ neutron = "off"
        /\ step' = step + 1
  <2>1. step \in 1 .. 69 /\ Runs("genaddr")
    BY <1>1 DEF GenesisTypes, GenAddr
  <2> QED BY <2>1, CommandIs
<1>3. step \in 24 .. 52
  BY <1>1, <1>2 DEF GenesisTypes
<1>4. Behind = 0 /\ Behind' = 0
  BY <1>2, <1>3 DEF Behind
<1>5. UNCHANGED <<codeId, genMsgs, notStored, chainVars>>
  BY DEF GenAddr
<1>6. Binaries' = Binaries
  BY <1>4, <1>5 DEF Binaries
<1>7. Binaries' \in Nat /\ Len(genMsgs') \in Nat
  BY <1>1, <1>5, <1>6 DEF MessagesRight, GenesisTypes
<1>8. ChainRight' /\ GenesisRuns'
  BY <1>2, <1>5, <1>7, ChainWaits DEF chainVars
<1>9. MessagesRight'
  BY <1>1, <1>2, <1>3, <1>4, <1>5, <1>6, <1>7 DEF MessagesRight
<1>10. IdsRight'
  BY <1>1, <1>2, <1>3, <1>5, <1>6 DEF IdsRight
<1> DEFINE k == step - 23
<1>11. INSTANCE_ID_COUNTER = k
  BY <1>1, <1>3 DEF PredictionsRight
<1>12. /\ address' = [address EXCEPT ![Predictions[k][1]] = <<k, codeId[Predictions[k][2]]>>]
       /\ INSTANCE_ID_COUNTER' = k + 1
  BY <1>2, <1>11 DEF GenAddr
<1>13. k \in 1 .. 29
  BY <1>2
<1>14. \A j \in 1 .. 29 : Predictions[j][1] \in Contract /\ Predictions[j][2] \in BinaryName
  <2>1. \A j \in 1 .. 29 : Predictions[j][1] \in Contract
    BY NamesOf
  <2>2. \A j \in 1 .. 29 : \E i \in 1 .. 23 : Predictions[j][2] = StoreOrder[i]
    BY DEF Predictions, StoreOrder
  <2> QED BY <2>1, <2>2, NamesOf
<1>15. step = k + 23
  BY <1>3
<1> HIDE DEF k
<1>16. PredictionsRight'
  <2>1. INSTANCE_ID_COUNTER' = IF step' <= 24 THEN 1 ELSE IF step' <= 53 THEN step' - 23 ELSE 30
    BY <1>2, <1>12, <1>13, <1>15
  <2>2. ASSUME NEW j \in 1 .. 29, 23 + j < step'
        PROVE  address'[Predictions[j][1]] = <<j, codeId'[Predictions[j][2]]>>
    <3>1. address \in [Contract -> Nat \X Nat]
      BY <1>1 DEF GenesisTypes
    <3>2. CASE j = k
      BY <1>5, <1>12, <1>14, <3>1, <3>2
    <3>3. CASE j # k
      <4>1. 23 + j < step
        BY <1>2, <1>13, <1>15, <2>2, <3>3
      <4>2. address[Predictions[j][1]] = <<j, codeId[Predictions[j][2]]>>
        BY <1>1, <4>1 DEF PredictionsRight
      <4>3. Predictions[j][1] # Predictions[k][1]
        BY <1>13, <3>3, PredictedOnce
      <4> QED BY <1>5, <1>12, <1>14, <3>1, <4>2, <4>3
    <3> QED BY <3>2, <3>3
  <2> QED BY <2>1, <2>2 DEF PredictionsRight
<1>17. GenesisTypes'
  <2>1. address' \in [Contract -> Nat \X Nat]
    <3>1. address \in [Contract -> Nat \X Nat] /\ codeId \in [BinaryName -> Nat]
      BY <1>1 DEF GenesisTypes
    <3>2. <<k, codeId[Predictions[k][2]]>> \in Nat \X Nat
      BY <1>13, <1>14, <3>1
    <3> QED BY <1>12, <3>1, <3>2
  <2>2. step' \in 1 .. 69 /\ INSTANCE_ID_COUNTER' \in Nat
    BY <1>2, <1>3, <1>12, <1>13
  <2> QED BY <1>1, <1>5, <2>1, <2>2 DEF GenesisTypes, chainVars
<1> QED BY <1>8, <1>9, <1>10, <1>16, <1>17 DEF GenesisInv

LEMMA AddMessageKeeps == GenesisInv /\ AddMessage => GenesisInv'
<1> SUFFICES ASSUME GenesisInv, AddMessage PROVE GenesisInv'
  OBVIOUS
<1>1. GenesisTypes /\ MessagesRight /\ IdsRight /\ PredictionsRight
  BY DEF GenesisInv
<1>2. step \in 53 .. 68 /\ neutron = "off" /\ step' = step + 1
  <2>1. step \in 1 .. 69 /\ (Runs("instantiate") \/ Runs("execute"))
    BY <1>1 DEF GenesisTypes, AddMessage
  <2> QED BY <2>1, CommandIs
<1>3. UNCHANGED <<codeId, address, INSTANCE_ID_COUNTER, notStored, chainVars>>
        /\ genMsgs' = Append(genMsgs, Script[step])
  BY DEF AddMessage
<1> DEFINE S == {"store", "instantiate", "execute"} \X (BinaryName \union Contract)
<1>4. genMsgs \in Seq(S)
  BY <1>1 DEF GenesisTypes
<1>5. Script[step] \in S
  <2>1. CASE step \in 53 .. 65
    <3>1. step - 52 \in 1 .. 13 /\ 52 + (step - 52) = step
      BY <2>1
    <3>2. Script[step] = <<"instantiate", InitOrder[step - 52]>>
      BY <3>1, ScriptAt
    <3>3. InitOrder[step - 52] \in Contract
      BY <3>1, OrderNames
    <3> QED BY <3>2, <3>3
  <2>2. CASE step \in 66 .. 68
    <3>1. step - 65 \in 1 .. 3 /\ 65 + (step - 65) = step
      BY <2>2
    <3>2. Script[step] = <<"execute", ExecuteOrder[step - 65]>>
      BY <3>1, ScriptAt
    <3>3. ExecuteOrder[step - 65] \in Contract
      BY <3>1, ExecutedThere, OrderNames
    <3> QED BY <3>2, <3>3
  <2> QED BY <1>2, <2>1, <2>2
<1> HIDE DEF S
<1>6. /\ genMsgs' \in Seq(S) /\ Len(genMsgs) \in Nat /\ Len(genMsgs') = Len(genMsgs) + 1
      /\ genMsgs'[Len(genMsgs) + 1] = Script[step]
      /\ \A i \in 1 .. Len(genMsgs) : genMsgs'[i] = genMsgs[i]
  BY ONLY <1>3, <1>4, <1>5
<1>7. Behind = step - 53 /\ Behind' = step - 52
  BY <1>2 DEF Behind
<1>8. Binaries = Len(genMsgs) - (step - 53) /\ Binaries' = Binaries /\ Binaries \in Nat
  BY <1>1, <1>2, <1>6, <1>7 DEF Binaries, MessagesRight
<1>9. Binaries' \in Nat /\ Len(genMsgs') \in Nat
  BY <1>6, <1>8
<1>10. ChainRight' /\ GenesisRuns'
  BY <1>2, <1>3, <1>9, ChainWaits DEF chainVars
<1>11. \A i \in 1 .. Binaries : i \in 1 .. Len(genMsgs) /\ genMsgs'[i] = genMsgs[i]
  BY <1>2, <1>6, <1>8
<1>12. MessagesRight'
  <2>1. \A i \in 1 .. Binaries : genMsgs'[i][1] = "store" /\ \E j \in 1 .. 23 : j < step'
          /\ genMsgs'[i][2] = StoreOrder[j]
    <3>1. \A i \in 1 .. Binaries : genMsgs[i][1] = "store" /\ \E j \in 1 .. 23 : j < step
            /\ genMsgs[i][2] = StoreOrder[j]
      BY <1>1 DEF MessagesRight
    <3>2. \A j \in 1 .. 23 : j < step'
      BY <1>2
    <3> QED BY ONLY <1>11, <3>1, <3>2, Zenon
  <2>2. ASSUME NEW i \in 1 .. Behind' PROVE genMsgs'[Binaries' + i] = Script[52 + i]
    <3>1. CASE i \in 1 .. Behind
      <4>1. Binaries + i \in 1 .. Len(genMsgs)
        BY <1>2, <1>6, <1>7, <1>8, <3>1
      <4>2. genMsgs[Binaries + i] = Script[52 + i]
        BY <1>1, <3>1 DEF MessagesRight
      <4> QED BY ONLY <1>6, <1>8, <4>1, <4>2, Zenon
    <3>2. CASE i = step - 52
      <4>1. Binaries' + i = Len(genMsgs) + 1 /\ 52 + i = step
        BY <1>2, <1>6, <1>8, <3>2
      <4> QED BY ONLY <1>6, <4>1, Zenon
    <3>3. i \in 1 .. Behind \/ i = step - 52
      BY <1>2, <1>7
    <3> QED BY <3>1, <3>2, <3>3
  <2> QED BY <1>8, <2>1, <2>2 DEF MessagesRight
<1>13. IdsRight'
  <2> SUFFICES ASSUME NEW j \in 1 .. 23
               PROVE  IF StoreOrder[j] \in notStored'
                        THEN j < step' /\ \A i \in 1 .. Binaries' : genMsgs'[i][2] # StoreOrder[j]
                        ELSE j < step' => codeId'[StoreOrder[j]] \in 1 .. Binaries'
                                            /\ genMsgs'[codeId'[StoreOrder[j]]][2] = StoreOrder[j]
    BY DEF IdsRight
  <2>1. j < step /\ j < step'
    BY <1>2
  <2>2. IF StoreOrder[j] \in notStored
          THEN j < step /\ \A i \in 1 .. Binaries : genMsgs[i][2] # StoreOrder[j]
          ELSE j < step => codeId[StoreOrder[j]] \in 1 .. Binaries
                             /\ genMsgs[codeId[StoreOrder[j]]][2] = StoreOrder[j]
    BY <1>1 DEF IdsRight
  <2>3. notStored' = notStored /\ codeId' = codeId
    BY <1>3
  <2> QED BY ONLY <1>8, <1>11, <2>1, <2>2, <2>3
<1>14. PredictionsRight'
  <2>1. \A j \in 1 .. 29 : 23 + j < step /\ 23 + j < step'
    BY <1>2
  <2>2. INSTANCE_ID_COUNTER = 30
    BY <1>1, <1>2 DEF PredictionsRight
  <2>3. INSTANCE_ID_COUNTER' = IF step' <= 24 THEN 1 ELSE IF step' <= 53 THEN step' - 23 ELSE 30
    BY <1>2, <1>3, <2>2
  <2>4. \A j \in 1 .. 29 : address[Predictions[j][1]] = <<j, codeId[Predictions[j][2]]>>
    BY <1>1, <2>1 DEF PredictionsRight
  <2> QED BY <1>3, <2>3, <2>4 DEF PredictionsRight
<1>15. GenesisTypes'
  <2>1. step' \in 1 .. 69
    BY <1>2
  <2> QED BY <1>1, <1>3, <1>6, <2>1 DEF GenesisTypes, chainVars, S
<1> QED BY <1>10, <1>12, <1>13, <1>14, <1>15 DEF GenesisInv

(* Once the script is through, what it left does not change.                *)
LEMMA ScriptRests ==
  ASSUME GenesisInv, UNCHANGED scriptVars
  PROVE  /\ MessagesRight' /\ IdsRight' /\ PredictionsRight' /\ Binaries' = Binaries
         /\ Len(genMsgs') = Len(genMsgs)
         /\ \A c : CodeFits(c)' <=> LET id == codeId[Binary(c)] IN id \in DOMAIN codes'
              /\ Takes(codes'[id], c)
<1>1. /\ step' = step /\ codeId' = codeId /\ address' = address /\ genMsgs' = genMsgs
      /\ INSTANCE_ID_COUNTER' = INSTANCE_ID_COUNTER /\ notStored' = notStored
  BY DEF scriptVars
<1>2. Behind' = Behind /\ Binaries' = Binaries
  BY <1>1 DEF Behind, Binaries
<1>3. MessagesRight /\ IdsRight /\ PredictionsRight
  BY DEF GenesisInv
<1> HIDE DEF Behind, Binaries
<1>4. MessagesRight'
  BY <1>1, <1>2, <1>3 DEF MessagesRight
<1>5. IdsRight'
  BY <1>1, <1>2, <1>3 DEF IdsRight
<1>6. PredictionsRight'
  BY <1>1, <1>3 DEF PredictionsRight
<1> QED BY <1>1, <1>2, <1>4, <1>5, <1>6 DEF CodeFits

(* The messages the chain finds.                                            *)
LEMMA MessagesFound ==
  ASSUME GenesisTypes, MessagesRight, step = 69
  PROVE  /\ Binaries \in Nat /\ Len(genMsgs) = Binaries + 16
         /\ \A i \in 1 .. Binaries : genMsgs[i][1] = "store" /\ genMsgs[i][2] \in BinaryName
         /\ \A i \in 1 .. 13 : genMsgs[Binaries + i] = <<"instantiate", InitOrder[i]>>
         /\ \A i \in 1 .. 3 : genMsgs[Binaries + 13 + i] = <<"execute", ExecuteOrder[i]>>
<1>1. Behind = 16 /\ Binaries \in Nat
  BY DEF Behind, MessagesRight
<1>2. Len(genMsgs) = Binaries + 16
  <2>1. Len(genMsgs) \in Nat
    BY DEF GenesisTypes
  <2> QED BY <1>1, <2>1 DEF Binaries
<1>3. \A i \in 1 .. Binaries : genMsgs[i][1] = "store" /\ genMsgs[i][2] \in BinaryName
  BY NamesOf DEF MessagesRight
<1>4. \A i \in 1 .. 16 : genMsgs[Binaries + i] = Script[52 + i]
  BY <1>1 DEF MessagesRight
<1>5. ASSUME NEW i \in 1 .. 13 PROVE genMsgs[Binaries + i] = <<"instantiate", InitOrder[i]>>
  <2>1. i \in 1 .. 16
    OBVIOUS
  <2>2. Script[52 + i] = <<"instantiate", InitOrder[i]>>
    BY ScriptAt
  <2> QED BY ONLY <1>4, <2>1, <2>2, Zenon
<1>6. ASSUME NEW i \in 1 .. 3 PROVE genMsgs[Binaries + 13 + i] = <<"execute", ExecuteOrder[i]>>
  <2>1. 13 + i \in 1 .. 16 /\ Binaries + (13 + i) = Binaries + 13 + i /\ 52 + (13 + i) = 65 + i
    BY <1>1
  <2>2. Script[65 + i] = <<"execute", ExecuteOrder[i]>>
    BY ScriptAt
  <2> QED BY ONLY <1>4, <2>1, <2>2, Zenon
<1> QED BY <1>1, <1>2, <1>3, <1>5, <1>6

LEMMA StartChainKeeps == GenesisInv /\ StartChain => GenesisInv'
<1> SUFFICES ASSUME GenesisInv, StartChain PROVE GenesisInv'
  OBVIOUS
<1>1. GenesisTypes /\ ChainRight
  BY DEF GenesisInv
<1>2. step = 69 /\ neutron = "off"
  BY <1>1, ScriptAt DEF GenesisTypes, StartChain
<1>3. neutron' = "genesis" /\ UNCHANGED <<scriptVars, next, codes, pending, contracts>>
  BY DEF StartChain
<1>4. GenesisTypes'
  BY <1>1, <1>3 DEF GenesisTypes, scriptVars
<1>5. MessagesRight' /\ IdsRight' /\ PredictionsRight' /\ Binaries' = Binaries
        /\ Len(genMsgs') = Len(genMsgs)
  BY <1>3, ScriptRests
<1>6. next = 1 /\ pending = <<>> /\ contracts = <<>> /\ codes = <<>>
  BY <1>1, <1>2 DEF ChainRight
<1>7. Binaries \in Nat /\ Run = 0 - Binaries
  BY <1>6 DEF Run, GenesisInv, MessagesRight
<1>8. Run' = Run
  BY <1>3, <1>5 DEF Run
<1>9. step' = 69
  BY <1>2, <1>3 DEF scriptVars
<1>10. Len(genMsgs) \in Nat
  BY <1>1 DEF GenesisTypes
<1>11. ChainRight'
  BY <1>3, <1>5, <1>6, <1>7, <1>8, <1>9, <1>10 DEF ChainRight
<1> QED BY <1>3, <1>4, <1>5, <1>11 DEF GenesisInv, GenesisRuns

(* The message the chain comes to.                                          *)
LEMMA MessageKind ==
  ASSUME GenesisTypes, MessagesRight, step = 69, next \in 1 .. Len(genMsgs)
  PROVE  /\ genMsgs[next][1] = "store" => next \in 1 .. Binaries
         /\ genMsgs[next][1] = "instantiate" =>
              /\ next - Binaries \in 1 .. 13
              /\ genMsgs[next] = <<"instantiate", InitOrder[next - Binaries]>>
         /\ genMsgs[next][1] = "execute" =>
              /\ next - Binaries - 13 \in 1 .. 3
              /\ genMsgs[next] = <<"execute", ExecuteOrder[next - Binaries - 13]>>
<1>1. /\ Binaries \in Nat /\ Len(genMsgs) = Binaries + 16
      /\ \A i \in 1 .. Binaries : genMsgs[i][1] = "store"
      /\ \A i \in 1 .. 13 : genMsgs[Binaries + i] = <<"instantiate", InitOrder[i]>>
      /\ \A i \in 1 .. 3 : genMsgs[Binaries + 13 + i] = <<"execute", ExecuteOrder[i]>>
  BY MessagesFound
<1>2. \/ next \in 1 .. Binaries
      \/ next - Binaries \in 1 .. 13 /\ Binaries + (next - Binaries) = next
      \/ next - Binaries - 13 \in 1 .. 3 /\ Binaries + 13 + (next - Binaries - 13) = next
  <2> SUFFICES ASSUME NEW m \in Nat, NEW l \in Nat, l = m + 16, NEW i \in 1 .. l
               PROVE  \/ i \in 1 .. m
                      \/ i - m \in 1 .. 13 /\ m + (i - m) = i
                      \/ i - m - 13 \in 1 .. 3 /\ m + 13 + (i - m - 13) = i
    <3>1. Len(genMsgs) \in Nat
      BY DEF GenesisTypes
    <3> QED BY ONLY <1>1, <3>1, next \in 1 .. Len(genMsgs)
  <2> QED BY ONLY l = m + 16, i \in 1 .. l, m \in Nat
<1>3. CASE next \in 1 .. Binaries
  BY ONLY <1>1, <1>3, "store" # "instantiate", "store" # "execute", Zenon
<1>4. CASE next - Binaries \in 1 .. 13 /\ Binaries + (next - Binaries) = next
  <2>1. genMsgs[next] = <<"instantiate", InitOrder[next - Binaries]>>
    BY ONLY <1>1, <1>4, Zenon
  <2>2. genMsgs[next][1] = "instantiate"
    BY ONLY <2>1
  <2> QED BY ONLY <1>4, <2>1, <2>2
<1>5. CASE next - Binaries - 13 \in 1 .. 3 /\ Binaries + 13 + (next - Binaries - 13) = next
  <2>1. genMsgs[next] = <<"execute", ExecuteOrder[next - Binaries - 13]>>
    BY ONLY <1>1, <1>5, Zenon
  <2>2. genMsgs[next][1] = "execute"
    BY ONLY <2>1
  <2> QED BY ONLY <1>5, <2>1, <2>2
<1> QED BY ONLY <1>2, <1>3, <1>4, <1>5, Zenon

LEMMA StoreCodeKeeps == GenesisInv /\ StoreCode => GenesisInv'
<1> SUFFICES ASSUME GenesisInv, StoreCode PROVE GenesisInv'
  OBVIOUS
<1>1. GenesisTypes /\ MessagesRight /\ ChainRight
  BY DEF GenesisInv
<1>2. /\ neutron = "genesis" /\ pending = <<>> /\ next <= Len(genMsgs)
           /\ genMsgs[next][1] = "store"
      /\ next' = next + 1 /\ codes' = Append(codes, genMsgs[next][2])
      /\ UNCHANGED <<scriptVars, neutron, pending, contracts>>
  BY DEF StoreCode, Handles
<1>3. step = 69 /\ next \in Nat /\ next >= 1 /\ Len(codes) \in Nat /\ Len(contracts) \in Nat
  BY <1>1, <1>2 DEF GenesisTypes, ChainRight
<1>4. /\ Binaries \in Nat /\ Len(genMsgs) = Binaries + 16
      /\ \A i \in 1 .. Binaries : genMsgs[i][2] \in BinaryName
      /\ \A i \in 1 .. 13 : genMsgs[Binaries + i] = <<"instantiate", InitOrder[i]>>
      /\ \A i \in 1 .. 3 : genMsgs[Binaries + 13 + i] = <<"execute", ExecuteOrder[i]>>
  BY <1>1, <1>3, MessagesFound
<1>5. next \in 1 .. Binaries
  <2>1. next \in 1 .. Len(genMsgs)
    BY ONLY <1>2, <1>3, <1>4
  <2> QED BY ONLY <1>1, <1>2, <1>3, <2>1, MessageKind
<1>6. /\ MessagesRight' /\ IdsRight' /\ PredictionsRight' /\ Binaries' = Binaries
      /\ Len(genMsgs') = Len(genMsgs)
  BY <1>2, ScriptRests
<1>7. Run <= 0 /\ Run' <= 0
  <2>1. Run = next - 1 - Binaries /\ Run' = next' - 1 - Binaries'
    BY DEF Run
  <2> QED BY <1>2, <1>3, <1>4, <1>5, <1>6, <2>1
<1>8. Len(codes) = next - 1 /\ Len(contracts) = 0
  BY <1>1, <1>2, <1>7 DEF ChainRight
<1>9. /\ codes' \in Seq(BinaryName) /\ Len(codes') = next /\ codes'[next] = genMsgs[next][2]
      /\ \A i \in 1 .. next - 1 : codes'[i] = codes[i]
  <2>1. codes \in Seq(BinaryName) /\ genMsgs[next][2] \in BinaryName
    BY <1>1, <1>4, <1>5 DEF GenesisTypes
  <2> QED BY ONLY <1>2, <1>3, <1>8, <2>1
<1>10. GenesisTypes'
  BY <1>1, <1>2, <1>3, <1>9 DEF GenesisTypes, scriptVars
<1>11. ASSUME NEW i \in 1 .. next PROVE codes'[i] = genMsgs'[i][2]
  <2>1. genMsgs' = genMsgs
    BY <1>2 DEF scriptVars
  <2>2. CASE i \in 1 .. next - 1
    <3>1. codes[i] = genMsgs[i][2]
      BY <1>1, <1>8, <2>2 DEF ChainRight
    <3> QED BY <1>9, <2>1, <2>2, <3>1
  <2>3. CASE i = next
    BY <1>9, <2>1, <2>3
  <2>4. i \in 1 .. next - 1 \/ i = next
    BY <1>3
  <2> QED BY <2>2, <2>3, <2>4
<1>12. ChainRight'
  <2>1. /\ step' = 69 /\ neutron' = "genesis" /\ pending' = <<>> /\ contracts' = contracts
    BY <1>2, <1>3 DEF scriptVars
  <2>2. next' >= 1 /\ next' <= Len(genMsgs') + 1 /\ Len(codes') = next' - 1
    <3>1. next' = next + 1 /\ Len(codes') = next /\ Len(genMsgs') = Binaries + 16
      BY ONLY <1>2, <1>4, <1>6, <1>9
    <3> QED BY ONLY <1>3, <1>4, <1>5, <3>1
  <2> QED BY <1>7, <1>8, <1>9, <1>11, <2>1, <2>2 DEF ChainRight
<1> QED BY <1>2, <1>6, <1>10, <1>12 DEF GenesisInv, GenesisRuns

LEMMA InstantiateMessageKeeps == GenesisInv /\ InstantiateMessage => GenesisInv'
<1> SUFFICES ASSUME GenesisInv, InstantiateMessage PROVE GenesisInv'
  OBVIOUS
<1>1. GenesisTypes /\ MessagesRight /\ ChainRight
  BY DEF GenesisInv
<1>2. /\ neutron = "genesis" /\ pending = <<>> /\ next <= Len(genMsgs)
           /\ genMsgs[next][1] = "instantiate"
      /\ next' = next + 1 /\ pending' = <<genMsgs[next][2]>>
      /\ UNCHANGED <<scriptVars, neutron, codes, contracts>>
  BY DEF InstantiateMessage, Handles
<1>3. step = 69 /\ next \in Nat /\ next >= 1 /\ Len(codes) \in Nat /\ Len(contracts) \in Nat
  BY <1>1, <1>2 DEF GenesisTypes, ChainRight
<1>4. /\ Binaries \in Nat /\ Len(genMsgs) = Binaries + 16
      /\ \A i \in 1 .. Binaries : genMsgs[i][1] = "store"
      /\ \A i \in 1 .. 13 : genMsgs[Binaries + i] = <<"instantiate", InitOrder[i]>>
      /\ \A i \in 1 .. 3 : genMsgs[Binaries + 13 + i] = <<"execute", ExecuteOrder[i]>>
  BY <1>1, <1>3, MessagesFound
<1> DEFINE k == next - Binaries
<1>5. k \in 1 .. 13 /\ genMsgs[next] = <<"instantiate", InitOrder[k]>>
  <2>1. next \in 1 .. Len(genMsgs)
    BY ONLY <1>2, <1>3, <1>4
  <2> QED BY <1>1, <1>2, <1>3, <2>1, MessageKind
<1>6. /\ MessagesRight' /\ IdsRight' /\ PredictionsRight' /\ Binaries' = Binaries
      /\ Len(genMsgs') = Len(genMsgs)
  BY <1>2, ScriptRests
<1>7. Run = k - 1 /\ Run' = k
  <2>1. Run = next - 1 - Binaries /\ Run' = next' - 1 - Binaries'
    BY DEF Run
  <2> QED BY <1>2, <1>3, <1>4, <1>5, <1>6, <2>1
<1>8. next = Binaries + k
  BY <1>3, <1>4
<1> HIDE DEF k
<1>9. pending' = <<InitOrder[k]>>
  <2>1. genMsgs[next][2] = InitOrder[k]
    BY ONLY <1>5
  <2> QED BY ONLY <1>2, <2>1, Zenon
<1>10. Len(contracts) = Before[k] /\ Len(codes) = Binaries
  <2>1. CASE k = 1
    <3>1. Before[k] = 0
      BY <2>1 DEF Before
    <3> QED BY <1>1, <1>2, <1>3, <1>4, <1>7, <1>8, <2>1, <3>1 DEF ChainRight
  <2>2. CASE k # 1
    <3>1. ~ (Run <= 0) /\ Begun + 1 = k
      BY <1>5, <1>7, <2>2 DEF Begun
    <3>2. /\ Len(contracts) = IF Run <= 0 THEN 0 ELSE Before[Begun + 1]
          /\ Len(codes) = IF Run <= 0 THEN next - 1 ELSE Binaries
      BY <1>1, <1>2 DEF ChainRight
    <3> QED BY ONLY <3>1, <3>2, Zenon
  <2> QED BY <2>1, <2>2
<1>11. /\ pending' = Left(Before[k]) /\ Before[k] < Before[k + 1]
       /\ Left(Before[k]) # <<>>
  <2>1. /\ Before[k] \in 0 .. 28 /\ Before[k] < Before[k + 1]
             /\ Left(Before[k]) = <<InitOrder[k]>>
    BY <1>5, MessageContract
  <2>2. Left(Before[k]) # <<>>
    BY <2>1, NextContract
  <2> QED BY ONLY <1>9, <2>1, <2>2, Zenon
<1>12. GenesisTypes'
  <2>1. InitOrder[k] \in Contract
    BY <1>5, OrderNames
  <2>2. pending' \in Seq(Contract)
    BY <1>9, <2>1
  <2> QED BY <1>1, <1>2, <2>2 DEF GenesisTypes, scriptVars
<1>13. ChainRight'
  <2>1. /\ step' = 69 /\ neutron' = "genesis" /\ contracts' = contracts /\ codes' = codes
        /\ codeId' = codeId /\ genMsgs' = genMsgs
    BY <1>2, <1>3 DEF scriptVars
  <2>2. next' >= 1 /\ next' <= Len(genMsgs') + 1 /\ Len(codes') = Binaries' /\ Run' \in 1 .. 13
    BY <1>2, <1>3, <1>4, <1>5, <1>6, <1>7, <1>10, <2>1
  <2>3. \A i \in 1 .. Len(codes') : codes'[i] = genMsgs'[i][2]
    BY <1>1, <2>1 DEF ChainRight
  <2>4. Len(contracts') <= 29 /\ \A i \in 1 .. Len(contracts') : contracts'[i] = Order[i]
          /\ CodeFits(Order[i])'
    BY <1>1, <2>1 DEF ChainRight, CodeFits
  <2>5. /\ pending' # <<>> /\ pending' = Left(Len(contracts')) /\ Before[Run'] <= Len(contracts')
        /\ Len(contracts') < Before[Run' + 1]
    <3>1. Before[k] <= Before[k]
      BY <1>3, <1>10
    <3> QED BY ONLY <1>7, <1>10, <1>11, <2>1, <3>1, Zenon
  <2> QED BY ONLY <2>1, <2>2, <2>3, <2>4, <2>5 DEF ChainRight
<1> QED BY <1>2, <1>6, <1>12, <1>13 DEF GenesisInv, GenesisRuns

(* The id of a binary that was stored is that of its code.                  *)
LEMMA StoredRight ==
  ASSUME GenesisInv, neutron \in {"genesis", "started"}, Run > 0, NEW c \in Contract,
         Binary(c) \notin notStored
  PROVE  codeId[Binary(c)] \in DOMAIN codes /\ codes[codeId[Binary(c)]] = Binary(c)
<1>1. GenesisTypes /\ IdsRight /\ ChainRight
  BY DEF GenesisInv
<1>2. PICK j \in 1 .. 23 : Binary(c) = StoreOrder[j]
  BY OrderNames, NamesOf
<1>3. step = 69 /\ Len(codes) = Binaries
  <2>1. neutron # "off" /\ ~ (Run <= 0)
    <3>1. Run \in Int
      BY DEF Run, GenesisInv, GenesisTypes, MessagesRight
    <3> QED BY <3>1
  <2>2. neutron # "off" => step = 69
    BY <1>1 DEF ChainRight
  <2>3. Len(codes) = IF Run <= 0 THEN next - 1 ELSE Binaries
    BY <1>1 DEF ChainRight
  <2> QED BY ONLY <2>1, <2>2, <2>3, Zenon
<1>4. codeId[Binary(c)] \in 1 .. Binaries /\ genMsgs[codeId[Binary(c)]][2] = Binary(c)
  <2>1. j < step
    BY <1>3
  <2>2. IF StoreOrder[j] \in notStored
          THEN j < step /\ \A i \in 1 .. Binaries : genMsgs[i][2] # StoreOrder[j]
          ELSE j < step => codeId[StoreOrder[j]] \in 1 .. Binaries
                             /\ genMsgs[codeId[StoreOrder[j]]][2] = StoreOrder[j]
    BY <1>1 DEF IdsRight
  <2> QED BY ONLY <1>2, <2>1, <2>2, Binary(c) \notin notStored, Zenon
<1>5. DOMAIN codes = 1 .. Len(codes)
  BY <1>1 DEF GenesisTypes
<1>6. codes[codeId[Binary(c)]] = genMsgs[codeId[Binary(c)]][2]
  BY <1>1, <1>3, <1>4 DEF ChainRight
<1> QED BY <1>3, <1>4, <1>5, <1>6

(* A contract whose binary was stored is instantiated.                      *)
LEMMA StoredFits ==
  ASSUME GenesisInv, neutron = "genesis", Run > 0, NEW c \in Contract, Binary(c) \notin notStored
  PROVE  CodeFits(c)
<1>1. codeId[Binary(c)] \in DOMAIN codes /\ codes[codeId[Binary(c)]] = Binary(c)
  BY StoredRight
<1>2. Takes(Binary(c), c)
  BY Zenon DEF Takes
<1> QED BY <1>1, <1>2, Zenon DEF CodeFits

LEMMA Between ==
  ASSUME NEW n \in Nat, NEW a \in 0 .. 28, NEW b \in 1 .. 29, a <= n, n < b
  PROVE  /\ n \in 0 .. 28 /\ n + 1 \in 1 .. 29 /\ n + 1 <= 29
         /\ n + 1 # b => n + 1 < b /\ n + 1 \in 0 .. 28 /\ a <= n + 1
OBVIOUS

LEMMA InstantiateKeeps == GenesisInv /\ Instantiate => GenesisInv'
<1> SUFFICES ASSUME GenesisInv, Instantiate PROVE GenesisInv'
  OBVIOUS
<1>1. GenesisTypes /\ MessagesRight /\ ChainRight
  BY DEF GenesisInv
<1> DEFINE n == Len(contracts)
<1>2. neutron = "genesis" /\ pending # <<>> /\ UNCHANGED <<scriptVars, next, codes>>
  BY DEF Instantiate
<1>3. /\ n \in Nat /\ Run \in 1 .. 13 /\ pending = Left(n) /\ Before[Run] <= n
           /\ n < Before[Run + 1]
  BY <1>1, <1>2 DEF GenesisTypes, ChainRight
<1>4. /\ n \in 0 .. 28 /\ n + 1 \in 1 .. 29 /\ n + 1 <= 29
      /\ n + 1 # Before[Run + 1] =>
           n + 1 < Before[Run + 1] /\ n + 1 \in 0 .. 28 /\ Before[Run] <= n + 1
  <2>1. Before[Run + 1] \in 1 .. 29 /\ Before[Run] \in 0 .. 28
    BY <1>3, MessageContract
  <2> HIDE DEF n
  <2> QED BY ONLY <1>3, <2>1, Between
<1>5. /\ MessagesRight' /\ IdsRight' /\ PredictionsRight' /\ Binaries' = Binaries
      /\ Len(genMsgs') = Len(genMsgs)
  BY <1>2, ScriptRests
<1>6. Run' = Run
  BY <1>2, <1>5 DEF Run
<1>7. Head(pending) = Order[n + 1] /\ Order[n + 1] \in Contract
  <2>1. Head(Left(n)) = Order[n + 1]
    BY <1>4, NextContract
  <2>3. Order[n + 1] \in Contract
    <3>1. \A i \in 1 .. 29 : Order[i] \in Contract
      BY OrderNames
    <3> QED BY ONLY <1>4, <3>1, Zenon
  <2> QED BY ONLY <1>3, <2>1, <2>3, Zenon
<1>8. /\ step' = step /\ next' = next /\ codes' = codes /\ codeId' = codeId
      /\ genMsgs' = genMsgs /\ notStored' = notStored
  BY <1>2 DEF scriptVars
<1>9. /\ step = 69 /\ next >= 1 /\ next <= Len(genMsgs) + 1 /\ Len(codes) = Binaries
      /\ \A i \in 1 .. Len(codes) : codes[i] = genMsgs[i][2]
      /\ \A i \in 1 .. n : contracts[i] = Order[i] /\ CodeFits(Order[i])
  BY <1>1, <1>2, <1>3 DEF ChainRight
<1>10. CASE CodeFits(Order[n + 1])
  <2>1. /\ contracts' = Append(contracts, Order[n + 1]) /\ neutron' = neutron
        /\ pending' = Instantiates(Order[n + 1]) \o Tail(pending)
    BY <1>7, <1>10 DEF Instantiate
  <2>2. /\ Len(contracts') = n + 1 /\ contracts'[n + 1] = Order[n + 1]
        /\ \A i \in 1 .. n : contracts'[i] = contracts[i]
        /\ contracts' \in Seq(Contract)
    <3>1. contracts \in Seq(Contract)
      BY <1>1 DEF GenesisTypes
    <3> QED BY ONLY <1>7, <2>1, <3>1
  <2>3. \A i \in 1 .. Len(contracts') : contracts'[i] = Order[i] /\ CodeFits(Order[i])'
    <3>1. \A c : CodeFits(c) => CodeFits(c)'
      BY <1>8 DEF CodeFits
    <3>2. \A i \in 1 .. Len(contracts') : i \in 1 .. n \/ i = n + 1
      BY <1>3, <2>2
    <3> QED BY ONLY <1>9, <1>10, <2>2, <3>1, <3>2, Zenon
  <2>4. pending' = IF n + 1 = Before[Run + 1] THEN <<>> ELSE Left(n + 1)
    <3> DEFINE E == {1, 2, 3, 11, 12, 13, 18, 24, 25, 26, 27, 28, 29}
    <3>1. n + 1 = Before[Run + 1] <=> n + 1 \in E
      BY <1>3, <1>4, Ends
    <3>2. IF n + 1 \in E
            THEN Instantiates(Order[n + 1]) \o Tail(Left(n)) = <<>>
            ELSE Instantiates(Order[n + 1]) \o Tail(Left(n)) = Left(n + 1)
      BY <1>4, NextContract
    <3>3. pending' = Instantiates(Order[n + 1]) \o Tail(Left(n))
      BY ONLY <1>3, <2>1, Zenon
    <3> HIDE DEF E
    <3> QED BY ONLY <3>1, <3>2, <3>3, Zenon
  <2>5. IF pending' = <<>>
          THEN Len(contracts') = IF Run' <= 0 THEN 0 ELSE Before[Begun' + 1]
          ELSE /\ Run' \in 1 .. 13 /\ pending' = Left(Len(contracts'))
               /\ Before[Run'] <= Len(contracts') /\ Len(contracts') < Before[Run' + 1]
    <3>1. Begun' = Run
      BY <1>3, <1>6 DEF Begun
    <3>2. CASE n + 1 = Before[Run + 1]
      <4>1. pending' = <<>>
        BY ONLY <2>4, <3>2, Zenon
      <4>2. ~ (Run' <= 0)
        BY <1>3, <1>6
      <4> QED BY ONLY <2>2, <3>1, <3>2, <4>1, <4>2, Zenon
    <3>3. CASE n + 1 # Before[Run + 1]
      <4>2. n + 1 < Before[Run + 1] /\ n + 1 \in 0 .. 28 /\ Before[Run] <= n + 1
        BY ONLY <1>4, <3>3, Zenon
      <4>3. Left(n + 1) # <<>>
        BY <4>2, NextContract
      <4>4. pending' = Left(n + 1)
        BY ONLY <2>4, <3>3, Zenon
      <4> QED BY ONLY <1>3, <1>6, <2>2, <4>2, <4>3, <4>4, Zenon
    <3> QED BY <3>2, <3>3
  <2>6. pending' \in Seq(Contract)
    <3>1. <<>> \in Seq(Contract)
      OBVIOUS
    <3>2. n + 1 \in 0 .. 28 => Left(n + 1) \in Seq(Contract)
      BY NextContract
    <3> QED BY ONLY <1>4, <2>4, <3>1, <3>2, Zenon
  <2>7. GenesisTypes'
    BY <1>1, <1>2, <2>1, <2>2, <2>6 DEF GenesisTypes, scriptVars
  <2>8. /\ step' = 69 /\ neutron' = "genesis" /\ next' >= 1 /\ next' <= Len(genMsgs') + 1
        /\ Len(codes') = IF Run' <= 0 THEN next' - 1 ELSE Binaries'
        /\ \A i \in 1 .. Len(codes') : codes'[i] = genMsgs'[i][2]
    BY <1>2, <1>3, <1>5, <1>6, <1>8, <1>9, <2>1
  <2>9. Len(contracts') <= 29
    BY ONLY <1>4, <2>2, Zenon
  <2>10. ChainRight'
    BY ONLY <2>3, <2>5, <2>8, <2>9 DEF ChainRight
  <2> QED BY <1>5, <2>7, <2>8, <2>10 DEF GenesisInv, GenesisRuns
<1>11. CASE ~ CodeFits(Order[n + 1])
  <2>1. neutron' = "panic" /\ contracts' = contracts /\ pending' = pending
    BY <1>7, <1>11 DEF Instantiate
  <2>2. notStored # {}
    <3>1. Run > 0
      BY <1>3
    <3>2. Binary(Order[n + 1]) \in notStored
      BY <1>2, <1>7, <1>11, <3>1, StoredFits
    <3> QED BY <3>2
  <2>3. GenesisTypes'
    BY <1>1, <1>2, <2>1 DEF GenesisTypes, scriptVars
  <2>4. \A c : CodeFits(c) => CodeFits(c)'
    BY <1>8 DEF CodeFits
  <2>5. Begun' = Begun
    BY <1>6 DEF Begun
  <2>6. ChainRight'
    BY <1>1, <1>2, <1>5, <1>6, <1>8, <2>1, <2>4, <2>5 DEF ChainRight
  <2> QED BY <1>5, <1>8, <2>2, <2>3, <2>6 DEF GenesisInv, GenesisRuns
<1> QED BY <1>10, <1>11

(* The contracts a message executes are there, at the address predicted.    *)
LEMMA ExecuteMessageKeeps == GenesisInv /\ ExecuteMessage => GenesisInv'
<1> SUFFICES ASSUME GenesisInv, ExecuteMessage PROVE GenesisInv'
  OBVIOUS
<1>1. GenesisTypes /\ MessagesRight /\ PredictionsRight /\ ChainRight
  BY DEF GenesisInv
<1>2. /\ neutron = "genesis" /\ pending = <<>> /\ next <= Len(genMsgs)
           /\ genMsgs[next][1] = "execute"
      /\ next' = next + 1
      /\ UNCHANGED <<scriptVars, codes, pending, contracts>>
  BY DEF ExecuteMessage, Handles
<1>3. step = 69 /\ next \in Nat /\ next >= 1 /\ Len(codes) \in Nat /\ Len(genMsgs) \in Nat
  BY <1>1, <1>2 DEF GenesisTypes, ChainRight
<1> DEFINE k == next - Binaries - 13
<1>4. k \in 1 .. 3 /\ genMsgs[next] = <<"execute", ExecuteOrder[k]>>
  <2>1. next \in 1 .. Len(genMsgs)
    BY ONLY <1>2, <1>3
  <2> QED BY <1>1, <1>2, <1>3, <2>1, MessageKind
<1>5. Binaries \in Nat
  BY <1>1 DEF MessagesRight
<1>6. next = Binaries + 13 + k
  BY <1>3, <1>5
<1>7. /\ MessagesRight' /\ IdsRight' /\ PredictionsRight' /\ Binaries' = Binaries
      /\ Len(genMsgs') = Len(genMsgs)
  BY <1>2, ScriptRests
<1>8. Run = 12 + k /\ Run' = 13 + k
  <2>1. Run = next - 1 - Binaries /\ Run' = next' - 1 - Binaries'
    BY DEF Run
  <2> QED BY <1>2, <1>3, <1>5, <1>6, <1>7, <2>1
<1> HIDE DEF k
<1>9. Begun = 13 /\ Begun' = 13 /\ ~ (Run <= 0) /\ ~ (Run' <= 0)
  BY <1>4, <1>8 DEF Begun
<1>10. Before[13 + 1] = 29
  BY DEF Before
<1>11. Len(contracts) = 29 /\ Len(codes) = Binaries
  <2>1. /\ Len(contracts) = IF Run <= 0 THEN 0 ELSE Before[Begun + 1]
        /\ Len(codes) = IF Run <= 0 THEN next - 1 ELSE Binaries
    BY <1>1, <1>2 DEF ChainRight
  <2> QED BY ONLY <1>9, <1>10, <2>1, Zenon
<1>12. neutron' = "genesis" \/ (neutron' = "panic" /\ notStored # {})
  <2>1. PICK i \in 1 .. 29 : /\ ExecuteOrder[k] = Order[i] /\ Predictions[i][1] = Order[i]
                             /\ Predictions[i][2] = Binary(Order[i])
    BY <1>4, ExecutedThere
  <2>2. i \in DOMAIN contracts
    <3>1. DOMAIN contracts = 1 .. Len(contracts)
      BY <1>1 DEF GenesisTypes
    <3> QED BY ONLY <1>11, <3>1, <2>1
  <2>3. contracts[i] = Order[i]
    BY <1>1, <1>11 DEF ChainRight
  <2>4. address[Order[i]] = <<i, codeId[Binary(Order[i])]>>
    <3>1. 23 + i < step
      BY <1>3
    <3>2. address[Predictions[i][1]] = <<i, codeId[Predictions[i][2]]>>
      BY <1>1, <3>1 DEF PredictionsRight
    <3> QED BY ONLY <2>1, <3>2, Zenon
  <2>5. AddressOf(i) = address[Order[i]]
    BY ONLY <2>3, <2>4, Zenon DEF AddressOf
  <2>6. genMsgs[next][2] = Order[i]
    <3>1. genMsgs[next][2] = ExecuteOrder[k]
      BY ONLY <1>4
    <3> QED BY ONLY <2>1, <3>1, Zenon
  <2>7. \E m \in DOMAIN contracts : contracts[m] = genMsgs[next][2]
          /\ AddressOf(m) = address[genMsgs[next][2]]
    BY ONLY <2>2, <2>3, <2>5, <2>6, Zenon
  <2>8. \/ neutron' = neutron
        \/ /\ codes[codeId[Binary(Order[i])]] # Binary(Order[i])
           /\ neutron' = "panic"
    <3>1. \/ UNCHANGED neutron
          \/ /\ ~ (/\ \E m \in DOMAIN contracts : contracts[m] = genMsgs[next][2]
                                /\ AddressOf(m) = address[genMsgs[next][2]]
                    /\ codes[codeId[Binary(genMsgs[next][2])]] = Binary(genMsgs[next][2]))
             /\ neutron' = "panic"
      BY DEF ExecuteMessage
    <3> QED BY ONLY <2>6, <2>7, <3>1, Zenon
  <2>9. ASSUME codes[codeId[Binary(Order[i])]] # Binary(Order[i]) PROVE notStored # {}
    <3>1. Run > 0
      BY <1>4, <1>8
    <3>2. Order[i] \in Contract
      BY OrderNames
    <3>3. Binary(Order[i]) \in notStored
      BY <1>2, <2>9, <3>1, <3>2, StoredRight
    <3> QED BY <3>3
  <2> QED
    <3>1. neutron = "genesis"
      BY <1>2
    <3> QED BY ONLY <2>8, <2>9, <3>1
<1>13. /\ step' = step /\ codes' = codes /\ codeId' = codeId /\ genMsgs' = genMsgs
       /\ contracts' = contracts /\ pending' = pending
  BY <1>2 DEF scriptVars
<1>14. GenesisTypes'
  BY <1>1, <1>2, <1>3, <1>12 DEF GenesisTypes, scriptVars
<1>15. next' >= 1 /\ next' <= Len(genMsgs') + 1
  BY ONLY <1>2, <1>3, <1>7
<1>16. Len(codes') = IF Run' <= 0 THEN next' - 1 ELSE Binaries'
  BY ONLY <1>7, <1>9, <1>11, <1>13, Zenon
<1>17. /\ \A i \in 1 .. Len(codes') : codes'[i] = genMsgs'[i][2]
       /\ \A i \in 1 .. Len(contracts') : contracts'[i] = Order[i] /\ CodeFits(Order[i])'
  BY <1>1, <1>13 DEF ChainRight, CodeFits
<1>18. pending' = <<>> /\ Len(contracts') = IF Run' <= 0 THEN 0 ELSE Before[Begun' + 1]
  BY ONLY <1>2, <1>9, <1>10, <1>11, <1>13, Zenon
<1>19. Len(contracts') <= 29 /\ step' = 69
  <2>1. 29 <= 29
    OBVIOUS
  <2> QED BY ONLY <1>3, <1>11, <1>13, <2>1, Zenon
<1>20. ChainRight'
  BY ONLY <1>12, <1>15, <1>16, <1>17, <1>18, <1>19 DEF ChainRight
<1>21. notStored' = notStored
  BY <1>2 DEF scriptVars
<1> QED BY <1>7, <1>12, <1>14, <1>20, <1>21 DEF GenesisInv, GenesisRuns

LEMMA GenesisDoneKeeps == GenesisInv /\ GenesisDone => GenesisInv'
<1> SUFFICES ASSUME GenesisInv, GenesisDone PROVE GenesisInv'
  OBVIOUS
<1>1. GenesisTypes /\ ChainRight
  BY DEF GenesisInv
<1>2. /\ neutron = "genesis" /\ pending = <<>> /\ next > Len(genMsgs) /\ neutron' = "started"
      /\ UNCHANGED <<scriptVars, next, codes, pending, contracts>>
  BY DEF GenesisDone
<1>3. /\ MessagesRight' /\ IdsRight' /\ PredictionsRight' /\ Binaries' = Binaries
      /\ Len(genMsgs') = Len(genMsgs)
  BY <1>2, ScriptRests
<1>4. /\ step' = step /\ codes' = codes /\ codeId' = codeId /\ genMsgs' = genMsgs /\ next' = next
      /\ contracts' = contracts /\ pending' = pending
  BY <1>2 DEF scriptVars
<1>5. Run' = Run /\ Begun' = Begun
  BY <1>3, <1>4 DEF Run, Begun
<1>6. GenesisTypes'
  BY <1>1, <1>2 DEF GenesisTypes, scriptVars
<1>7. next' = Len(genMsgs') + 1
  <2>1. next \in Nat /\ Len(genMsgs) \in Nat /\ next <= Len(genMsgs) + 1
    BY <1>1 DEF ChainRight, GenesisTypes
  <2> QED BY ONLY <1>2, <1>4, <2>1
<1>8. \A c : CodeFits(c) => CodeFits(c)'
  BY <1>4 DEF CodeFits
<1>9. ChainRight'
  BY <1>1, <1>2, <1>3, <1>4, <1>5, <1>7, <1>8 DEF ChainRight
<1> QED BY <1>2, <1>3, <1>6, <1>9 DEF GenesisInv, GenesisRuns

LEMMA GenesisStutters == GenesisInv /\ UNCHANGED genesisVars => GenesisInv'
<1> SUFFICES ASSUME GenesisInv, UNCHANGED genesisVars PROVE GenesisInv'
  OBVIOUS
<1>1. GenesisTypes /\ ChainRight /\ GenesisRuns
  BY DEF GenesisInv
<1>2. UNCHANGED scriptVars /\ UNCHANGED chainVars
  BY DEF genesisVars
<1>3. /\ MessagesRight' /\ IdsRight' /\ PredictionsRight' /\ Binaries' = Binaries
      /\ Len(genMsgs') = Len(genMsgs)
  BY <1>2, ScriptRests
<1>4. /\ step' = step /\ codes' = codes /\ codeId' = codeId /\ genMsgs' = genMsgs /\ next' = next
      /\ contracts' = contracts /\ pending' = pending /\ neutron' = neutron
           /\ notStored' = notStored
  BY <1>2 DEF scriptVars, chainVars
<1>5. Run' = Run /\ Begun' = Begun
  BY <1>3, <1>4 DEF Run, Begun
<1>6. GenesisTypes'
  BY <1>1, <1>2 DEF GenesisTypes, scriptVars, chainVars
<1>7. \A c : CodeFits(c) => CodeFits(c)'
  BY <1>4 DEF CodeFits
<1>8. ChainRight'
  BY <1>1, <1>3, <1>4, <1>5, <1>7 DEF ChainRight
<1>9. GenesisRuns'
  BY <1>1, <1>4 DEF GenesisRuns
<1> QED BY <1>3, <1>6, <1>8, <1>9 DEF GenesisInv

LEMMA GenesisNextInv == GenesisInv /\ [GenesisNext]_genesisVars => GenesisInv'
BY StoreBinaryKeeps, GenAddrKeeps, AddMessageKeeps, StartChainKeeps, StoreCodeKeeps,
   InstantiateMessageKeeps, InstantiateKeeps, ExecuteMessageKeeps, GenesisDoneKeeps,
   GenesisStutters DEF GenesisNext

(* The invariant holds of every run of the script and of the chain.         *)
THEOREM GenesisInvariant == GenesisSpec => []GenesisInv
<1>1. GenesisInit => GenesisInv
  BY InitGenesisInv
<1>2. GenesisInv /\ [GenesisNext]_genesisVars => GenesisInv'
  BY GenesisNextInv
<1> QED BY <1>1, <1>2, PTL DEF GenesisSpec

(* Every address the script writes into a message or a parameter is the one *)
(* the chain gives to the contract it is meant for (genaddr against         *)
(* init_contract and what the contracts start), whatever fails.             *)
THEOREM AddressesAgree == GenesisSpec => []AddressesRight
<1>1. ASSUME GenesisInv PROVE AddressesRight
  <2>1. GenesisTypes /\ PredictionsRight /\ ChainRight
    BY <1>1 DEF GenesisInv
  <2> SUFFICES ASSUME NEW i \in DOMAIN contracts, contracts[i] \in Referenced
               PROVE  address[contracts[i]] = AddressOf(i)
    BY DEF AddressesRight
  <2>2. i \in 1 .. Len(contracts) /\ Len(contracts) \in Nat
    BY <2>1 DEF GenesisTypes
  <2>3. i \in 1 .. 29 /\ contracts[i] = Order[i]
    <3>1. Len(contracts) <= 29
      BY <2>1 DEF ChainRight
    <3>2. i \in 1 .. 29
      <4>1. \A l \in Nat : \A j \in 1 .. l : l <= 29 => j \in 1 .. 29
        OBVIOUS
      <4> QED BY ONLY <2>2, <3>1, <4>1, Zenon
    <3>3. \A j \in 1 .. Len(contracts) : contracts[j] = Order[j]
      BY <2>1 DEF ChainRight
    <3> QED BY ONLY <2>2, <3>2, <3>3, Zenon
  <2>4. neutron # "off"
    <3>1. CASE contracts = <<>>
      BY <2>2, <3>1
    <3>2. neutron = "off" => contracts = <<>>
      BY <2>1 DEF ChainRight
    <3> QED BY <3>1, <3>2
  <2>5. 23 + i < step
    BY <2>1, <2>3, <2>4 DEF ChainRight
  <2>6. Predictions[i][1] = Order[i] /\ Predictions[i][2] = Binary(Order[i])
    BY <2>3, ReferencedPredicted
  <2>7. address[Predictions[i][1]] = <<i, codeId[Predictions[i][2]]>>
    BY <2>1, <2>3, <2>5 DEF PredictionsRight
  <2> QED BY ONLY <2>3, <2>6, <2>7, Zenon DEF AddressOf
<1> QED BY <1>1, GenesisInvariant, PTL

(* A chain that starts has every contract, each with the binary the script  *)
(* meant if that was stored.  After a store_binary whose failure the script *)
(* does not see, it starts only if another binary takes the init messages   *)
(* of every contract of the one that is missing.                            *)
THEOREM NothingMissing == GenesisSpec => []StartedComplete
<1>1. ASSUME GenesisInv PROVE StartedComplete
  <2>1. GenesisTypes /\ MessagesRight /\ IdsRight /\ ChainRight
    BY <1>1 DEF GenesisInv
  <2> SUFFICES ASSUME neutron = "started"
               PROVE  /\ ToSet(contracts) = Contract
                      /\ notStored \subseteq Replaceable
                      /\ \A c \in Contract : Binary(c) \notin notStored =>
                           codes[codeId[Binary(c)]] = Binary(c)
    BY DEF StartedComplete
  <2>2. next = Len(genMsgs) + 1 /\ pending = <<>> /\ step = 69
    BY <2>1 DEF ChainRight
  <2>3. /\ Binaries \in Nat /\ Len(genMsgs) = Binaries + 16
        /\ \A i \in 1 .. Binaries : genMsgs[i][2] \in BinaryName
    BY <2>1, <2>2, MessagesFound
  <2>4. Run = 16 /\ Begun = 13 /\ ~ (Run <= 0)
    BY <2>2, <2>3 DEF Run, Begun
  <2>5. Len(contracts) = 29 /\ Len(codes) = Binaries
    <3>1. /\ Len(contracts) = IF Run <= 0 THEN 0 ELSE Before[Begun + 1]
          /\ Len(codes) = IF Run <= 0 THEN next - 1 ELSE Binaries
      BY <2>1, <2>2 DEF ChainRight
    <3>2. Before[13 + 1] = 29
      BY DEF Before
    <3> QED BY ONLY <2>4, <3>1, <3>2, Zenon
  <2>6. /\ \A i \in 1 .. Len(codes) : codes[i] = genMsgs[i][2]
        /\ \A i \in 1 .. Len(contracts) : contracts[i] = Order[i] /\ CodeFits(Order[i])
    BY <2>1 DEF ChainRight
  <2>7. /\ DOMAIN codes = 1 .. Len(codes) /\ DOMAIN contracts = 1 .. Len(contracts)
        /\ codes \in Seq(BinaryName)
    BY <2>1 DEF GenesisTypes
  <2>8. ToSet(contracts) = Contract
    <3>1. \A c : c \in ToSet(contracts) <=> \E i \in 1 .. 29 : c = Order[i]
      <4>1. ToSet(contracts) = {contracts[i] : i \in DOMAIN contracts}
        BY DEF ToSet
      <4>2. DOMAIN contracts = 1 .. 29 /\ \A i \in 1 .. 29 : contracts[i] = Order[i]
        BY ONLY <2>5, <2>6, <2>7, Zenon
      <4> QED BY ONLY <4>1, <4>2
    <3>2. \A c : c \in Contract <=> \E i \in 1 .. 29 : c = Order[i]
      BY OrderNames
    <3> QED BY ONLY <3>1, <3>2
  <2>9. ASSUME NEW b \in notStored PROVE b \in Replaceable
    <3> DEFINE a == codes[codeId[b]]
    <3>1. b \in BinaryName
      BY <2>1 DEF GenesisTypes
    <3>2. PICK j \in 1 .. 23 : b = StoreOrder[j]
      BY <3>1, NamesOf
    <3>3. ASSUME NEW c \in Contract, Binary(c) = b PROVE codeId[b] \in DOMAIN codes /\ Takes(a, c)
      <4>1. PICK i \in 1 .. 29 : Order[i] = c
        BY OrderNames
      <4>2. CodeFits(c)
        BY <2>5, <2>6, <4>1
      <4> QED BY <3>3, <4>2, Zenon DEF CodeFits
    <3>4. PICK i \in 1 .. 29 : Binary(Order[i]) = b
      BY <3>2, BinariesUsed
    <3>5. codeId[b] \in DOMAIN codes
      BY <3>3, <3>4, OrderNames
    <3>6. a = genMsgs[codeId[b]][2] /\ codeId[b] \in 1 .. Binaries
      BY <2>5, <2>6, <2>7, <3>5
    <3>7. a \in BinaryName /\ a # b
      <4>1. \A n \in 1 .. Binaries : genMsgs[n][2] # b
        BY <2>1, <3>2 DEF IdsRight
      <4> QED BY ONLY <2>3, <3>6, <4>1, Zenon
    <3> HIDE DEF a
    <3>8. a \in BinaryName \ {b} /\ \A c \in Contract : Binary(c) = b => Takes(a, c)
      BY <3>3, <3>7
    <3> QED BY <3>1, <3>8, Zenon DEF Replaceable
  <2>10. ASSUME NEW c \in Contract, Binary(c) \notin notStored
         PROVE  codes[codeId[Binary(c)]] = Binary(c)
    <3>1. Run > 0
      BY <2>4
    <3> QED BY <1>1, <2>10, <3>1, StoredRight
  <2> QED BY <2>8, <2>9, <2>10
<1> QED BY <1>1, GenesisInvariant, PTL

(* If no contract takes a message written for another than the script's own *)
(* variables say, the one binary that can be missing unnoticed is that of   *)
(* the multiple-choice pre-propose module.                                  *)
THEOREM OnlyMultipleMissed ==
  ASSUME AlsoTakes = {}
  PROVE  GenesisSpec => [](neutron = "started" => notStored \subseteq {"PRE_PROPOSAL_MULTIPLE"})
<1>1. Replaceable \subseteq {"PRE_PROPOSAL_MULTIPLE"}
  <2> SUFFICES ASSUME NEW b \in BinaryName, b # "PRE_PROPOSAL_MULTIPLE",
                      NEW a \in BinaryName, a # b,
                      \A c \in Contract : Binary(c) = b => Takes(a, c)
               PROVE  FALSE
    BY DEF Replaceable
  <2>1. PICK j \in 1 .. 23 : b = StoreOrder[j]
    BY NamesOf
  <2>2. PICK i \in 1 .. 29 : Binary(Order[i]) = b /\ Order[i] # "PRE_PROPOSAL"
    BY <2>1, BinariesUsed2
  <2>3. PICK d \in Contract : Binary(d) = a /\ Message(d) = Message(Order[i])
    BY <2>2, OrderNames DEF Takes
  <2>4. PICK k \in 1 .. 29 : Order[k] = d
    BY OrderNames
  <2> QED BY <2>2, <2>3, <2>4 DEF Order, Binary, Message
<1>2. StartedComplete => (neutron = "started" => notStored \subseteq {"PRE_PROPOSAL_MULTIPLE"})
  BY <1>1 DEF StartedComplete
<1> QED BY <1>2, NothingMissing, PTL

(* The genesis runs to its end unless a binary was not stored: the messages *)
(* that execute contracts find them where they were predicted.              *)
THEOREM GenesisNeverPanics == GenesisSpec => []GenesisRuns
<1>1. GenesisInv => GenesisRuns
  BY DEF GenesisInv
<1> QED BY <1>1, GenesisInvariant, PTL
===============================================================================
