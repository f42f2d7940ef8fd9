------------------------------ MODULE TxQueries -------------------------------
(***************************************************************************)
(* Interchain queries of transfers: the helpers of                          *)
(* src/helpers/interchainqueries.ts that register them, count what the      *)
(* contract recorded and resubmit what failed, as the tests                 *)
(* interchain_tx_query_plain and interchain_tx_query_resubmit call them.    *)
(*                                                                          *)
(* The relayer is external.  It handles a query when it is registered and   *)
(* again every update period, at most `lag` blocks late: all transfers to   *)
(* the watched address so far are submitted, and are in the contract, or in *)
(* its list of failures, a block later.  A wait of the test looks in every   *)
(* block.  A query is named by the index of its address.                    *)
(***************************************************************************)
EXTENDS TestScript, FiniteSets

CONSTANTS
  ShortPeriod, LongPeriod,   \* update periods of the two queries
  CheckBlocks,               \* blocks before failures are counted
  MaxLag,                    \* bound: blocks the relayer may be late
  MaxSlow                    \* bound: blocks between two steps of the test

(* The test expects the one period to be three times the other at least.     *)
ASSUME PeriodAssumption ==
  /\ {ShortPeriod, LongPeriod, CheckBlocks} \subseteq Nat \ {0}
  /\ ShortPeriod <= LongPeriod
ASSUME TxBoundAssumption == {MaxLag, MaxSlow} \subseteq Nat

VARIABLES
  lag,           \* blocks this relayer may be late
  registeredAt,  \* registeredAt[q]: the height, 0: not registered
  handledAt,     \* handledAt[q]: the height the relayer last handled it, 0: never
  transfers,     \* the transfers on the remote chain
  mocked,        \* the contract's callback fails
  looksLeft,     \* attempts left in a wait
  lookedAt       \* the height of the last look

txVars == <<scriptVars, lag, registeredAt, handledAt, transfers, mocked, looksLeft,
            lookedAt>>

Queries == {1, 2}

(* a slip: the periods of the two queries are the same *)
PeriodShort(q) == ShortPeriod

(* query4UpdatePeriod and query5UpdatePeriod *)
Period(q) == IF q = 1 THEN ShortPeriod ELSE LongPeriod

(* a slip: attempts for one period *)
AttemptsOnePeriod(q) == Period(q)

(* queryUpdatePeriod * 2 *)
Attempts(q) == 2 * Period(q)

(* waitForTransfersAmount of a transfer to the address of q *)
WaitFor(number, q) == Do("waitForTransfersAmount", [number |-> number, query |-> q])
ExpectTransfers(number, q) == Do("expectTransfers", [number |-> number, query |-> q])

(* "submit older height after younger one" *)
OrderTests ==
  << Do("registerTransfersQuery", 1), Do("registerTransfersQuery", 2), Do("waitBlocks", 2),
     Do("sendTokens", 2), Do("sendTokens", 1),
     WaitFor(1, 1), ExpectTransfers(1, 1), ExpectTransfers(0, 2),
     WaitFor(2, 2), ExpectTransfers(1, 2) >>

(* "utilize single transfers query" and "handle callback on a past sending" *)
PastTests ==
  << Do("registerTransfersQuery", 1), Do("sendTokens", 1), WaitFor(1, 1),
     Do("sendTokens", 2), Do("waitBlocks", Attempts(1)), ExpectTransfers(0, 2),
     Do("registerTransfersQuery", 2), WaitFor(2, 2), ExpectTransfers(1, 2) >>

(* "Neutron / Interchain TX Query Resubmit" *)
ResubmitTests ==
  << Do("mock", TRUE), Do("registerTransfersQuery", 1), Do("sendTokens", 1),
     Do("sendTokens", 1), Do("waitBlocks", CheckBlocks), Do("expectUnsuccessful", 2),
     Do("mock", FALSE), Do("postResubmitTxs", 0), Do("waitBlocks", 20), WaitFor(2, 1),
     Do("expectUnsuccessful", 0), ExpectTransfers(2, 1) >>

TxFiles == [order |-> OrderTests, past |-> PastTests, resubmit |-> ResubmitTests]

TxInit ==
  /\ lag \in 0 .. MaxLag
  /\ registeredAt = [q \in Queries |-> 0] /\ handledAt = [q \in Queries |-> 0]
  /\ transfers = <<>> /\ mocked = FALSE /\ looksLeft = 0 /\ lookedAt = 0

Transfers(state) == {i \in DOMAIN transfers : transfers[i].state = state}
Recorded(q) == {i \in Transfers("recorded") : transfers[i].query = q}

(* What the contract and the relayer's web service answer *)
queryTransfersNumber == Cardinality(Transfers("recorded"))
queryRecipientTxs(q) == Cardinality(Recorded(q))
getUnsuccessfulTxs == Transfers("failed")

-------------------------------------------------------------------------------
(* The test                                                                 *)

registerTransfersQuery ==
  /\ Running("registerTransfersQuery") /\ StepDone
  /\ registeredAt' = [registeredAt EXCEPT ![Arg] = height]
  /\ UNCHANGED <<lag, handledAt, transfers, mocked, looksLeft, lookedAt>>

SendTokens ==
  /\ Running("sendTokens") /\ StepDone
  /\ transfers' = Append(transfers, [query |-> Arg, state |-> "sent", at |-> height])
  /\ UNCHANGED <<lag, registeredAt, handledAt, mocked, looksLeft, lookedAt>>

(* integration_tests_set_query_mock, integration_tests_unset_query_mock *)
SetQueryMock ==
  /\ Running("mock") /\ StepDone
  /\ mocked' = Arg
  /\ UNCHANGED <<lag, registeredAt, handledAt, transfers, looksLeft, lookedAt>>

(* All that failed is submitted once more. *)
postResubmitTxs ==
  /\ Running("postResubmitTxs") /\ StepDone
  /\ transfers' = [i \in DOMAIN transfers |->
                     IF i \in getUnsuccessfulTxs
                       THEN [transfers[i] EXCEPT !.state = "submitted"]
                       ELSE transfers[i]]
  /\ UNCHANGED <<lag, registeredAt, handledAt, mocked, looksLeft, lookedAt>>

BeginWait ==
  /\ Running("waitForTransfersAmount") /\ looksLeft = 0
  /\ looksLeft' = Attempts(Arg.query) /\ lookedAt' = height - 1
  /\ UNCHANGED <<scriptVars, lag, registeredAt, handledAt, transfers, mocked>>

InWait == Running("waitForTransfersAmount") /\ looksLeft > 0

(* An attempt of waitForTransfersAmount: it waits for exactly the number.   *)
LookAtNumber ==
  /\ InWait /\ height > lookedAt
  /\ lookedAt' = height /\ looksLeft' = (IF queryTransfersNumber = Arg.number
                                            THEN 0 ELSE looksLeft - 1)
  /\ IF queryTransfersNumber = Arg.number THEN StepDone
     ELSE IF looksLeft = 1 THEN Ends("used_up") ELSE UNCHANGED scriptVars
  /\ UNCHANGED <<lag, registeredAt, handledAt, transfers, mocked>>

(* a slip: failures are counted a block earlier *)
TxWaitShort ==
  /\ Running("waitBlocks") /\ BlocksPassed(Arg - 1) /\ StepDone
  /\ UNCHANGED <<lag, registeredAt, handledAt, transfers, mocked, looksLeft, lookedAt>>

TxWaitBlocks ==
  /\ Running("waitBlocks") /\ BlocksPassed(Arg) /\ StepDone
  /\ UNCHANGED <<lag, registeredAt, handledAt, transfers, mocked, looksLeft, lookedAt>>

TxExpect ==
  /\ \/ Running("expectTransfers")
        /\ Expect(queryRecipientTxs(Arg.query) = Arg.number, "transfers_differ")
     \/ Running("expectUnsuccessful")
        /\ Expect(Cardinality(getUnsuccessfulTxs) = Arg, "count_differs")
  /\ UNCHANGED <<lag, registeredAt, handledAt, transfers, mocked, looksLeft, lookedAt>>

-------------------------------------------------------------------------------
(* The relayer and Neutron                                                  *)

DueAt(q) == IF handledAt[q] = 0 THEN registeredAt[q] ELSE handledAt[q] + Period(q)

Handle(q) ==
  /\ verdict = "running"
  /\ registeredAt[q] > 0 /\ height >= DueAt(q)
  /\ handledAt' = [handledAt EXCEPT ![q] = height]
  /\ transfers' = [i \in DOMAIN transfers |->
                     IF transfers[i].query = q /\ transfers[i].state = "sent"
                       THEN [transfers[i] EXCEPT !.state = "submitted"]
                       ELSE transfers[i]]
  /\ UNCHANGED <<scriptVars, lag, registeredAt, mocked, looksLeft, lookedAt>>

TxBlock ==
  /\ verdict = "running" /\ step <= Len(tests)
  /\ IF Running("waitBlocks") THEN ~ BlocksPassed(Arg + MaxSlow)
     ELSE IF InWait THEN height <= lookedAt
     ELSE ~ Running("waitForTransfersAmount") /\ ~ BlocksPassed(MaxSlow)
  /\ \A q \in Queries : registeredAt[q] > 0 => height < DueAt(q) + lag
  /\ height' = height + 1
  /\ transfers' = [i \in DOMAIN transfers |->
                     IF transfers[i].state = "submitted"
                       THEN [transfers[i] EXCEPT
                               !.state = IF mocked THEN "failed" ELSE "recorded"]
                       ELSE transfers[i]]
  /\ UNCHANGED <<file, tests, step, verdict, begun, lag, registeredAt, handledAt, mocked,
                 looksLeft, lookedAt>>

TxNext ==
  \/ registerTransfersQuery \/ SendTokens \/ SetQueryMock \/ postResubmitTxs
  \/ BeginWait \/ LookAtNumber \/ TxWaitBlocks \/ TxExpect
  \/ \E q \in Queries : Handle(q)
  \/ TxBlock

TxSpec == ScriptInit(TxFiles) /\ TxInit /\ [][TxNext]_txVars

-------------------------------------------------------------------------------
(* The variables have their types. *)
TxTypeOK ==
  /\ ScriptTypeOK
  /\ lag \in 0 .. MaxLag
  /\ registeredAt \in [Queries -> Nat] /\ handledAt \in [Queries -> Nat]
  /\ \A i \in DOMAIN transfers :
       /\ transfers[i].query \in Queries /\ transfers[i].at \in 1 .. height
       /\ transfers[i].state \in {"sent", "submitted", "recorded", "failed"}
  /\ mocked \in BOOLEAN
  /\ looksLeft \in 0 .. 2 * LongPeriod /\ lookedAt \in Nat

(* The younger transfer of OrderTests is sent early enough for the test to  *)
(* see it, and to look once more, before the older one's query is due again. *)
InTime ==
  \A i, j \in DOMAIN transfers :
    transfers[i].query = 1 /\ transfers[j].query = 2 /\ j < i =>
      transfers[i].at + ShortPeriod + lag + 2 * MaxSlow < registeredAt[2] + LongPeriod

(* "by these checks we ensure the transactions will be processed in the     *)
(* desired order": they are, when the test is in time and the relayer       *)
(* handles the queries on init in the two blocks it is given.  The sum of   *)
(* what both queries recorded does not jump over the number waited for.     *)
NotOverlooked ==
  (file = "order" /\ lag <= 1 /\ InTime) =>
    /\ InWait => queryTransfersNumber <= Arg.number
    /\ verdict # "transfers_differ"

(* Attempts for twice the update period are enough for a transfer to be     *)
(* recorded by a relayer that is late by two blocks less than a period,     *)
(* unless the number was jumped over.                                       *)
WaitSuffices ==
  (verdict = "used_up" /\ lag + 2 <= ShortPeriod) =>
    queryTransfersNumber > tests[step].arg.number

(* The blocks waited before failures are counted are enough for a relayer   *)
(* whose delay, on top of the update period, is less than they are: with    *)
(* the file's five blocks and period of four, one that is never late.       *)
CountInTime == ShortPeriod + lag < CheckBlocks
FailuresCounted == CountInTime => verdict # "count_differs"
===============================================================================
