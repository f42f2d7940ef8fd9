----------------------------- MODULE InterchainTx -----------------------------
(***************************************************************************)
(* The tests of interchain transactions                                     *)
(* (src/testcases/run_in_band/interchaintx.test.ts) and the helpers they    *)
(* wait and relay with (src/helpers/interchaintxs.ts).  A contract on       *)
(* Neutron delegates through an interchain account: a packet is sent, hermes *)
(* relays it to the remote chain and its acknowledgement, or its timeout,   *)
(* back, and the contract's sudo handler stores the result.  The test turns *)
(* on a mock that makes the handler fail, pauses the hermes container, and  *)
(* relays packets by hand through a link of its own.                        *)
(*                                                                          *)
(* A test is a list of steps.  Hermes, the two chains and the contract are  *)
(* external: a transaction that hermes has broadcast is executed later,     *)
(* also when hermes was paused in between.  No list has two packets of one  *)
(* ordered channel on their way, so the order of a channel is left out.     *)
(***************************************************************************)
EXTENDS TestScript, FiniteSets

VARIABLES
  relaying,    \* where relayPacketFromA is
  handAcks,    \* the acknowledgements it found pending
  packets,     \* the packets sent by the contract
  closed,      \* accounts whose channel is closed
  acks,        \* packets whose result is in the contract's storage
  failures,    \* packets whose sudo call failed
  mock,        \* the sudo handler fails
  paused,      \* hermes is paused
  undone,      \* packets not received when it was paused
  recvTx,      \* packets hermes has broadcast to the remote chain
  ackTx,       \* packets whose result hermes has broadcast to Neutron
  delegated    \* what the accounts of the test have delegated

handVars == <<relaying, handAcks>>
neutronVars == <<packets, closed, acks, failures>>
hermesVars == <<recvTx, ackTx>>
icaVars == <<scriptVars, handVars, neutronVars, mock, paused, undone,
             hermesVars, delegated>>

(* A delegation of the contract from an account, with a timeout of a second *)
(* or a long one; the double one is sent again when it is acknowledged.     *)
Message(ica, amount, timeout, double) ==
  [ica |-> ica, amount |-> amount, timeout |-> timeout, double |-> double]
Delegate(ica, amount, timeout) ==
  Do("delegate", Message(ica, amount, timeout, FALSE))
DelegateDoubleAck(ica, amount) ==
  Do("delegate", Message(ica, amount, FALSE, TRUE))

Unordered == "test-unordered"

(* "ack failure during sudo" and its variants, which differ in the mock     *)
SudoFailure(ica, timeout, number) ==
  << Do("mock", TRUE), Delegate(ica, 10, timeout), Do("waitForFailures", number),
     Do("expectAcks", {}), Do("mock", FALSE) >>

(* "Send Interchain TX", "DOUBLE ACK", "Error cases" and "Recreation", whose *)
(* other tests repeat these steps                                           *)
SendTests ==
  << Delegate("test1", 1000, FALSE), Do("waitForAck", 1), Do("expectDelegated", 1000),
     DelegateDoubleAck("test1", 500), Do("waitForAck", 2), Do("waitForAck", 3),
     Do("expectDelegated", 2000), Do("cleanAckResults", 0),
     Delegate("test1", 10, TRUE), Do("waitForAck", 4), Do("expectTimeout", 4),
     Do("tryDelegate", Message("test1", 10, TRUE, FALSE)), Do("register", "test1"),
     Do("cleanAckResults", 0),
     Delegate("test1", 20, FALSE), Do("waitForAck", 5), Do("expectDelegated", 2020) >>

(* "Delegate with sudo failure" *)
SudoFailureTests ==
  << Do("cleanAckResults", 0), Do("expectAcks", {}) >>
  \o SudoFailure("test1", FALSE, 1) \o SudoFailure("test1", FALSE, 2)
  \o SudoFailure("test1", FALSE, 3) \o SudoFailure("test1", FALSE, 4)
  \o SudoFailure("test1", TRUE, 5) \o SudoFailure("test2", TRUE, 6)
  \o << Do("expectFailures", 6), Do("expectAcks", {}),
        Do("mock", TRUE), Do("resubmit", 0), Do("expectFailures", 6),
        Do("expectAcks", {}), Do("mock", FALSE),
        Do("resubmit", 0), Do("expectFailures", 5), Do("expectAcks", {1}) >>

(* "Unordered channel" *)
UnorderedTests ==
  << Do("cleanAckResults", 0), Delegate(Unordered, 100, TRUE),
     Do("waitForAck", 1), Do("expectTimeout", 1),
     Delegate(Unordered, 100, FALSE), Do("getAck", 2),
     Do("pause", 0), Delegate(Unordered, 200, FALSE), Delegate(Unordered, 400, FALSE),
     Do("expectDelegated", 100),
     Do("relay", 4), Do("waitForAck", 4), Do("expectDelegated", 500),
     Do("relay", 3), Do("waitForAck", 3), Do("expectDelegated", 700),
     Do("unpause", 0) >>

IcaFiles ==
  [send |-> SendTests, sudo_failure |-> SudoFailureTests, unordered |-> UnorderedTests]

IcaInit ==
  /\ relaying = "no" /\ handAcks = {}
  /\ packets = <<>> /\ closed = {} /\ acks = {} /\ failures = {}
  /\ mock = FALSE /\ paused = FALSE /\ undone = {}
  /\ recvTx = {} /\ ackTx = {} /\ delegated = 0

-------------------------------------------------------------------------------
(* Packets                                                                  *)

In(state) == {k \in DOMAIN packets : packets[k].state = state}

(* The remote chain executes the packet, unless it is past its timeout. *)
Receive(k) ==
  IF packets[k].state = "sent" /\ ~ packets[k].expired
    THEN /\ packets' = [packets EXCEPT ![k].state = "received"]
         /\ delegated' = delegated + packets[k].message.amount
    ELSE UNCHANGED <<packets, delegated>>

HasResult(k) ==
  \/ packets[k].state = "received"
  \/ packets[k].state = "sent" /\ packets[k].expired

Sent(message) == [message |-> message, state |-> "sent", expired |-> FALSE]

(* The channel of an account that a timeout closes *)
Closes(ica) == ica # Unordered

(* The contract's sudo handler gets the results of `ks`: it stores them, or *)
(* fails and leaves that to the contract manager.  A timeout closes an      *)
(* ordered channel; the acknowledgement of a double delegation sends it     *)
(* once more.                                                               *)
Sudo(ks) ==
  /\ packets' =
       [k \in DOMAIN packets |->
          IF k \notin ks THEN packets[k]
          ELSE [packets[k] EXCEPT !.state =
                  IF @ = "received" THEN "acknowledged" ELSE "timed_out"]]
       \o (IF \E k \in ks : packets[k].message.double /\ ~ mock
             THEN << Sent(Message("test1", 500, FALSE, FALSE)) >> ELSE <<>>)
  /\ closed' = closed \union
       {packets[k].message.ica :
          k \in {j \in ks : packets[j].state = "sent" /\ Closes(packets[j].message.ica)}}
  /\ IF mock
       THEN failures' = failures \union ks /\ UNCHANGED acks
       ELSE acks' = acks \union ks /\ UNCHANGED failures

-------------------------------------------------------------------------------
(* The test                                                                 *)

(* execute({delegate}), in a block when it returns; a test that expects the  *)
(* channel to be closed catches what it throws.                             *)
ExecuteDelegate ==
  /\ \/ Running("delegate") /\ Expect(Arg.ica \notin closed, "rejected")
     \/ Running("tryDelegate") /\ StepDone
  /\ packets' = IF Arg.ica \in closed THEN packets ELSE Append(packets, Sent(Arg))
  /\ UNCHANGED <<handVars, closed, acks, failures, mock, paused, undone, hermesVars,
                 delegated>>

(* The account is registered again, and the test waits for the new channel. *)
RegisterAgain ==
  /\ Running("register") /\ StepDone
  /\ closed' = closed \ {Arg}
  /\ UNCHANGED <<handVars, packets, acks, failures, mock, paused, undone, hermesVars,
                 delegated>>

CleanAckResults ==
  /\ Running("cleanAckResults")
  /\ acks' = {} /\ StepDone
  /\ UNCHANGED <<handVars, packets, closed, failures, mock, paused, undone,
                 hermesVars, delegated>>

SetMock ==
  /\ Running("mock")
  /\ mock' = Arg /\ StepDone
  /\ UNCHANGED <<handVars, neutronVars, paused, undone, hermesVars, delegated>>

(* A wait sees what it waits for, or has used up its attempts. *)
WaitUntil(ready) ==
  /\ \/ ready /\ StepDone
     \/ ~ ready /\ Ends("rejected")
  /\ UNCHANGED <<handVars, neutronVars, mock, paused, undone, hermesVars, delegated>>

WaitForAck == Running("waitForAck") /\ WaitUntil(Arg \in acks)

(* A single look, whose answer nobody reads *)
GetAck ==
  /\ Running("getAck") /\ StepDone
  /\ UNCHANGED <<handVars, neutronVars, mock, paused, undone, hermesVars, delegated>>

(* a slip: a failure of an earlier test is taken for this one's *)
WaitForAnyFailure ==
  Running("waitForFailures") /\ WaitUntil(failures # {})

WaitForFailures ==
  Running("waitForFailures") /\ WaitUntil(Cardinality(failures) = Arg)

(* resubmit_failure of the oldest failure: with the mock it fails again *)
ResubmitFailure ==
  /\ Running("resubmit") /\ StepDone
  /\ \E k \in failures :
       /\ \A j \in failures : k <= j
       /\ IF mock THEN UNCHANGED <<acks, failures>>
                  ELSE acks' = acks \union {k} /\ failures' = failures \ {k}
  /\ UNCHANGED <<handVars, packets, closed, mock, paused, undone, hermesVars,
                 delegated>>

ExpectStep ==
  /\ \/ Running("expectAcks") /\ Expect(acks = Arg, "acks_differ")
     \/ Running("expectFailures") /\ Expect(Cardinality(failures) = Arg, "failures_differ")
     \/ Running("expectTimeout")
        /\ Expect(packets[Arg].state = "timed_out", "rejected")
     \/ Running("expectDelegated")
        /\ Expect(delegated = Arg, "delegations_differ")
  /\ UNCHANGED <<handVars, neutronVars, mock, paused, undone, hermesVars, delegated>>

(* a slip: another container is paused *)
PauseOther ==
  /\ Running("pause") /\ StepDone
  /\ undone' = In("sent")
  /\ UNCHANGED <<handVars, neutronVars, mock, paused, hermesVars, delegated>>

(* docker pause setup-hermes-1 *)
Pause ==
  /\ Running("pause") /\ StepDone
  /\ paused' = TRUE /\ undone' = In("sent")
  /\ UNCHANGED <<handVars, neutronVars, mock, hermesVars, delegated>>

Unpause ==
  /\ Running("unpause") /\ StepDone
  /\ paused' = FALSE
  /\ UNCHANGED <<handVars, neutronVars, mock, undone, hermesVars, delegated>>

(* relayPacketFromA: link.relayPackets throws when the chain has it already *)
RelayPackets ==
  /\ Running("relay") /\ relaying = "no"
  /\ IF packets[Arg].state = "sent"
       THEN Receive(Arg) /\ relaying' = "relayed" /\ UNCHANGED scriptVars
       ELSE Ends("redundant") /\ UNCHANGED <<packets, delegated, relaying>>
  /\ UNCHANGED <<handAcks, closed, acks, failures, mock, paused, undone, hermesVars>>

(* a slip: an acknowledgement that is not the packet's is asked for *)
GetPendingAcksOfOthers ==
  /\ Running("relay") /\ relaying = "relayed"
  /\ relaying' = "acks" /\ handAcks' = In("received") \ {Arg}
  /\ UNCHANGED <<scriptVars, neutronVars, mock, paused, undone, hermesVars,
                 delegated>>

(* link.getPendingAcks, of whoever relayed the packets *)
GetPendingAcks ==
  /\ Running("relay") /\ relaying = "relayed"
  /\ relaying' = "acks" /\ handAcks' = In("received")
  /\ UNCHANGED <<scriptVars, neutronVars, mock, paused, undone, hermesVars,
                 delegated>>

RelayAcks ==
  /\ Running("relay") /\ relaying = "acks"
  /\ Sudo(handAcks \intersect In("received"))
  /\ relaying' = "no" /\ handAcks' = {} /\ StepDone
  /\ UNCHANGED <<mock, paused, undone, hermesVars, delegated>>

TestStepIca ==
  \/ ExecuteDelegate \/ RegisterAgain \/ CleanAckResults \/ SetMock
  \/ WaitForAck \/ GetAck \/ WaitForFailures \/ ResubmitFailure \/ ExpectStep
  \/ Pause \/ Unpause \/ RelayPackets \/ GetPendingAcks \/ RelayAcks

-------------------------------------------------------------------------------
(* Hermes and the chains                                                    *)

HermesRelaysPacket(k) ==
  /\ ~ paused /\ packets[k].state = "sent" /\ k \notin recvTx
  /\ recvTx' = recvTx \union {k}
  /\ UNCHANGED <<scriptVars, handVars, neutronVars, mock, paused, undone,
                 ackTx, delegated>>

HermesRelaysResult(k) ==
  /\ ~ paused /\ HasResult(k) /\ k \notin ackTx
  /\ ackTx' = ackTx \union {k}
  /\ UNCHANGED <<scriptVars, handVars, neutronVars, mock, paused, undone,
                 recvTx, delegated>>

RemoteExecutes(k) ==
  /\ k \in recvTx
  /\ recvTx' = recvTx \ {k}
  /\ Receive(k)
  /\ UNCHANGED <<scriptVars, handVars, closed, acks, failures, mock, paused,
                 undone, ackTx>>

NeutronExecutes(k) ==
  /\ k \in ackTx
  /\ ackTx' = ackTx \ {k}
  /\ IF HasResult(k) THEN Sudo({k}) ELSE UNCHANGED neutronVars
  /\ UNCHANGED <<scriptVars, handVars, mock, paused, undone, recvTx,
                 delegated>>

(* The remote chain's time passes the timeout of a packet. *)
Expire(k) ==
  /\ packets[k].message.timeout /\ ~ packets[k].expired /\ packets[k].state = "sent"
  /\ packets' = [packets EXCEPT ![k].expired = TRUE]
  /\ UNCHANGED <<scriptVars, handVars, closed, acks, failures, mock, paused,
                 undone, hermesVars, delegated>>

Relaying ==
  \E k \in DOMAIN packets :
    \/ HermesRelaysPacket(k) \/ HermesRelaysResult(k)
    \/ RemoteExecutes(k) \/ NeutronExecutes(k) \/ Expire(k)

IcaNext == TestStepIca \/ Relaying

(* Every await of the test settles; hermes may stand still for ever. *)
IcaSpec == ScriptInit(IcaFiles) /\ IcaInit /\ [][IcaNext]_icaVars /\ WF_icaVars(TestStepIca)

-------------------------------------------------------------------------------
(* The variables have their types. *)
IcaTypeOK ==
  /\ ScriptTypeOK
  /\ relaying \in {"no", "relayed", "acks"}
  /\ \A k \in DOMAIN packets :
       /\ packets[k].state \in {"sent", "received", "acknowledged", "timed_out"}
       /\ packets[k].expired \in BOOLEAN
  /\ {handAcks, acks, failures, undone, recvTx, ackTx} \subseteq SUBSET DOMAIN packets
  /\ closed \subseteq {"test1", "test2"}
  /\ mock \in BOOLEAN /\ paused \in BOOLEAN
  /\ delegated \in Nat

(* When hermes had relayed every packet by the time it was paused, the test *)
(* is in control: each look at the delegations finds those that the test    *)
(* waited for, in the order in which it relayed them by hand.               *)
DelegationsRight == verdict = "delegations_differ" => undone # {}

(* A packet relayed by hand was not relayed by hermes: relayPacketFromA     *)
(* does not throw, and the wait for its acknowledgement has something to    *)
(* wait for even though hermes is paused.                                   *)
RelayedByHand ==
  /\ verdict # "redundant"
  /\ (Running("waitForAck") /\ paused) => Arg \in acks

(* Waiting for exactly one failure more than before keeps the mock on until *)
(* the packet sent under it was handled: no result is stored that should    *)
(* have failed, and only the one resubmitted without the mock comes back.   *)
AcksRight == verdict \notin {"acks_differ", "failures_differ"}

(* "should be delegated 100 coins from before"                              *)
(* (src/testcases/run_in_band/interchaintx.test.ts:1373): the delegation    *)
(* whose acknowledgement was asked for once, but not waited for, has been   *)
(* relayed when hermes is paused.                                           *)
DelegatedBefore == verdict # "delegations_differ"
===============================================================================
